----------------------------- MODULE FactoryRun -----------------------------
(***************************************************************************)
(* A run of Zeto's content factory: the rows of workflow_runs and          *)
(* workflow_steps (workflowRepository.js), and the runners that advance it *)
(* inside the requests of the API (factoryWorkflow.js,                     *)
(* factoryWorkflowService.js).                                             *)
(*                                                                         *)
(* Every start and every approval of a run brings a runner of its own,     *)
(* which awaits the database and the handler of a stage. A row names the   *)
(* worker that runs it, factory-<pid>: the runners of one process, and of  *)
(* containers that give their process the same pid, cannot tell each       *)
(* other's rows apart, so the model keeps no owner: any runner may settle  *)
(* a row that is running.                                                  *)
(*                                                                         *)
(* Runs share nothing, so there is one. Of the artifacts that the stages   *)
(* hand on, the approval decision is kept; spans and costs are left out,   *)
(* and available_at: a row in retry_wait may be due or not.                *)
(***************************************************************************)
EXTENDS Naturals

CONSTANTS
    StageCount,     \* stages of the definition
    ReviewStage,    \* M10_QA
    ApprovalStage,  \* APPROVAL
    PublishStage,   \* M06_PUBLISH
    StageAttempts,  \* maxAttempts of a stage
    Runner,         \* requests in service at the same time
    AttemptBound    \* bound: claims of a stage

Stages == 1..StageCount

ASSUME FactoryAssumption ==
    /\ StageCount \in Nat
    /\ ReviewStage \in Stages /\ ApprovalStage \in Stages /\ PublishStage \in Stages
    /\ ReviewStage < ApprovalStage /\ ApprovalStage < PublishStage
    /\ StageAttempts \in [Stages -> Nat \ {0}]
    /\ AttemptBound \in Nat

VARIABLES
    run,     \* the row of the run; allowed: the verdict of the autopilot policy
    step,    \* step[s]: the row of stage s, with the decisions its input and output carry
    assets,  \* the assets; signed: an approval of them was ever recorded
    runner   \* runner[r]: what request r is doing

factoryVars == <<run, step, assets, runner>>

RunStatus == {"none", "running", "succeeded", "failed", "cancelled"}
FactoryStepStatus ==
    {"queued", "running", "retry_wait", "blocked", "succeeded", "failed", "cancelled"}

\* approvalDecision, approved or overridden, by whom: the request that started the run,
\* whose body is passed on as it is, or a reviewer.
Decision == {"none", "starter", "reviewer"}

FactoryStep == [status : FactoryStepStatus, attempt : Nat, input : Decision, output : Decision]
Assets == [status : {"review", "approved"}, published : BOOLEAN, signed : BOOLEAN]
RunnerState == [at : {"idle", "loop", "working", "done", "error", "fatal"},
                stage : Stages, decision : Decision]

NewStep == [status |-> "queued", attempt |-> 0, input |-> "none", output |-> "none"]
NoRequest == [at |-> "idle", stage |-> ReviewStage, decision |-> "none"]

FactoryInit ==
    /\ run = [status |-> "none", allowed |-> FALSE]
    /\ step = [s \in Stages |-> NewStep]
    /\ assets = [status |-> "review", published |-> FALSE, signed |-> FALSE]
    /\ runner = [r \in Runner |-> NoRequest]

RunEnded == run.status \in {"succeeded", "failed", "cancelled"}
OpenSteps == {"queued", "running", "retry_wait", "blocked"}

Become(r, at) == runner' = [runner EXCEPT ![r].at = at]

-----------------------------------------------------------------------------
(* The requests *)

\* The body is the input of the first stage; the same command key finds the run that is
\* there.
StartRun(r) ==
    /\ runner[r].at = "idle"
    /\ \/ /\ run.status = "none"
          /\ \E allowed \in BOOLEAN : run' = [status |-> "running", allowed |-> allowed]
          /\ \E decision \in {"none", "starter"} : step' = [step EXCEPT ![1].input = decision]
       \/ run.status # "none" /\ UNCHANGED <<run, step>>
    /\ Become(r, "loop")
    /\ UNCHANGED assets

\* resumeBlocked: what the blocked stage put out, with the decision, is its input.
ApproveRun(r) ==
    /\ runner[r].at = "idle"
    /\ step[ApprovalStage].status = "blocked"
    /\ step' = [step EXCEPT ![ApprovalStage].status = "queued",
                            ![ApprovalStage].input = "reviewer"]
    /\ Become(r, "loop")
    /\ UNCHANGED <<run, assets>>

CancelRun ==
    /\ run.status = "running"
    /\ run' = [run EXCEPT !.status = "cancelled"]
    /\ step' = [s \in Stages |-> IF step[s].status \in OpenSteps
                                 THEN [step[s] EXCEPT !.status = "cancelled"] ELSE step[s]]
    /\ UNCHANGED <<assets, runner>>

\* A stage that has been running for too long; no runner beats while it works.
RequeueStuck(s) ==
    /\ step[s].status = "running"
    /\ IF step[s].attempt < StageAttempts[s]
         THEN step' = [step EXCEPT ![s].status = "retry_wait"] /\ UNCHANGED run
         ELSE /\ step' = [step EXCEPT ![s].status = "failed"]
              /\ run' = [run EXCEPT !.status = IF run.status = "running" THEN "failed" ELSE run.status]
    /\ UNCHANGED <<assets, runner>>

-----------------------------------------------------------------------------
(* The loop of a runner: FactoryWorkflowRunner.run *)

\* An error: a stage that waits for a decision does not hold up the next.
DueOverBlocked(s) ==
    /\ step[s].status \in {"queued", "retry_wait"}
    /\ \A p \in 1..(s - 1) : step[p].status \in {"succeeded", "blocked"}

\* claimNext: the stage whose predecessors have all succeeded.
Due(s) ==
    /\ step[s].status \in {"queued", "retry_wait"}
    /\ \A p \in 1..(s - 1) : step[p].status = "succeeded"

\* A first attempt takes what the stage before put out, a later one its own input.
Artifact(s) ==
    IF step[s].attempt = 0 /\ s > 1 THEN step[s - 1].output ELSE step[s].input

ClaimStage(r) ==
    /\ runner[r].at = "loop"
    /\ run.status # "none"
    /\ \E s \in Stages :
          /\ Due(s)
          /\ step[s].attempt < AttemptBound
          /\ step' = [step EXCEPT ![s].status = "running", ![s].attempt = step[s].attempt + 1,
                                  ![s].input = Artifact(s)]
          /\ runner' = [runner EXCEPT ![r] =
                [at |-> "working", stage |-> s, decision |-> Artifact(s)]]
    /\ UNCHANGED <<run, assets>>

\* The run has ended, or nothing of it is due: the request is answered.
LeaveRun(r) ==
    /\ runner[r].at = "loop"
    /\ RunEnded \/ ~ \E s \in Stages : Due(s) /\ step[s].status = "queued"
    /\ Become(r, "idle")
    /\ UNCHANGED <<run, step, assets>>

\* An error: the policy's verdict is not looked at.
MayPassAlways(r) == TRUE
MayPass(r) == runner[r].decision # "none" \/ run.allowed

\* createApproved
Publishable == assets.status = "approved"

\* What the handlers of the three stages change: persistQa sends the assets back to
\* review, approve signs them, createApproved queues one publication under its key.
Effect(r) ==
    LET s == runner[r].stage IN
    /\ s = ApprovalStage => MayPass(r)
    /\ s = PublishStage => assets.published \/ Publishable
    /\ assets' = [status    |-> IF s = ReviewStage THEN "review"
                                ELSE IF s = ApprovalStage THEN "approved" ELSE assets.status,
                  published |-> assets.published \/ s = PublishStage,
                  signed  |-> assets.signed \/ s = ApprovalStage]

\* A handler succeeds, or fails after its effect or without it; the kill switch
\* makes a publication fail for good.
HandleStage(r) ==
    /\ runner[r].at = "working"
    /\ \/ Effect(r) /\ (Become(r, "done") \/ Become(r, "error"))
       \/ Become(r, "error") /\ UNCHANGED assets
       \/ runner[r].stage = PublishStage /\ Become(r, "fatal") /\ UNCHANGED assets
    /\ UNCHANGED <<run, step>>

\* An error: the row is settled whatever became of it.
OwnedAnyway(s) == TRUE

\* worker_id = $2 AND status = 'running'
Owned(s) == step[s].status = "running"

\* A transaction that deadlocks with another, or is refused, does nothing and throws.
Refused(r, at) == Become(r, at) /\ UNCHANGED <<run, step>>

\* The handler of the approval asks for a decision. The request ends, unless
\* closing the span fails.
BlockStage(r) ==
    LET s == runner[r].stage IN
    /\ runner[r].at = "working" /\ s = ApprovalStage /\ ~ MayPass(r)
    /\ \/ /\ Owned(s)
          /\ step' = [step EXCEPT ![s].status = "blocked", ![s].output = runner[r].decision]
          /\ Become(r, "idle") \/ Become(r, "error")
          /\ UNCHANGED run
       \/ Refused(r, "error")
    /\ UNCHANGED assets

Remaining(s) == \E p \in Stages \ {s} : step[p].status # "succeeded"

SucceedStage(r) ==
    LET s == runner[r].stage IN
    /\ runner[r].at = "done"
    /\ \/ /\ Owned(s)
          /\ step' = [step EXCEPT ![s].status = "succeeded", ![s].output = runner[r].decision]
          /\ run' = [run EXCEPT !.status = IF Remaining(s) THEN "running" ELSE "succeeded"]
          /\ Become(r, "loop") \/ Become(r, "error")
       \/ Refused(r, "error")
    /\ UNCHANGED assets

\* The catch: back to the loop after an error that may be retried.
FailStage(r) ==
    LET s == runner[r].stage
        final == runner[r].at = "fatal" \/ step[s].attempt >= StageAttempts[s] IN
    /\ runner[r].at \in {"error", "fatal"}
    /\ \/ /\ Owned(s)
          /\ step' = [step EXCEPT ![s].status = IF final THEN "failed" ELSE "retry_wait"]
          /\ run' = [run EXCEPT !.status = IF final THEN "failed" ELSE run.status]
          /\ Become(r, "idle") \/ (runner[r].at = "error" /\ Become(r, "loop"))
       \/ Refused(r, "idle")
    /\ UNCHANGED assets

\* The process stops, or a call outside the try fails: the stage it claimed keeps
\* running in its row.
StopRunner(r) ==
    /\ runner[r].at # "idle"
    /\ Become(r, "idle")
    /\ UNCHANGED <<run, step, assets>>

FactoryNext ==
    \/ CancelRun
    \/ \E s \in Stages : RequeueStuck(s)
    \/ \E r \in Runner :
          \/ StartRun(r) \/ ApproveRun(r) \/ ClaimStage(r) \/ LeaveRun(r)
          \/ HandleStage(r) \/ BlockStage(r) \/ SucceedStage(r) \/ FailStage(r)
          \/ StopRunner(r)

FactorySpec == FactoryInit /\ [][FactoryNext]_factoryVars

-----------------------------------------------------------------------------

FactoryTypeOK ==
    /\ run \in [status : RunStatus, allowed : BOOLEAN]
    /\ step \in [Stages -> FactoryStep]
    /\ assets \in Assets
    /\ runner \in [Runner -> RunnerState]

\* A stage is only ever claimed when all those before it have succeeded, and they
\* stay so: retries, requeued rows and runners that settle each other's stages
\* never have two stages of a run in flight (claimNext).
StagesInOrder ==
    \A s \in Stages : step[s].attempt > 0 =>
        \A p \in 1..(s - 1) : step[p].status = "succeeded"

\* The run and its stages agree: it succeeds with all of them, fails with one of
\* them, and a cancelled run has no stage left that could be claimed or settled
\* (succeed, fail, cancel and requeueStuck, each in one transaction).
VerdictMatchesStages ==
    /\ run.status = "succeeded" <=>
          run.status # "none" /\ \A s \in Stages : step[s].status = "succeeded"
    /\ run.status = "failed" <=> \E s \in Stages : step[s].status = "failed"
    /\ run.status = "cancelled" => \A s \in Stages : step[s].status \notin OpenSteps

\* A run and its stages never contradict each other, in their order or in the verdict.
RunMatchesStages == StagesInOrder /\ VerdictMatchesStages

\* succeed writes the status of the run whatever it is: still, no slow runner takes
\* a verdict or a cancellation back.
RunVerdictIsFinal ==
    [][RunEnded => run'.status = run.status]_factoryVars

\* A publication exists only once the approval stage has passed: on the verdict of the
\* policy, on a decision a reviewer gave while it was blocked, or on one that the request
\* had brought with it which started the run. However the stages were retried and whoever
\* settled them, none of these comes from elsewhere, or is lost (APPROVAL, createApproved,
\* claimNext).
PublishedAsApproved ==
    assets.published =>
        /\ assets.signed
        /\ step[ApprovalStage].status = "succeeded"
        /\ run.allowed \/ step[ApprovalStage].input = "reviewer" \/ step[1].input = "starter"
=============================================================================
