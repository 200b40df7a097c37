-------------------------- MODULE FactoryRun_proofs --------------------------
(***************************************************************************)
(* Proofs about FactoryRun, for any stages, attempts and runners.          *)
(***************************************************************************)
EXTENDS FactoryRun, TLAPS

\* A stage that ever left the queue was claimed.
Begun ==
    \A s \in Stages :
        step[s].status \in {"running", "retry_wait", "blocked", "succeeded", "failed"}
            => step[s].attempt > 0

Fresh == run.status = "none" => \A s \in Stages : step[s] = NewStep

Verdict ==
    /\ run.status = "running" => /\ \A s \in Stages : step[s].status \notin {"failed", "cancelled"}
                                 /\ \E s \in Stages : step[s].status # "succeeded"
    /\ run.status = "succeeded" => \A s \in Stages : step[s].status = "succeeded"
    /\ run.status = "failed" => \E s \in Stages : step[s].status = "failed"
    /\ run.status = "cancelled" => /\ \A s \in Stages : step[s].status \notin OpenSteps
                                   /\ \E s \in Stages : step[s].status # "succeeded"
    /\ \A s \in Stages : step[s].status = "failed" => run.status = "failed"

\* The approval stage lets pass what the policy or a person allowed, and only what was
\* signed is published.
Signed ==
    /\ assets.status = "approved" \/ assets.published => assets.signed
    /\ assets.published => step[ApprovalStage].status = "succeeded"
    /\ step[ApprovalStage].status = "succeeded"
          => run.allowed \/ step[ApprovalStage].input # "none"

\* What a runner knows of the stage it works on stays true, whoever settles the stage.
WorkOK(r) ==
    runner[r].at \in {"working", "done", "error", "fatal"} =>
        /\ run.status # "none"
        /\ step[runner[r].stage].attempt > 0
        /\ runner[r].decision # "none" => step[runner[r].stage].input # "none"
        /\ runner[r].at = "done" /\ runner[r].stage = ApprovalStage
              => run.allowed \/ step[ApprovalStage].input # "none"

Work == \A r \in Runner : WorkOK(r)

RunInv == FactoryTypeOK /\ StagesInOrder /\ Begun /\ Fresh /\ Verdict /\ Signed /\ Work

\* A decision of the starter's is the one the request brought that started the run.
Carries(decision) == decision = "starter" => step[1].input = "starter"

Carried ==
    /\ \A s \in Stages : Carries(step[s].input) /\ Carries(step[s].output)
    /\ \A r \in Runner : Carries(runner[r].decision)

IInv == RunInv /\ Carried

\* A stage is settled: with an output, or without one.
Settles(s, status) ==
    \/ step' = [step EXCEPT ![s].status = status]
    \/ \E output \in Decision : step' = [step EXCEPT ![s].status = status, ![s].output = output]

\* No stage that was claimed loses its claims or the decision it was claimed with.
StagesKeep ==
    \A s \in Stages : step[s].attempt > 0 =>
        /\ step'[s].attempt > 0
        /\ step[s].input # "none" => step'[s].input # "none"

-----------------------------------------------------------------------------

LEMMA StageFacts ==
  /\ ReviewStage \in Stages /\ ApprovalStage \in Stages /\ PublishStage \in Stages
  /\ ApprovalStage # ReviewStage /\ ApprovalStage # PublishStage /\ ReviewStage # PublishStage
  /\ ApprovalStage \in 1..(PublishStage - 1)
  /\ 1 \in Stages /\ ApprovalStage # 1
  /\ \A s \in Stages : s \in Nat /\ \A p \in 1..(s - 1) : p \in Stages /\ p # s
  /\ \A s, p \in Stages : p \in 1..(s - 1) \/ s \in 1..(p - 1) \/ p = s
  BY FactoryAssumption DEF Stages

LEMMA BecomeTyped ==
  ASSUME FactoryTypeOK, NEW r \in Runner,
         NEW at \in {"idle", "loop", "working", "done", "error", "fatal"}, Become(r, at)
  PROVE  /\ runner' \in [Runner -> RunnerState]
         /\ runner'[r].at = at /\ runner'[r].stage = runner[r].stage
         /\ runner'[r].decision = runner[r].decision
         /\ \A q \in Runner : q # r => runner'[q] = runner[q]
  BY DEF Become, FactoryTypeOK, RunnerState

\* What a row becomes.
LEMMA StageTyped ==
  ASSUME FactoryTypeOK, NEW s \in Stages, NEW status \in FactoryStepStatus,
         Settles(s, status)
  PROVE  /\ step' \in [Stages -> FactoryStep]
         /\ step'[s].status = status /\ step'[s].attempt = step[s].attempt
         /\ step'[s].input = step[s].input
         /\ \A p \in Stages : p # s => step'[p] = step[p]
<1>1. step \in [Stages -> FactoryStep]
  BY DEF FactoryTypeOK
<1>2. CASE step' = [step EXCEPT ![s].status = status]
  BY <1>1, <1>2 DEF FactoryStep
<1>3. ASSUME NEW output \in Decision,
             step' = [step EXCEPT ![s].status = status, ![s].output = output]
      PROVE  /\ step' \in [Stages -> FactoryStep]
             /\ step'[s].status = status /\ step'[s].attempt = step[s].attempt
             /\ step'[s].input = step[s].input
             /\ \A p \in Stages : p # s => step'[p] = step[p]
  <2> PICK n : n = [step[s] EXCEPT !.status = status, !.output = output]
    OBVIOUS
  <2>1. /\ n \in FactoryStep /\ n.status = status /\ n.attempt = step[s].attempt
        /\ n.input = step[s].input
    BY <1>1 DEF FactoryStep
  <2>2. step' = [step EXCEPT ![s] = n]
    BY <1>1, <1>3
  <2> QED
    BY <1>1, <2>1, <2>2
<1> QED
  BY <1>2, <1>3 DEF Settles

LEMMA RunTyped ==
  ASSUME FactoryTypeOK, NEW status \in RunStatus, run' = [run EXCEPT !.status = status]
  PROVE  /\ run' \in [status : RunStatus, allowed : BOOLEAN]
         /\ run'.status = status /\ run'.allowed = run.allowed
  BY DEF FactoryTypeOK

\* What a stage is given to work on.
LEMMA ArtifactTyped ==
  ASSUME FactoryTypeOK, NEW s \in Stages
  PROVE  Artifact(s) \in Decision
<1>1. s > 1 => s - 1 \in Stages
  BY FactoryAssumption DEF Stages
<1> QED
  BY <1>1 DEF Artifact, FactoryTypeOK, FactoryStep

LEMMA StartTyped == FactoryInit => FactoryTypeOK
  BY FactoryAssumption DEF FactoryInit, FactoryTypeOK, RunStatus, NewStep, FactoryStep,
     FactoryStepStatus, Decision, Assets, NoRequest, RunnerState

LEMMA StepTyped ==
  ASSUME FactoryTypeOK, [FactoryNext]_factoryVars
  PROVE  FactoryTypeOK'
<1>1. CASE CancelRun
  <2>1. run' \in [status : RunStatus, allowed : BOOLEAN]
    BY <1>1, RunTyped DEF CancelRun, RunStatus
  <2>2. step' \in [Stages -> FactoryStep]
    BY <1>1 DEF CancelRun, FactoryTypeOK, FactoryStep, FactoryStepStatus
  <2> QED
    BY <1>1, <2>1, <2>2 DEF CancelRun, FactoryTypeOK
<1>2. ASSUME NEW s \in Stages, RequeueStuck(s)
      PROVE  FactoryTypeOK'
  <2>1. step' \in [Stages -> FactoryStep]
    BY <1>2, StageTyped DEF RequeueStuck, Settles, FactoryStepStatus
  <2>2. run' \in [status : RunStatus, allowed : BOOLEAN]
    BY <1>2 DEF RequeueStuck, FactoryTypeOK, RunStatus
  <2> QED
    BY <1>2, <2>1, <2>2 DEF RequeueStuck, FactoryTypeOK
<1>3. ASSUME NEW r \in Runner, StartRun(r)
      PROVE  FactoryTypeOK'
  <2>1. runner' \in [Runner -> RunnerState]
    BY <1>3, BecomeTyped DEF StartRun
  <2>2. run' \in [status : RunStatus, allowed : BOOLEAN]
    BY <1>3 DEF StartRun, FactoryTypeOK, RunStatus
  <2>3. step' \in [Stages -> FactoryStep]
    <3>1. step' = step \/ \E decision \in Decision : step' = [step EXCEPT ![1].input = decision]
      BY <1>3 DEF StartRun, Decision
    <3> QED
      BY <3>1 DEF FactoryTypeOK, FactoryStep
  <2> QED
    BY <1>3, <2>1, <2>2, <2>3 DEF StartRun, FactoryTypeOK
<1>4. ASSUME NEW r \in Runner, ApproveRun(r)
      PROVE  FactoryTypeOK'
  <2>1. runner' \in [Runner -> RunnerState]
    BY <1>4, BecomeTyped DEF ApproveRun
  <2>2. step' \in [Stages -> FactoryStep]
    <3> PICK n : n = [step[ApprovalStage] EXCEPT !.status = "queued", !.input = "reviewer"]
      OBVIOUS
    <3>1. n \in FactoryStep
      <4>1. /\ step[ApprovalStage] \in FactoryStep
            /\ "queued" \in FactoryStepStatus /\ "reviewer" \in Decision
        BY StageFacts DEF FactoryTypeOK, FactoryStepStatus, Decision
      <4> QED
        BY <4>1 DEF FactoryStep
    <3>2. step' = [step EXCEPT ![ApprovalStage] = n]
      BY <1>4, StageFacts DEF ApproveRun, FactoryTypeOK
    <3> QED
      BY <3>1, <3>2 DEF FactoryTypeOK
  <2> QED
    BY <1>4, <2>1, <2>2 DEF ApproveRun, FactoryTypeOK
<1>5. ASSUME NEW r \in Runner, ClaimStage(r)
      PROVE  FactoryTypeOK'
  <2>1. PICK s \in Stages :
           /\ step' = [step EXCEPT ![s].status = "running", ![s].attempt = step[s].attempt + 1,
                                   ![s].input = Artifact(s)]
           /\ runner' = [runner EXCEPT ![r] =
                 [at |-> "working", stage |-> s, decision |-> Artifact(s)]]
    BY <1>5 DEF ClaimStage
  <2>2. step[s].attempt + 1 \in Nat /\ Artifact(s) \in Decision
    BY ArtifactTyped DEF FactoryTypeOK, FactoryStep
  <2>3. step' \in [Stages -> FactoryStep]
    <3> PICK d : d = Artifact(s)
      OBVIOUS
    <3> QED
      BY <2>1, <2>2 DEF FactoryTypeOK, FactoryStep, FactoryStepStatus
  <2>4. runner' \in [Runner -> RunnerState]
    BY <2>1, <2>2 DEF FactoryTypeOK, RunnerState
  <2> QED
    BY <1>5, <2>3, <2>4 DEF ClaimStage, FactoryTypeOK
<1>6. ASSUME NEW r \in Runner, LeaveRun(r) \/ StopRunner(r)
      PROVE  FactoryTypeOK'
  BY <1>6, BecomeTyped DEF LeaveRun, StopRunner, FactoryTypeOK
<1>7. ASSUME NEW r \in Runner, HandleStage(r)
      PROVE  FactoryTypeOK'
  <2>1. runner' \in [Runner -> RunnerState]
    BY <1>7, BecomeTyped DEF HandleStage
  <2>2. assets' \in Assets
    <3>1. CASE Effect(r)
      <4>1. \A s : (assets.published \/ s = PublishStage) \in BOOLEAN /\ (assets.signed \/ s = ApprovalStage) \in BOOLEAN
        OBVIOUS
      <4>2. \A s : (IF s = ReviewStage THEN "review"
                    ELSE IF s = ApprovalStage THEN "approved" ELSE assets.status) \in {"review", "approved"}
        BY DEF FactoryTypeOK, Assets
      <4>3. \E status \in {"review", "approved"} : \E published, signed \in BOOLEAN :
               assets' = [status |-> status, published |-> published, signed |-> signed]
        BY <3>1, <4>1, <4>2, Zenon DEF Effect
      <4> QED
        BY <4>3 DEF Assets
    <3>2. CASE UNCHANGED assets
      BY <3>2 DEF FactoryTypeOK
    <3> QED
      BY <1>7, <3>1, <3>2 DEF HandleStage
  <2> QED
    BY <1>7, <2>1, <2>2 DEF HandleStage, FactoryTypeOK
<1>8. ASSUME NEW r \in Runner, BlockStage(r) \/ SucceedStage(r) \/ FailStage(r)
      PROVE  FactoryTypeOK'
  <2>1. runner' \in [Runner -> RunnerState]
    BY <1>8, BecomeTyped DEF BlockStage, SucceedStage, FailStage, Refused
  <2>2. runner[r].stage \in Stages
    BY DEF FactoryTypeOK, RunnerState
  <2>3. step' \in [Stages -> FactoryStep]
    <3>1. \/ step' = step
          \/ \E status \in FactoryStepStatus : Settles(runner[r].stage, status)
      <4>1. runner[r].decision \in Decision
        BY DEF FactoryTypeOK, RunnerState
      <4> QED
        BY <1>8, <4>1 DEF BlockStage, SucceedStage, FailStage, Refused, Settles, FactoryStepStatus
    <3> QED
      BY <2>2, <3>1, StageTyped DEF FactoryTypeOK
  <2>4. run' \in [status : RunStatus, allowed : BOOLEAN]
    BY <1>8 DEF BlockStage, SucceedStage, FailStage, Refused, FactoryTypeOK, RunStatus
  <2> QED
    BY <1>8, <2>1, <2>3, <2>4 DEF BlockStage, SucceedStage, FailStage, FactoryTypeOK
<1>9. CASE UNCHANGED factoryVars
  BY <1>9 DEF factoryVars, FactoryTypeOK
<1> QED
  BY <1>1, <1>2, <1>3, <1>4, <1>5, <1>6, <1>7, <1>8, <1>9 DEF FactoryNext

\* Every reachable state is well typed: the run, its stages and its runners.
THEOREM FactoryTypeCorrect == FactorySpec => []FactoryTypeOK
<1>1. FactoryTypeOK /\ [FactoryNext]_factoryVars => FactoryTypeOK'
  BY StepTyped
<1> QED
  BY <1>1, StartTyped, PTL DEF FactorySpec

-----------------------------------------------------------------------------
(* The inductive invariant *)

\* An open stage whose turn it is, or was: the run is running.
LEMMA Live ==
  ASSUME RunInv, NEW s \in Stages, step[s].status \in OpenSteps, run.status # "none",
         \A p \in 1..(s - 1) : step[p].status = "succeeded"
  PROVE  run.status = "running"
<1> USE DEF RunInv
<1>1. run.status # "succeeded" /\ run.status # "cancelled"
  BY DEF Verdict, OpenSteps
<1>2. run.status # "failed"
  <2> SUFFICES ASSUME run.status = "failed"
               PROVE  FALSE
    OBVIOUS
  <2>1. PICK f \in Stages : step[f].status = "failed"
    BY DEF Verdict
  <2>2. step[f].attempt > 0
    BY <2>1 DEF Begun
  <2>3. f \notin 1..(s - 1)
    BY <2>1
  <2>4. s \notin 1..(f - 1)
    BY <2>2 DEF StagesInOrder, OpenSteps
  <2>5. s # f
    BY <2>1 DEF OpenSteps
  <2> QED
    BY <2>3, <2>4, <2>5, StageFacts
<1> QED
  BY <1>1, <1>2 DEF FactoryTypeOK, RunStatus

LEMMA LiveStage ==
  ASSUME RunInv, NEW s \in Stages, step[s].status \in {"running", "blocked"}
  PROVE  /\ run.status = "running"
         /\ step[s].attempt > 0
         /\ \A p \in 1..(s - 1) : step[p].status = "succeeded"
<1> USE DEF RunInv
<1>1. step[s].attempt > 0
  BY DEF Begun
<1>2. \A p \in 1..(s - 1) : step[p].status = "succeeded"
  BY <1>1 DEF StagesInOrder
<1>3. run.status # "none"
  BY DEF Fresh, NewStep
<1> QED
  BY <1>1, <1>2, <1>3, Live DEF OpenSteps

\* A stage whose turn it is moves, and the run with it.
LEMMA StageMoves ==
  ASSUME RunInv, FactoryTypeOK', NEW s \in Stages, run.status = "running",
         step[s].status \in OpenSteps,
         \A p \in 1..(s - 1) : step[p].status = "succeeded",
         \A p \in Stages : p # s => step'[p] = step[p],
         step'[s].status \in {"running", "retry_wait", "blocked", "succeeded", "failed"}
            => step'[s].attempt > 0,
         step[s].attempt > 0 /\ step[s].input # "none" => step'[s].input # "none",
         \/ /\ run'.status = "running" /\ step'[s].status \notin {"failed", "cancelled"}
            /\ \E p \in Stages : step'[p].status # "succeeded"
         \/ run'.status = "failed" /\ step'[s].status = "failed"
         \/ run'.status = "succeeded" /\ \A p \in Stages : step'[p].status = "succeeded",
         s = ApprovalStage /\ step'[s].status = "succeeded" 
            => run.allowed \/ step'[s].input # "none",
         run'.allowed = run.allowed, assets' = assets
  PROVE  (StagesInOrder /\ Begun /\ Fresh /\ Verdict /\ Signed)'
<1> USE DEF RunInv
<1>1. StagesInOrder'
  <2> SUFFICES ASSUME NEW t \in Stages, step'[t].attempt > 0, NEW p \in 1..(t - 1)
               PROVE  step'[p].status = "succeeded"
    BY DEF StagesInOrder
  <2>1. p \in Stages /\ p # t
    BY StageFacts
  <2>2. CASE t = s
    BY <2>1, <2>2
  <2>3. CASE t # s
    <3>1. step[p].status = "succeeded"
      BY <2>3 DEF StagesInOrder
    <3> QED
      BY <2>1, <3>1 DEF OpenSteps
  <2> QED
    BY <2>2, <2>3
<1>2. Begun'
  BY DEF Begun
<1>3. Fresh'
  BY DEF Fresh
<1>4. Verdict'
  BY DEF Verdict
<1>5. Signed'
  <2>1. ApprovalStage \in Stages
    BY StageFacts
  <2>2. assets.published => step'[ApprovalStage].status = "succeeded"
    BY <2>1 DEF Signed, OpenSteps
  <2>3. step'[ApprovalStage].status = "succeeded"
           => run.allowed \/ step'[ApprovalStage].input # "none"
    BY <2>1 DEF Signed
  <2> QED
    BY <2>2, <2>3 DEF Signed
<1> QED
  BY <1>1, <1>2, <1>3, <1>4, <1>5

\* What a runner that does not move knows.
LEMMA WorkKept ==
  ASSUME RunInv, NEW r \in Runner, WorkOK(r),
         runner'[r].at = runner[r].at \/ runner'[r].at \in {"idle", "loop", "error", "fatal"},
         runner'[r].at \in {"error", "fatal"} => runner[r].at \in {"working", "done", "error", "fatal"},
         runner'[r].stage = runner[r].stage, runner'[r].decision = runner[r].decision,
         StagesKeep,
         run.status # "none" => run'.status # "none" /\ run'.allowed = run.allowed
  PROVE  WorkOK(r)'
<1>1. runner[r].stage \in Stages /\ ApprovalStage \in Stages
  BY StageFacts DEF RunInv, FactoryTypeOK, RunnerState
<1> QED
  BY <1>1 DEF WorkOK, StagesKeep

LEMMA StartKept == FactoryInit => RunInv
<1> SUFFICES ASSUME FactoryInit PROVE RunInv
  OBVIOUS
<1>1. FactoryTypeOK
  BY StartTyped
<1>2. StagesInOrder /\ Begun /\ Fresh /\ Verdict /\ Signed
  BY StageFacts DEF FactoryInit, NewStep, StagesInOrder, Begun, Fresh, Verdict, Signed
<1>3. Work
  BY DEF FactoryInit, NoRequest, Work, WorkOK
<1> QED
  BY <1>1, <1>2, <1>3 DEF RunInv

\* Nothing but a runner changes.
LEMMA RunnerMoves ==
  ASSUME RunInv, FactoryTypeOK', UNCHANGED <<run, step>>,
         assets' = assets \/ Signed', Work'
  PROVE  RunInv'
<1> USE DEF RunInv
<1>1. Signed'
  BY DEF Signed
<1>2. (StagesInOrder /\ Begun /\ Fresh /\ Verdict)'
  BY DEF StagesInOrder, Begun, Fresh, Verdict
<1> QED
  BY <1>1, <1>2

LEMMA BecomeKeeps ==
  ASSUME RunInv, FactoryTypeOK', NEW r \in Runner, NEW at \in {"idle", "loop", "error", "fatal"},
         Become(r, at),
         at \in {"error", "fatal"} => runner[r].at \in {"working", "done", "error", "fatal"},
         StagesKeep,
         run.status # "none" => run'.status # "none" /\ run'.allowed = run.allowed
  PROVE  Work'
<1> SUFFICES ASSUME NEW q \in Runner
             PROVE  WorkOK(q)'
  BY DEF Work
<1>1. WorkOK(q)
  BY DEF RunInv, Work
<1>2. /\ runner'[r].at = at /\ runner'[r].stage = runner[r].stage
      /\ runner'[r].decision = runner[r].decision
      /\ \A p \in Runner : p # r => runner'[p] = runner[p]
  BY BecomeTyped DEF RunInv
<1>3. CASE q = r
  BY <1>1, <1>2, <1>3, WorkKept
<1>4. CASE q # r
  BY <1>1, <1>2, <1>4, WorkKept
<1> QED
  BY <1>3, <1>4

LEMMA ClaimKeeps ==
  ASSUME RunInv, FactoryTypeOK', NEW r \in Runner, ClaimStage(r)
  PROVE  RunInv'
<1> USE DEF RunInv
<1>1. PICK s \in Stages :
         /\ Due(s)
         /\ step' = [step EXCEPT ![s].status = "running", ![s].attempt = step[s].attempt + 1,
                                 ![s].input = Artifact(s)]
         /\ runner' = [runner EXCEPT ![r] =
               [at |-> "working", stage |-> s, decision |-> Artifact(s)]]
  BY DEF ClaimStage
<1>2. UNCHANGED <<run, assets>> /\ run.status # "none"
  BY DEF ClaimStage
<1>3. step[s] \in FactoryStep /\ step[s].attempt \in Nat
  BY DEF FactoryTypeOK, FactoryStep
<1>4. step'[s] = [step[s] EXCEPT !.status = "running", !.attempt = step[s].attempt + 1,
                                !.input = Artifact(s)]
  BY <1>1 DEF FactoryTypeOK
<1>5. /\ step'[s].status = "running" /\ step'[s].attempt = step[s].attempt + 1
      /\ step'[s].input = Artifact(s) /\ (step[s].attempt > 0 => Artifact(s) = step[s].input)
  BY <1>3, <1>4 DEF FactoryStep, Artifact
<1>6. \A p \in Stages : p # s => step'[p] = step[p]
  BY <1>1 DEF FactoryTypeOK
<1>7. step[s].status \in OpenSteps /\ \A p \in 1..(s - 1) : step[p].status = "succeeded"
  BY <1>1 DEF Due, OpenSteps
<1>8. run.status = "running"
  BY <1>2, <1>7, Live
<1>9. \E p \in Stages : step'[p].status # "succeeded"
  BY <1>5
<1>10. (StagesInOrder /\ Begun /\ Fresh /\ Verdict /\ Signed)'
  BY <1>2, <1>3, <1>5, <1>6, <1>7, <1>8, <1>9, StageMoves
<1>11. Work'
  <2> SUFFICES ASSUME NEW q \in Runner
               PROVE  WorkOK(q)'
    BY DEF Work
  <2>1. CASE q = r
    <3>1. /\ runner'[q].at = "working" /\ runner'[q].stage = s
          /\ runner'[q].decision = Artifact(s)
      BY <1>1, <2>1 DEF FactoryTypeOK
    <3> QED
      BY <1>2, <1>3, <1>5, <3>1 DEF WorkOK
  <2>2. CASE q # r
    <3>1. runner'[q] = runner[q]
      BY <1>1, <2>2 DEF FactoryTypeOK
    <3>2. StagesKeep
      BY <1>3, <1>5, <1>6 DEF StagesKeep
    <3> QED
      BY <1>2, <3>1, <3>2, WorkKept DEF Work
  <2> QED
    BY <2>1, <2>2
<1> QED
  BY <1>10, <1>11

LEMMA ApproveKeeps ==
  ASSUME RunInv, FactoryTypeOK', NEW r \in Runner, ApproveRun(r)
  PROVE  RunInv'
<1> USE DEF RunInv
<1> PICK s \in Stages : s = ApprovalStage
  BY StageFacts
<1>1. /\ step[s].status = "blocked" /\ UNCHANGED <<run, assets>>
      /\ step' = [step EXCEPT ![s].status = "queued", ![s].input = "reviewer"]
      /\ Become(r, "loop")
  BY DEF ApproveRun
<1>2. step[s] \in FactoryStep /\ step'[s] = [step[s] EXCEPT !.status = "queued", !.input = "reviewer"]
  BY <1>1 DEF FactoryTypeOK
<1>3. /\ step'[s].status = "queued" /\ step'[s].attempt = step[s].attempt
      /\ step'[s].input = "reviewer"
      /\ \A p \in Stages : p # s => step'[p] = step[p]
  BY <1>1, <1>2 DEF FactoryTypeOK, FactoryStep
<1>4. run.status = "running" /\ \A p \in 1..(s - 1) : step[p].status = "succeeded"
  BY <1>1, LiveStage
<1>5. \E p \in Stages : step'[p].status # "succeeded"
  BY <1>3
<1>6. (StagesInOrder /\ Begun /\ Fresh /\ Verdict /\ Signed)'
  BY <1>1, <1>3, <1>4, <1>5, StageMoves DEF OpenSteps
<1>7. StagesKeep
  BY <1>3 DEF StagesKeep
<1>8. Work'
  BY <1>1, <1>7, BecomeKeeps
<1> QED
  BY <1>6, <1>8

LEMMA CancelKeeps ==
  ASSUME RunInv, FactoryTypeOK', CancelRun
  PROVE  RunInv'
<1> USE DEF RunInv
<1>1. run.status = "running" /\ UNCHANGED <<assets, runner>>
  BY DEF CancelRun
<1>2. run'.status = "cancelled" /\ run'.allowed = run.allowed
  BY DEF CancelRun, FactoryTypeOK
<1>3. ASSUME NEW s \in Stages
      PROVE  /\ step'[s].status = IF step[s].status \in OpenSteps THEN "cancelled" ELSE step[s].status
             /\ step'[s].attempt = step[s].attempt /\ step'[s].input = step[s].input
  <2>1. step[s] \in FactoryStep
    BY DEF FactoryTypeOK
  <2>2. step'[s] = IF step[s].status \in OpenSteps THEN [step[s] EXCEPT !.status = "cancelled"] ELSE step[s]
    BY DEF CancelRun
  <2> QED
    BY <2>1, <2>2 DEF FactoryStep
<1>4. StagesInOrder'
  BY <1>3, StageFacts DEF StagesInOrder, OpenSteps
<1>5. Begun' /\ Fresh'
  BY <1>2, <1>3 DEF Begun, Fresh, OpenSteps
<1>6. Verdict'
  BY <1>1, <1>2, <1>3 DEF Verdict, OpenSteps
<1>7. Signed'
  BY <1>1, <1>2, <1>3, StageFacts DEF Signed, OpenSteps
<1>8. Work'
  BY <1>1, <1>2, <1>3, WorkKept DEF Work, StagesKeep
<1> QED
  BY <1>4, <1>5, <1>6, <1>7, <1>8

LEMMA RequeueKeeps ==
  ASSUME RunInv, FactoryTypeOK', NEW s \in Stages, RequeueStuck(s)
  PROVE  RunInv'
<1> USE DEF RunInv
<1>1. step[s].status = "running" /\ UNCHANGED <<assets, runner>>
  BY DEF RequeueStuck
<1>2. /\ run.status = "running" /\ step[s].attempt > 0
      /\ \A p \in 1..(s - 1) : step[p].status = "succeeded"
  BY <1>1, LiveStage
<1>3. /\ run'.allowed = run.allowed
      /\ step'[s].attempt = step[s].attempt /\ step'[s].input = step[s].input
      /\ \A p \in Stages : p # s => step'[p] = step[p]
      /\ \/ step'[s].status = "retry_wait" /\ run'.status = "running"
         \/ step'[s].status = "failed" /\ run'.status = "failed"
  <2>1. CASE step' = [step EXCEPT ![s].status = "retry_wait"] /\ UNCHANGED run
    BY <1>2, <2>1, StageTyped DEF Settles, FactoryStepStatus
  <2>2. CASE /\ step' = [step EXCEPT ![s].status = "failed"]
             /\ run' = [run EXCEPT !.status = IF run.status = "running" THEN "failed" ELSE run.status]
    <3>1. run'.status = "failed" /\ run'.allowed = run.allowed
      BY <1>2, <2>2 DEF FactoryTypeOK
    <3> QED
      BY <2>2, <3>1, StageTyped DEF Settles, FactoryStepStatus
  <2> QED
    BY <2>1, <2>2 DEF RequeueStuck
<1>4. \E p \in Stages : step'[p].status # "succeeded"
  BY <1>3
<1>5. (StagesInOrder /\ Begun /\ Fresh /\ Verdict /\ Signed)'
  BY <1>1, <1>2, <1>3, <1>4, StageMoves DEF OpenSteps
<1>6. StagesKeep
  BY <1>3 DEF StagesKeep
<1>7. Work'
  BY <1>1, <1>3, <1>6, WorkKept DEF Work
<1> QED
  BY <1>5, <1>7

LEMMA StartRunKeeps ==
  ASSUME RunInv, FactoryTypeOK', NEW r \in Runner, StartRun(r)
  PROVE  RunInv'
<1> USE DEF RunInv
<1>1. assets' = assets /\ Become(r, "loop")
  BY DEF StartRun
<1>2. CASE UNCHANGED <<run, step>>
  <2>1. Work'
    BY <1>1, <1>2, BecomeKeeps DEF StagesKeep
  <2> QED
    BY <1>1, <1>2, <2>1, RunnerMoves
<1>3. ASSUME run.status = "none", NEW allowed \in BOOLEAN, NEW decision \in {"none", "starter"},
             run' = [status |-> "running", allowed |-> allowed],
             step' = [step EXCEPT ![1].input = decision]
      PROVE  RunInv'
  <2>1. run'.status = "running" /\ run.status = "none"
    BY <1>3
  <2>2. ASSUME NEW s \in Stages
        PROVE  /\ step[s].status = "queued" /\ step[s].attempt = 0
               /\ step'[s].status = "queued" /\ step'[s].attempt = 0
    BY <1>3 DEF Fresh, NewStep, FactoryTypeOK
  <2>3. (StagesInOrder /\ Begun /\ Fresh)'
    BY <1>1, <2>1, <2>2 DEF StagesInOrder, Begun, Fresh
  <2>4. Verdict'
    BY <1>1, <2>1, <2>2, StageFacts DEF Verdict
  <2>5. Signed'
    BY <1>1, <2>2, StageFacts DEF Signed
  <2>6. StagesKeep
    BY <2>2 DEF StagesKeep
  <2>7. Work'
    BY <1>1, <2>1, <2>6, BecomeKeeps
  <2> QED
    BY <2>3, <2>4, <2>5, <2>7
<1> QED
  BY <1>2, <1>3 DEF StartRun

LEMMA HandleKeeps ==
  ASSUME RunInv, FactoryTypeOK', NEW r \in Runner, HandleStage(r)
  PROVE  RunInv'
<1> USE DEF RunInv
<1>1. UNCHANGED <<run, step>> /\ runner[r].at = "working"
  BY DEF HandleStage
<1>2. StagesKeep
  BY <1>1 DEF StagesKeep
<1>3. WorkOK(r) /\ runner[r].stage \in Stages
  BY DEF Work, FactoryTypeOK, RunnerState
<1>4. CASE Effect(r) /\ (Become(r, "done") \/ Become(r, "error"))
  <2> PICK s \in Stages : s = runner[r].stage
    BY <1>3
  <2>1. /\ s = ApprovalStage => MayPass(r)
        /\ s = PublishStage => assets.published \/ Publishable
        /\ assets'.status = IF s = ReviewStage THEN "review"
                            ELSE IF s = ApprovalStage THEN "approved" ELSE assets.status
        /\ assets'.published <=> (assets.published \/ s = PublishStage)
        /\ assets'.signed <=> (assets.signed \/ s = ApprovalStage)
    BY <1>4, Zenon DEF Effect
  <2>2. s = PublishStage => step[ApprovalStage].status = "succeeded"
    BY <1>1, <1>3, StageFacts DEF WorkOK, StagesInOrder
  <2>3. assets'.status = "approved" \/ assets'.published => assets'.signed
    BY <2>1, StageFacts DEF Signed, Publishable
  <2>4. Signed'
    BY <1>1, <2>1, <2>2, <2>3 DEF Signed
  <2>5. CASE Become(r, "error")
    <3>1. Work'
      BY <1>1, <1>2, <2>5, BecomeKeeps
    <3> QED
      BY <1>1, <2>4, <3>1, RunnerMoves
  <2>6. CASE Become(r, "done")
    <3>1. /\ runner'[r].at = "done" /\ runner'[r].stage = s /\ runner'[r].decision = runner[r].decision
          /\ \A q \in Runner : q # r => runner'[q] = runner[q]
      BY <2>6, BecomeTyped
    <3>2. s = ApprovalStage => run.allowed \/ step[ApprovalStage].input # "none"
      BY <1>1, <1>3, <2>1 DEF WorkOK, MayPass
    <3>3. WorkOK(r)'
      BY <1>1, <1>3, <3>1, <3>2 DEF WorkOK
    <3>4. Work'
      BY <1>1, <1>2, <3>1, <3>3, WorkKept DEF Work
    <3> QED
      BY <1>1, <2>4, <3>4, RunnerMoves
  <2> QED
    BY <1>4, <2>5, <2>6
<1>5. CASE UNCHANGED assets /\ (Become(r, "error") \/ Become(r, "fatal"))
  <2>1. Work'
    BY <1>1, <1>2, <1>5, BecomeKeeps
  <2> QED
    BY <1>1, <1>5, <2>1, RunnerMoves
<1> QED
  BY <1>4, <1>5 DEF HandleStage

\* A runner that settles a stage: the stage is running, or nothing but the runner moves.
LEMMA SettleKeeps ==
  ASSUME RunInv, FactoryTypeOK', NEW r \in Runner, NEW at \in {"idle", "loop", "error"}, Become(r, at),
         at = "error" => runner[r].at \in {"working", "done", "error", "fatal"},
         assets' = assets,
         \/ UNCHANGED <<run, step>>
         \/ /\ Owned(runner[r].stage)
            /\ \E status \in {"blocked", "succeeded", "failed", "retry_wait"} :
                 Settles(runner[r].stage, status)
            /\ run'.allowed = run.allowed
            /\ \/ /\ run'.status = "running"
                  /\ step'[runner[r].stage].status # "failed"
                  /\ \E p \in Stages : step'[p].status # "succeeded"
               \/ run'.status = "failed" /\ step'[runner[r].stage].status = "failed"
               \/ run'.status = "succeeded" /\ \A p \in Stages : step'[p].status = "succeeded"
            /\ runner[r].stage = ApprovalStage /\ step'[runner[r].stage].status = "succeeded"
                  => run.allowed \/ step[ApprovalStage].input # "none"
  PROVE  RunInv'
<1> USE DEF RunInv
<1>1. CASE UNCHANGED <<run, step>>
  <2>1. Work'
    BY <1>1, BecomeKeeps DEF StagesKeep
  <2> QED
    BY <1>1, <2>1, RunnerMoves
<1>2. CASE ~ UNCHANGED <<run, step>>
  <2> PICK s \in Stages : s = runner[r].stage
    BY DEF FactoryTypeOK, RunnerState
  <2>1. PICK status \in {"blocked", "succeeded", "failed", "retry_wait"} :
           Settles(s, status)
    BY <1>2
  <2>2. /\ step[s].status = "running" /\ run.status = "running" /\ step[s].attempt > 0
        /\ \A p \in 1..(s - 1) : step[p].status = "succeeded"
    BY <1>2, LiveStage DEF Owned
  <2>3. /\ step'[s].status = status /\ step'[s].attempt = step[s].attempt
        /\ step'[s].input = step[s].input
        /\ \A p \in Stages : p # s => step'[p] = step[p]
    BY <2>1, StageTyped DEF FactoryStepStatus
  <2>4. /\ run'.allowed = run.allowed /\ run'.status # "none"
        /\ \/ /\ run'.status = "running" /\ step'[s].status \notin {"failed", "cancelled"}
              /\ \E p \in Stages : step'[p].status # "succeeded"
           \/ run'.status = "failed" /\ step'[s].status = "failed"
           \/ run'.status = "succeeded" /\ \A p \in Stages : step'[p].status = "succeeded"
        /\ s = ApprovalStage /\ step'[s].status = "succeeded" => run.allowed \/ step'[s].input # "none"
    BY <1>2, <2>3
  <2>5. (StagesInOrder /\ Begun /\ Fresh /\ Verdict /\ Signed)'
    BY <2>2, <2>3, <2>4, StageMoves DEF OpenSteps
  <2>6. StagesKeep
    BY <2>3 DEF StagesKeep
  <2>7. Work'
    BY <2>4, <2>6, BecomeKeeps
  <2> QED
    BY <2>5, <2>7
<1> QED
  BY <1>1, <1>2

LEMMA BlockKeeps ==
  ASSUME RunInv, FactoryTypeOK', NEW r \in Runner, BlockStage(r)
  PROVE  RunInv'
<1> DEFINE s == runner[r].stage
<1>1. runner[r].at = "working" /\ assets' = assets
  BY DEF BlockStage
<1>2. CASE Refused(r, "error")
  BY <1>1, <1>2, SettleKeeps DEF Refused
<1>3. CASE /\ Owned(s)
           /\ step' = [step EXCEPT ![s].status = "blocked", ![s].output = runner[r].decision]
           /\ Become(r, "idle") \/ Become(r, "error")
           /\ UNCHANGED run
  <2>1. s \in Stages /\ run.status = "running"
    BY <1>3, LiveStage DEF RunInv, FactoryTypeOK, RunnerState, Owned
  <2>2. Settles(s, "blocked")
    BY <1>3 DEF RunInv, FactoryTypeOK, RunnerState, Settles
  <2>3. step'[s].status = "blocked"
    BY <2>1, <2>2, StageTyped DEF RunInv, FactoryStepStatus
  <2> QED
    BY <1>1, <1>3, <2>1, <2>2, <2>3, SettleKeeps
<1> QED
  BY <1>2, <1>3 DEF BlockStage

LEMMA SucceedKeeps ==
  ASSUME RunInv, FactoryTypeOK', NEW r \in Runner, SucceedStage(r)
  PROVE  RunInv'
<1> DEFINE s == runner[r].stage
<1>1. runner[r].at = "done" /\ assets' = assets
  BY DEF SucceedStage
<1>2. CASE Refused(r, "error")
  BY <1>1, <1>2, SettleKeeps DEF Refused
<1>3. CASE /\ Owned(s)
           /\ step' = [step EXCEPT ![s].status = "succeeded", ![s].output = runner[r].decision]
           /\ run' = [run EXCEPT !.status = IF Remaining(s) THEN "running" ELSE "succeeded"]
           /\ Become(r, "loop") \/ Become(r, "error")
  <2>1. s \in Stages /\ run.status = "running" /\ WorkOK(r)
    BY <1>3, LiveStage DEF RunInv, FactoryTypeOK, RunnerState, Owned, Work
  <2>2. Settles(s, "succeeded")
    BY <1>3 DEF RunInv, FactoryTypeOK, RunnerState, Settles
  <2>3. step'[s].status = "succeeded" /\ \A p \in Stages : p # s => step'[p] = step[p]
    BY <2>1, <2>2, StageTyped DEF RunInv, FactoryStepStatus
  <2>4. run'.allowed = run.allowed
    BY <1>3 DEF RunInv, FactoryTypeOK
  <2>5. \/ run'.status = "running" /\ \E p \in Stages : step'[p].status # "succeeded"
        \/ run'.status = "succeeded" /\ \A p \in Stages : step'[p].status = "succeeded"
    <3>1. run'.status = IF Remaining(s) THEN "running" ELSE "succeeded"
      BY <1>3 DEF RunInv, FactoryTypeOK
    <3>2. CASE Remaining(s)
      BY <2>3, <3>1, <3>2 DEF Remaining
    <3>3. CASE ~ Remaining(s)
      BY <2>3, <3>1, <3>3 DEF Remaining
    <3> QED
      BY <3>2, <3>3
  <2>6. s = ApprovalStage => run.allowed \/ step[ApprovalStage].input # "none"
    BY <1>1, <2>1 DEF WorkOK
  <2> QED
    BY <1>1, <1>3, <2>3, <2>4, <2>5, <2>6, <2>2, SettleKeeps
<1> QED
  BY <1>2, <1>3 DEF SucceedStage

LEMMA FailKeeps ==
  ASSUME RunInv, FactoryTypeOK', NEW r \in Runner, FailStage(r)
  PROVE  RunInv'
<1> DEFINE s == runner[r].stage
           final == runner[r].at = "fatal" \/ step[s].attempt >= StageAttempts[s]
<1>1. runner[r].at \in {"error", "fatal"} /\ assets' = assets
  BY DEF FailStage
<1>2. CASE Refused(r, "idle")
  BY <1>1, <1>2, SettleKeeps DEF Refused
<1>3. CASE /\ Owned(s)
           /\ step' = [step EXCEPT ![s].status = IF final THEN "failed" ELSE "retry_wait"]
           /\ run' = [run EXCEPT !.status = IF final THEN "failed" ELSE run.status]
           /\ Become(r, "idle") \/ Become(r, "loop")
  <2>1. s \in Stages /\ run.status = "running"
    BY <1>3, LiveStage DEF RunInv, FactoryTypeOK, RunnerState, Owned
  <2>2. run'.allowed = run.allowed
    BY <1>3 DEF RunInv, FactoryTypeOK
  <2> HIDE DEF final
  <2>3. \/ step' = [step EXCEPT ![s].status = "failed"] /\ run'.status = "failed"
        \/ step' = [step EXCEPT ![s].status = "retry_wait"] /\ run'.status = "running"
    BY <1>3, <2>1 DEF RunInv, FactoryTypeOK
  <2>4. \/ step'[s].status = "failed" /\ run'.status = "failed"
        \/ step'[s].status = "retry_wait" /\ run'.status = "running"
    BY <2>1, <2>3 DEF RunInv, FactoryTypeOK, FactoryStep
  <2>5. \E status \in {"blocked", "succeeded", "failed", "retry_wait"} :
           Settles(s, status)
    BY <2>3 DEF Settles
  <2>6. run'.status = "running" => \E p \in Stages : step'[p].status # "succeeded"
    BY <2>1, <2>4
  <2>7. PICK at \in {"idle", "loop"} : Become(r, at)
    BY <1>3
  <2> HIDE DEF s
  <2>8. s = runner[r].stage
    BY DEF s
  <2> QED
    BY <1>1, <1>3, <2>2, <2>4, <2>5, <2>6, <2>7, <2>8, SettleKeeps
<1> QED
  BY <1>2, <1>3 DEF FailStage

LEMMA StepKeeps ==
  ASSUME RunInv, [FactoryNext]_factoryVars
  PROVE  RunInv'
<1>1. FactoryTypeOK'
  BY StepTyped DEF RunInv
<1>2. CASE CancelRun
  BY <1>1, <1>2, CancelKeeps
<1>3. ASSUME NEW s \in Stages, RequeueStuck(s)
      PROVE  RunInv'
  BY <1>1, <1>3, RequeueKeeps
<1>4. ASSUME NEW r \in Runner, StartRun(r)
      PROVE  RunInv'
  BY <1>1, <1>4, StartRunKeeps
<1>5. ASSUME NEW r \in Runner, ApproveRun(r)
      PROVE  RunInv'
  BY <1>1, <1>5, ApproveKeeps
<1>6. ASSUME NEW r \in Runner, ClaimStage(r)
      PROVE  RunInv'
  BY <1>1, <1>6, ClaimKeeps
<1>7. ASSUME NEW r \in Runner, LeaveRun(r) \/ StopRunner(r)
      PROVE  RunInv'
  <2>1. Become(r, "idle") /\ UNCHANGED <<run, step, assets>>
    BY <1>7 DEF LeaveRun, StopRunner
  <2> QED
    BY <1>1, <2>1, SettleKeeps
<1>8. ASSUME NEW r \in Runner, HandleStage(r)
      PROVE  RunInv'
  BY <1>1, <1>8, HandleKeeps
<1>9. ASSUME NEW r \in Runner, BlockStage(r)
      PROVE  RunInv'
  BY <1>1, <1>9, BlockKeeps
<1>10. ASSUME NEW r \in Runner, SucceedStage(r)
       PROVE  RunInv'
  BY <1>1, <1>10, SucceedKeeps
<1>11. ASSUME NEW r \in Runner, FailStage(r)
       PROVE  RunInv'
  BY <1>1, <1>11, FailKeeps
<1>12. CASE UNCHANGED factoryVars
  <2>1. UNCHANGED <<run, step, assets, runner>>
    BY <1>12 DEF factoryVars
  <2>2. Work'
    BY <2>1 DEF RunInv, Work, WorkOK
  <2> QED
    BY <1>1, <2>1, <2>2, RunnerMoves
<1> QED
  BY <1>2, <1>3, <1>4, <1>5, <1>6, <1>7, <1>8, <1>9, <1>10, <1>11, <1>12 DEF FactoryNext

\* What is put down was the starter's before, and what the starter brought stays.
LEMMA CarriedOn ==
  ASSUME Carried, step[1].input = "starter" => step'[1].input = "starter",
         \A s \in Stages : Carries(step'[s].input) /\ Carries(step'[s].output),
         \A r \in Runner : Carries(runner'[r].decision)
  PROVE  Carried'
  BY DEF Carried, Carries

\* Stages whose input stays, and that put out nothing or what a runner was given.
LEMMA SettledCarried ==
  ASSUME FactoryTypeOK, Carried, NEW s \in Stages, NEW status \in FactoryStepStatus,
         \/ step' = [step EXCEPT ![s].status = status]
         \/ \E r \in Runner :
               step' = [step EXCEPT ![s].status = status, ![s].output = runner[r].decision]
  PROVE  /\ step'[1].input = step[1].input
         /\ \A p \in Stages : Carries(step'[p].input) /\ Carries(step'[p].output)
<1>1. step \in [Stages -> FactoryStep] /\ 1 \in Stages
  BY StageFacts DEF FactoryTypeOK
<1>2. CASE step' = [step EXCEPT ![s].status = status]
  BY <1>1, <1>2 DEF FactoryStep, Carried
<1>3. ASSUME NEW r \in Runner,
             step' = [step EXCEPT ![s].status = status, ![s].output = runner[r].decision]
      PROVE  /\ step'[1].input = step[1].input
             /\ \A p \in Stages : Carries(step'[p].input) /\ Carries(step'[p].output)
  <2> PICK n : n = [step[s] EXCEPT !.status = status, !.output = runner[r].decision]
    OBVIOUS
  <2>1. n.input = step[s].input /\ n.output = runner[r].decision
    BY <1>1 DEF FactoryStep
  <2>2. step'[s] = n /\ \A p \in Stages : p # s => step'[p] = step[p]
    BY <1>1, <1>3
  <2> QED
    BY <1>1, <2>1, <2>2 DEF Carried
<1> QED
  BY <1>2, <1>3

LEMMA CarriedKeeps ==
  ASSUME IInv, FactoryNext
  PROVE  Carried'
<1> USE DEF IInv
<1>1. FactoryTypeOK /\ step \in [Stages -> FactoryStep] /\ 1 \in Stages
  BY StageFacts DEF RunInv, FactoryTypeOK
<1>2. ASSUME NEW r \in Runner, NEW at, Become(r, at)
      PROVE  \A q \in Runner : Carries(runner'[q].decision)
  <2>1. \A q \in Runner : runner'[q].decision = runner[q].decision
    BY <1>1, <1>2 DEF Become, FactoryTypeOK, RunnerState
  <2> QED
    BY <2>1 DEF Carried
<1>3. CASE CancelRun
  <2>1. ASSUME NEW s \in Stages
        PROVE  step'[s].input = step[s].input /\ step'[s].output = step[s].output
    BY <1>1, <1>3 DEF CancelRun, FactoryStep
  <2> QED
    BY <1>1, <1>3, <2>1, CarriedOn DEF CancelRun, Carried
<1>4. ASSUME NEW s \in Stages, RequeueStuck(s)
      PROVE  Carried'
  <2>1. PICK status \in FactoryStepStatus : step' = [step EXCEPT ![s].status = status]
    BY <1>4 DEF RequeueStuck, FactoryStepStatus
  <2>2. /\ step'[1].input = step[1].input
        /\ \A p \in Stages : Carries(step'[p].input) /\ Carries(step'[p].output)
    BY <1>1, <2>1, SettledCarried
  <2>3. runner' = runner
    BY <1>4 DEF RequeueStuck
  <2> QED
    BY <2>2, <2>3, CarriedOn DEF Carried
<1>5. ASSUME NEW r \in Runner, StartRun(r)
      PROVE  Carried'
  <2>1. Become(r, "loop")
    BY <1>5 DEF StartRun
  <2>2. CASE step' = step
    BY <1>2, <2>1, <2>2, CarriedOn DEF Carried
  <2>3. ASSUME run.status = "none", NEW decision \in {"none", "starter"},
               step' = [step EXCEPT ![1].input = decision]
        PROVE  Carried'
    <3>1. \A s \in Stages : step[s] = NewStep
      BY <2>3 DEF RunInv, Fresh
    <3>2. /\ step'[1].input = decision
          /\ \A s \in Stages : step'[s].output = "none" /\ (s # 1 => step'[s].input = "none")
      BY <1>1, <2>3, <3>1 DEF NewStep
    <3>3. step[1].input # "starter"
      BY <1>1, <3>1 DEF NewStep
    <3>4. ASSUME NEW q \in Runner
          PROVE  runner'[q].decision # "starter"
      BY <1>2, <2>1, <3>3 DEF Carries
    <3> QED
      BY <3>2, <3>4 DEF Carried, Carries
  <2> QED
    BY <1>5, <2>2, <2>3 DEF StartRun
<1>6. ASSUME NEW r \in Runner, ApproveRun(r)
      PROVE  Carried'
  <2>1. Become(r, "loop")
    BY <1>6 DEF ApproveRun
  <2> PICK n : n = [step[ApprovalStage] EXCEPT !.status = "queued", !.input = "reviewer"]
    OBVIOUS
  <2>2. step' = [step EXCEPT ![ApprovalStage] = n]
    BY <1>1, <1>6, StageFacts DEF ApproveRun
  <2>3. n.input = "reviewer" /\ n.output = step[ApprovalStage].output
    BY <1>1, StageFacts DEF FactoryStep
  <2>4. \A s \in Stages : s # ApprovalStage => step'[s] = step[s]
    BY <1>1, <2>2
  <2>5. step'[ApprovalStage] = n
    BY <1>1, <2>2, StageFacts
  <2>6. \A s \in Stages : Carries(step'[s].input) /\ Carries(step'[s].output)
    BY <2>3, <2>4, <2>5, StageFacts DEF Carried, Carries
  <2> QED
    BY <1>1, <1>2, <2>1, <2>4, <2>6, StageFacts, CarriedOn
<1>7. ASSUME NEW r \in Runner, ClaimStage(r)
      PROVE  Carried'
  <2>1. PICK s \in Stages :
           /\ step' = [step EXCEPT ![s].status = "running", ![s].attempt = step[s].attempt + 1,
                                   ![s].input = Artifact(s)]
           /\ runner' = [runner EXCEPT ![r] =
                 [at |-> "working", stage |-> s, decision |-> Artifact(s)]]
    BY <1>7 DEF ClaimStage
  <2>2. Carries(Artifact(s)) /\ (s = 1 => Artifact(s) = step[1].input)
    <3>1. s > 1 => s - 1 \in Stages
      BY FactoryAssumption DEF Stages
    <3> QED
      BY <3>1 DEF Artifact, Carried
  <2> PICK n : n = [step[s] EXCEPT !.status = "running", !.attempt = step[s].attempt + 1,
                                   !.input = Artifact(s)]
    OBVIOUS
  <2>3. n.input = Artifact(s) /\ n.output = step[s].output
    BY <1>1 DEF FactoryStep
  <2>4. step'[s] = n /\ \A p \in Stages : p # s => step'[p] = step[p]
    BY <1>1, <2>1
  <2>5. step'[1].input = step[1].input
    BY <1>1, <2>2, <2>3, <2>4
  <2>6. \A p \in Stages : Carries(step'[p].input) /\ Carries(step'[p].output)
    BY <2>2, <2>3, <2>4 DEF Carried
  <2>7. \A q \in Runner : Carries(runner'[q].decision)
    BY <1>1, <2>1, <2>2 DEF FactoryTypeOK, Carried
  <2> QED
    BY <2>5, <2>6, <2>7, CarriedOn
<1>8. ASSUME NEW r \in Runner, LeaveRun(r) \/ StopRunner(r) \/ HandleStage(r)
      PROVE  Carried'
  <2>1. step' = step /\ \E at : Become(r, at)
    BY <1>8 DEF LeaveRun, StopRunner, HandleStage
  <2> QED
    BY <1>2, <2>1, CarriedOn DEF Carried
<1>9. ASSUME NEW r \in Runner, BlockStage(r) \/ SucceedStage(r) \/ FailStage(r)
      PROVE  Carried'
  <2>1. \E at : Become(r, at)
    BY <1>9 DEF BlockStage, SucceedStage, FailStage, Refused
  <2>2. \/ step' = step
        \/ \E status \in FactoryStepStatus :
              \/ step' = [step EXCEPT ![runner[r].stage].status = status]
              \/ step' = [step EXCEPT ![runner[r].stage].status = status,
                                      ![runner[r].stage].output = runner[r].decision]
    BY <1>9 DEF BlockStage, SucceedStage, FailStage, Refused, FactoryStepStatus
  <2>3. runner[r].stage \in Stages
    BY <1>1 DEF FactoryTypeOK, RunnerState
  <2>4. /\ step'[1].input = step[1].input
        /\ \A p \in Stages : Carries(step'[p].input) /\ Carries(step'[p].output)
    BY <1>1, <2>2, <2>3, SettledCarried DEF Carried
  <2> QED
    BY <1>2, <2>1, <2>4, CarriedOn
<1> QED
  BY <1>3, <1>4, <1>5, <1>6, <1>7, <1>8, <1>9 DEF FactoryNext

LEMMA InvKeeps ==
  ASSUME IInv, [FactoryNext]_factoryVars
  PROVE  IInv'
<1>1. RunInv'
  BY StepKeeps DEF IInv
<1>2. CASE FactoryNext
  BY <1>1, <1>2, CarriedKeeps DEF IInv
<1>3. CASE UNCHANGED factoryVars
  BY <1>1, <1>3 DEF IInv, Carried, Carries, factoryVars
<1> QED
  BY <1>2, <1>3

LEMMA InvStarts == FactoryInit => IInv
<1>1. FactoryInit => Carried
  BY DEF FactoryInit, NewStep, NoRequest, Carried, Carries
<1> QED
  BY <1>1, StartKept DEF IInv

\* The inductive invariant of a factory run: types, the order of the stages, what a
\* runner at work knows of its stage, what verdicts and signatures rest on, and where a
\* decision can have come from.
THEOREM Invariance == FactorySpec => []IInv
<1>1. IInv /\ [FactoryNext]_factoryVars => IInv'
  BY InvKeeps
<1> QED
  BY <1>1, InvStarts, PTL DEF FactorySpec

-----------------------------------------------------------------------------

\* A stage is claimed only after all before it, and those never change again, whoever
\* settles, requeues or retries them.
THEOREM EveryStageInOrder == FactorySpec => []StagesInOrder
<1>1. IInv => StagesInOrder
  BY DEF IInv, RunInv
<1> QED
  BY <1>1, Invariance, PTL

LEMMA VerdictAgrees ==
  ASSUME RunInv
  PROVE  VerdictMatchesStages
<1> USE DEF RunInv
<1>1. run.status \in RunStatus
  BY DEF FactoryTypeOK
<1>2. run.status = "none" => \A s \in Stages : step[s].status = "queued"
  BY DEF Fresh, NewStep
<1>3. run.status = "succeeded" => run.status # "none" /\ \A s \in Stages : step[s].status = "succeeded"
  BY DEF Verdict
<1>4. run.status # "none" /\ (\A s \in Stages : step[s].status = "succeeded") => run.status = "succeeded"
  BY <1>1 DEF Verdict, RunStatus
<1>5. run.status = "failed" <=> \E s \in Stages : step[s].status = "failed"
  BY DEF Verdict
<1>6. run.status = "cancelled" => \A s \in Stages : step[s].status \notin OpenSteps
  BY DEF Verdict
<1> QED
  BY <1>3, <1>4, <1>5, <1>6 DEF VerdictMatchesStages

\* The verdict of a run is that of its stages, and a cancelled run has none open.
THEOREM EveryVerdictMatches == FactorySpec => []VerdictMatchesStages
<1>1. IInv => VerdictMatchesStages
  BY VerdictAgrees DEF IInv
<1> QED
  BY <1>1, Invariance, PTL

\* Run and stages tell one story, in the order of STAGES (succeed, fail, block, cancel).
THEOREM RunAlwaysMatchesStages == FactorySpec => []RunMatchesStages
<1>1. StagesInOrder /\ VerdictMatchesStages => RunMatchesStages
  BY DEF RunMatchesStages
<1> QED
  BY <1>1, EveryStageInOrder, EveryVerdictMatches, PTL

\* Only what the approval stage passed is published: on the verdict of the policy, on a
\* reviewer's decision, or on the one that came with the request that started the run.
THEOREM EveryPublicationWasApproved == FactorySpec => []PublishedAsApproved
<1>1. ASSUME IInv
      PROVE  PublishedAsApproved
  <2>1. ApprovalStage \in Stages
    BY StageFacts
  <2>2. step[ApprovalStage].input \in {"none", "starter", "reviewer"}
    BY <1>1, <2>1 DEF IInv, RunInv, FactoryTypeOK, FactoryStep, Decision
  <2>3. step[ApprovalStage].input = "starter" => step[1].input = "starter"
    BY <1>1, <2>1 DEF IInv, Carried, Carries
  <2> QED
    BY <1>1, <2>2, <2>3 DEF IInv, RunInv, Signed, PublishedAsApproved
<1> QED
  BY <1>1, Invariance, PTL

\* Although succeed writes the status of the run unconditionally, no verdict is taken back.
THEOREM EveryVerdictIsFinal == FactorySpec => RunVerdictIsFinal
<1>1. ASSUME IInv, FactoryNext, RunEnded
      PROVE  run'.status = run.status
  <2>1. run.status # "running" /\ run.status # "none"
    BY <1>1 DEF RunEnded
  <2>2. \A s \in Stages : step[s].status # "running"
    BY <1>1, <2>1, LiveStage DEF IInv
  <2>3. \A r \in Runner : ~ Owned(runner[r].stage)
    BY <1>1, <2>2 DEF Owned, IInv, RunInv, FactoryTypeOK, RunnerState
  <2> QED
    BY <1>1, <2>1, <2>2, <2>3 DEF FactoryNext, CancelRun, RequeueStuck, StartRun, ApproveRun,
       ClaimStage, LeaveRun, HandleStage, BlockStage, SucceedStage, FailStage, Refused, StopRunner
<1>2. IInv /\ [FactoryNext]_factoryVars => [RunEnded => run'.status = run.status]_factoryVars
  BY <1>1
<1> QED
  BY <1>2, Invariance, PTL DEF FactorySpec, RunVerdictIsFinal
=============================================================================
