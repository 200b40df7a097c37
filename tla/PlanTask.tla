------------------------------ MODULE PlanTask ------------------------------
(***************************************************************************)
(* A job of the Zarvis task gateway: the last snapshot of jobs.jsonl and   *)
(* the items of queue.json (durable-adapters.mjs), and the requests that   *)
(* change them (orchestrator-core.mjs, runtime.mjs).                       *)
(*                                                                         *)
(* The server handles requests concurrently and locks nothing: a request   *)
(* reads the whole job, awaits, and appends a whole job, whatever was      *)
(* appended in between. Every await is a step; the audit events that are   *)
(* written between two saves are not.                                      *)
(*                                                                         *)
(* Jobs meet only in the queue. There is one here, the order in which its  *)
(* items leave the queue is left open, and a second submit under its key   *)
(* finds it or makes another job.                                          *)
(***************************************************************************)
EXTENDS Naturals

CONSTANTS
    Caller,     \* requests in service at the same time
    MaxRetries  \* max_retries

ASSUME PlanAssumption == MaxRetries \in Nat

VARIABLES
    job,      \* the job as findById returns it
    tickets,  \* the attempts for which the queue holds an item
    caller,   \* caller[c]: the request c, with the job it is about to save
    lapsed,   \* the approval has expired
    granted   \* history: the owner asked for the approval of the job

planVars == <<job, tickets, caller, lapsed, granted>>

JobStatus == {"none", "pending_approval", "approved", "paused", "running",
              "succeeded", "failed", "cancelled", "expired"}
TerminalJob == {"succeeded", "failed", "cancelled", "expired"}

\* proof: the nonce of the approval, not yet there, or consumed; from: paused_from_status.
Job == [status : JobStatus, attempt : Nat, approved : BOOLEAN,
        proof : {"none", "live", "used"}, from : {"none", "pending_approval", "approved"}]

NoJob == [status |-> "none", attempt |-> 0, approved |-> FALSE, proof |-> "none", from |-> "none"]

CallerAt == {"idle", "submit", "approving", "approve", "resume", "retry", "save",
             "enqueue", "enqueue to approve", "consume", "dequeued", "start", "execute",
             "finish", "audit", "failing"}

\* stale, a history: the job was saved by another request after this one read it.
CallerState == [at : CallerAt, next : Job, ticket : Nat, stale : BOOLEAN]

Quiet == [at |-> "idle", next |-> NoJob, ticket |-> 0, stale |-> FALSE]

PlanInit ==
    /\ job = NoJob
    /\ tickets = {}
    /\ caller = [c \in Caller |-> Quiet]
    /\ lapsed = FALSE
    /\ granted = FALSE

Awaits(c, at) == caller[c].at = at
Answer(c) == caller' = [caller EXCEPT ![c] = Quiet]
Proceed(c, at) == caller' = [caller EXCEPT ![c].at = at]

\* A request has read the job, and will save next.
Read(c, at, next) ==
    caller' = [caller EXCEPT ![c].at = at, ![c].next = next, ![c].stale = FALSE]

\* A request saves a job and is then as self: what the others hold is out of date.
Save(c, saved, self) ==
    /\ job' = saved
    /\ caller' = [d \in Caller |->
          IF d = c THEN self ELSE [caller[d] EXCEPT !.stale = ~ Awaits(d, "idle")]]

-----------------------------------------------------------------------------
(* What the requests read *)

\* submit saves a job without a plan, submitPlan saves it again with plan and proof.
SubmitPlan(c) ==
    LET new == [NoJob EXCEPT !.status = "pending_approval"] IN
    /\ Awaits(c, "idle")
    /\ job.status = "none"
    /\ Save(c, new, [Quiet EXCEPT !.at = "submit", !.next = [new EXCEPT !.proof = "live"]])
    /\ UNCHANGED <<tickets, lapsed, granted>>

\* approvePlan: the proof is compared with the job's; a job without one has none to
\* compare and does not expire.
ApprovePlanJob(c) ==
    /\ Awaits(c, "idle")
    /\ job.status = "pending_approval"
    /\ job.proof # "used"
    /\ job.proof = "none" \/ ~ lapsed
    /\ granted' = TRUE
    /\ Read(c, "approving", job)
    /\ UNCHANGED <<job, tickets, lapsed>>

\* AgentOrchestrator.approve reads the job again.
ApproveRead(c) ==
    /\ Awaits(c, "approving")
    /\ IF job.status = "pending_approval"
         THEN Read(c, "approve", [job EXCEPT !.status = "approved", !.approved = TRUE])
         ELSE Answer(c)
    /\ UNCHANGED <<job, tickets, lapsed, granted>>

PauseJob(c) ==
    /\ Awaits(c, "idle")
    /\ job.status \in {"pending_approval", "approved"}
    /\ Read(c, "save", [job EXCEPT !.status = "paused", !.from = job.status])
    /\ UNCHANGED <<job, tickets, lapsed, granted>>

\* An error: what was paused is taken for approved.
ResumedApproved(j) == "approved"
Resumed(j) == IF j.from = "approved" THEN "approved" ELSE "pending_approval"

ResumeJob(c) ==
    /\ Awaits(c, "idle")
    /\ job.status = "paused"
    /\ Read(c, IF Resumed(job) = "approved" THEN "resume" ELSE "save",
            [job EXCEPT !.status = Resumed(job), !.from = "none"])
    /\ UNCHANGED <<job, tickets, lapsed, granted>>

\* An error: any job that has not succeeded can be cancelled.
CancellableJobLate == JobStatus \ {"none", "succeeded"}
CancellableJob == JobStatus \ (TerminalJob \union {"none"})

CancelJob(c) ==
    /\ Awaits(c, "idle")
    /\ job.status \in CancellableJob
    /\ Read(c, "save", [job EXCEPT !.status = "cancelled"])
    /\ UNCHANGED <<job, tickets, lapsed, granted>>

MayRetry(j) == j.status = "failed" /\ j.attempt < MaxRetries + 1

RetryJob(c) ==
    /\ Awaits(c, "idle")
    /\ MayRetry(job)
    /\ Read(c, "retry", [job EXCEPT !.status = "approved"])
    /\ UNCHANGED <<job, tickets, lapsed, granted>>

-----------------------------------------------------------------------------
(* What they write *)

\* The last save of a request.
SaveJob(c) ==
    /\ Awaits(c, "submit") \/ Awaits(c, "save") \/ Awaits(c, "failing")
    /\ Save(c, caller[c].next, Quiet)
    /\ UNCHANGED <<tickets, lapsed, granted>>

\* The save of a request that queues the job next.
SaveApproved(c) ==
    /\ Awaits(c, "approve") \/ Awaits(c, "resume") \/ Awaits(c, "retry")
    /\ Save(c, caller[c].next, [caller[c] EXCEPT
          !.at = IF Awaits(c, "approve") THEN "enqueue to approve" ELSE "enqueue"])
    /\ UNCHANGED <<tickets, lapsed, granted>>

\* One item per attempt, as long as it is queued.
EnqueueJob(c) ==
    /\ Awaits(c, "enqueue") \/ Awaits(c, "enqueue to approve")
    /\ tickets' = tickets \union {caller[c].next.attempt + 1}
    /\ IF Awaits(c, "enqueue") THEN Answer(c) ELSE Proceed(c, "consume")
    /\ UNCHANGED <<job, lapsed, granted>>

\* approvePlan saves what approve returned, with the proof consumed.
ConsumeProof(c) ==
    /\ Awaits(c, "consume")
    /\ Save(c, [caller[c].next EXCEPT !.proof = "used"], Quiet)
    /\ UNCHANGED <<tickets, lapsed, granted>>

-----------------------------------------------------------------------------
(* runNext *)

Dequeue(c) ==
    /\ Awaits(c, "idle")
    /\ \E a \in tickets :
          /\ tickets' = tickets \ {a}
          /\ caller' = [caller EXCEPT ![c].at = "dequeued", ![c].ticket = a]
    /\ UNCHANGED <<job, lapsed, granted>>

\* An item whose job is not approved any more is dropped.
ReadApproved(c) ==
    /\ Awaits(c, "dequeued")
    /\ IF job.status = "approved"
         THEN Read(c, "start", [job EXCEPT !.status = "running", !.attempt = caller[c].ticket])
         ELSE Answer(c)
    /\ UNCHANGED <<job, tickets, lapsed, granted>>

SaveRunning(c) ==
    /\ Awaits(c, "start")
    /\ Save(c, caller[c].next, [caller[c] EXCEPT !.at = "execute"])
    /\ UNCHANGED <<tickets, lapsed, granted>>

\* The worker refuses an expired approval and throws on a job without a plan.
ExecuteJob(c) ==
    LET running == caller[c].next IN
    /\ Awaits(c, "execute")
    /\ \E result \in {"succeeded", "failed", "expired"} :
          /\ running.proof = "none" => result = "failed"
          /\ result = "expired" => lapsed
          /\ caller' = [caller EXCEPT ![c].at = "finish", ![c].next.status = result]
    /\ UNCHANGED <<job, tickets, lapsed, granted>>

FinishJob(c) ==
    /\ Awaits(c, "finish")
    /\ Save(c, caller[c].next, [caller[c] EXCEPT !.at = "audit"])
    /\ UNCHANGED <<tickets, lapsed, granted>>

\* The save or the audit event after it fails, and so does the job.
FailJob(c) ==
    /\ Awaits(c, "finish") \/ Awaits(c, "audit")
    /\ caller' = [caller EXCEPT ![c].at = "failing", ![c].next.status = "failed"]
    /\ UNCHANGED <<job, tickets, lapsed, granted>>

-----------------------------------------------------------------------------

Lapse ==
    /\ ~ lapsed
    /\ lapsed' = TRUE
    /\ UNCHANGED <<job, tickets, caller, granted>>

\* A request ends where an await of it throws, with its process, or after its last
\* audit event; the files stay.
AbandonRequest(c) ==
    /\ ~ Awaits(c, "idle")
    /\ Answer(c)
    /\ UNCHANGED <<job, tickets, lapsed, granted>>

PlanNext ==
    \/ Lapse
    \/ \E c \in Caller :
          \/ SubmitPlan(c) \/ ApprovePlanJob(c) \/ ApproveRead(c) \/ PauseJob(c)
          \/ ResumeJob(c) \/ CancelJob(c) \/ RetryJob(c)
          \/ SaveJob(c) \/ SaveApproved(c) \/ EnqueueJob(c) \/ ConsumeProof(c)
          \/ Dequeue(c) \/ ReadApproved(c) \/ SaveRunning(c) \/ ExecuteJob(c) \/ FinishJob(c)
          \/ FailJob(c) \/ AbandonRequest(c)

PlanSpec == PlanInit /\ [][PlanNext]_planVars

-----------------------------------------------------------------------------

PlanTypeOK ==
    /\ job \in Job
    /\ tickets \in SUBSET Nat
    /\ caller \in [Caller -> CallerState]
    /\ lapsed \in BOOLEAN
    /\ granted \in BOOLEAN

\* Nothing is executed that the owner was not asked about, nor more often than
\* max_retries allows: no sequence of pauses, resumes and retries, and no stale save,
\* makes an unapproved job run or queues or runs an attempt too many (resume, retry,
\* approvePlan, runNext).
ExecutedAsGranted ==
    /\ \A c \in Caller : Awaits(c, "execute") => granted /\ caller[c].next.approved
    /\ job.attempt <= MaxRetries + 1
    /\ \A a \in tickets : a \in 1..(MaxRetries + 1)

\* A job that has ended is taken back only by a request that had read it before it
\* ended, by a retry of a failed job, or by a worker whose audit event fails: no
\* request that sees the end overrides it.
EndedJobStays ==
    [][job.status \in TerminalJob /\ job'.status # job.status =>
         \E c \in Caller :
            /\ caller'[c].at # caller[c].at
            /\ \/ caller[c].stale
               \/ Awaits(c, "retry") /\ job.status = "failed"
               \/ Awaits(c, "failing")
     ]_planVars
=============================================================================
