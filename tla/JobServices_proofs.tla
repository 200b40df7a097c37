------------------------- MODULE JobServices_proofs -------------------------
(***************************************************************************)
(* Proofs about PlanTask, for any callers and retries, about Outbox, for   *)
(* any parcels and dispatchers, about RenderQueue, for any rows, workers   *)
(* and handlers, about ActionGateway, for any owners, workers, visitors,   *)
(* values and numbers of actions and accidents, and about Scheduler, for   *)
(* any schedules, events, rules, replicas and single ticks.                *)
(***************************************************************************)
EXTENDS PlanTask, Outbox, RenderQueue, ActionGateway, Scheduler, FiniteSetTheorems, TLAPS

-----------------------------------------------------------------------------
(* PlanTask *)

\* What holds of the job and of every copy of it that a request is about to save.
Sound(j) ==
    /\ j.attempt <= MaxRetries + 1
    /\ j.status \in {"pending_approval", "approved", "paused"} => j.attempt <= MaxRetries
    /\ j.status \in {"approved", "running", "succeeded", "failed", "expired"} => j.approved
    /\ j.from = "approved" => j.approved
    /\ j.approved => granted

\* What a request holds, by where it is.
HoldsOK(c) ==
    /\ Sound(caller[c].next)
    /\ caller[c].at \in {"approve", "resume", "retry", "enqueue", "enqueue to approve", "consume"}
          => caller[c].next.status = "approved"
    /\ caller[c].at \in {"start", "execute"} => caller[c].next.status = "running"
    /\ caller[c].at \in {"finish", "audit", "failing"}
          => caller[c].next.status \in {"succeeded", "failed", "expired"}
    /\ caller[c].at = "dequeued" => caller[c].ticket \in 1..(MaxRetries + 1)
    /\ caller[c].at = "approving" => granted

\* What a request knows of the job as long as nobody else saved it.
KnowsOK(c) ==
    caller[c].stale = FALSE =>
        /\ caller[c].at \in {"submit", "approve"} => job.status = "pending_approval"
        /\ caller[c].at = "resume" => job.status = "paused"
        /\ caller[c].at = "retry" => job.status = "failed"
        /\ caller[c].at = "save" => job.status \notin TerminalJob
        /\ caller[c].at \in {"enqueue", "enqueue to approve", "consume", "start"}
              => job.status = "approved"
        /\ caller[c].at \in {"execute", "finish"} => job.status = "running"

Tickets == tickets \subseteq 1..(MaxRetries + 1)

PlanInv ==
    /\ PlanTypeOK
    /\ Sound(job)
    /\ \A c \in Caller : HoldsOK(c) /\ KnowsOK(c)
    /\ Tickets

LEMMA NoJobTyped == NoJob \in Job /\ Quiet \in CallerState
  BY DEF NoJob, Job, JobStatus, Quiet, CallerState, CallerAt

LEMMA NoJobSound == Sound(NoJob)
  BY PlanAssumption DEF Sound, NoJob

\* A request that is alone to change.
LEMMA OneCaller ==
  ASSUME PlanInv, NEW c \in Caller, NEW k \in CallerState, caller' = [caller EXCEPT ![c] = k],
         job' = job, tickets' \subseteq 1..(MaxRetries + 1), lapsed' \in BOOLEAN,
         granted' \in BOOLEAN, granted => granted', HoldsOK(c)', KnowsOK(c)'
  PROVE  PlanInv'
<1> USE DEF PlanInv
<1>1. \A d \in Caller : d # c => caller'[d] = caller[d]
  BY DEF PlanTypeOK
<1>2. PlanTypeOK'
  BY DEF PlanTypeOK
<1>3. Sound(job)'
  BY DEF Sound
<1>4. ASSUME NEW d \in Caller, d # c
      PROVE  HoldsOK(d)' /\ KnowsOK(d)'
  BY <1>1, <1>4 DEF HoldsOK, KnowsOK, Sound
<1> QED
  BY <1>2, <1>3, <1>4 DEF Tickets

\* A request that saves: what the others hold is sound, and out of date.
LEMMA OneSave ==
  ASSUME PlanInv, NEW c \in Caller, NEW saved \in Job, NEW self \in CallerState,
         Save(c, saved, self), UNCHANGED <<tickets, lapsed, granted>>,
         Sound(saved), HoldsOK(c)', KnowsOK(c)'
  PROVE  PlanInv'
<1> USE DEF PlanInv
<1>1. job' = saved
  BY DEF Save
<1>2. ASSUME NEW d \in Caller, d # c
      PROVE  /\ caller'[d] = [caller[d] EXCEPT !.stale = ~ Awaits(d, "idle")]
             /\ caller'[d].at = caller[d].at /\ caller'[d].next = caller[d].next
             /\ caller'[d].ticket = caller[d].ticket
             /\ caller[d].at # "idle" => caller'[d].stale = TRUE
             /\ caller'[d] \in CallerState
  <2>1. caller[d] \in CallerState
    BY DEF PlanTypeOK
  <2>2. caller'[d] = [caller[d] EXCEPT !.stale = ~ Awaits(d, "idle")]
    BY <1>2 DEF Save
  <2>3. (~ Awaits(d, "idle")) = (caller[d].at # "idle") /\ (caller[d].at # "idle") \in BOOLEAN
    BY DEF Awaits
  <2> QED
    BY <2>1, <2>2, <2>3 DEF CallerState
<1>3. caller' \in [Caller -> CallerState]
  <2>1. \A d \in Caller : caller'[d] \in CallerState
    BY <1>2 DEF Save
  <2> QED
    BY <2>1 DEF Save
<1>4. PlanTypeOK'
  BY <1>1, <1>3 DEF PlanTypeOK
<1>5. ASSUME NEW d \in Caller, d # c
      PROVE  HoldsOK(d)' /\ KnowsOK(d)'
  <2>1. HoldsOK(d)'
    BY <1>2, <1>5 DEF HoldsOK, Sound
  <2>2. KnowsOK(d)'
    BY <1>2, <1>5 DEF KnowsOK
  <2> QED
    BY <2>1, <2>2
<1>6. Sound(job)'
  BY <1>1 DEF Sound
<1> QED
  BY <1>4, <1>5, <1>6 DEF Tickets

LEMMA PlanStart == PlanInit => PlanInv
<1> SUFFICES ASSUME PlanInit PROVE PlanInv
  OBVIOUS
<1>1. PlanTypeOK
  BY NoJobTyped DEF PlanInit, PlanTypeOK
<1>2. ASSUME NEW c \in Caller
      PROVE  HoldsOK(c) /\ KnowsOK(c)
  BY NoJobSound DEF PlanInit, HoldsOK, KnowsOK, Quiet
<1>3. Sound(job) /\ Tickets
  BY NoJobSound DEF PlanInit, Tickets
<1> QED
  BY <1>1, <1>2, <1>3 DEF PlanInv

\* The answer of a request.
LEMMA AnswerKeeps ==
  ASSUME PlanInv, NEW c \in Caller, Answer(c), job' = job, tickets' \subseteq 1..(MaxRetries + 1),
         UNCHANGED <<lapsed, granted>>
  PROVE  PlanInv'
<1>1. caller'[c] = Quiet /\ granted \in BOOLEAN /\ lapsed \in BOOLEAN
  BY DEF PlanInv, PlanTypeOK, Answer
<1>2. HoldsOK(c)' /\ KnowsOK(c)'
  BY <1>1, NoJobSound DEF HoldsOK, KnowsOK, Quiet, Sound
<1> QED
  BY <1>1, <1>2, NoJobTyped, OneCaller DEF Answer

\* A request that read the job.
LEMMA ReadKeeps ==
  ASSUME PlanInv, NEW c \in Caller, NEW at \in CallerAt, NEW next \in Job, Read(c, at, next),
         UNCHANGED <<job, tickets, lapsed>>, granted' \in BOOLEAN, granted => granted',
         Sound(next)',
         at \in {"approve", "resume", "retry"} => next.status = "approved",
         at = "start" => next.status = "running",
         at = "approving" => granted',
         at \in {"approving", "approve", "resume", "retry", "save", "start"},
         at = "approve" => job.status = "pending_approval",
         at = "resume" => job.status = "paused",
         at = "retry" => job.status = "failed",
         at = "save" => job.status \notin TerminalJob,
         at = "start" => job.status = "approved"
  PROVE  PlanInv'
<1> PICK k : k = [caller[c] EXCEPT !.at = at, !.next = next, !.stale = FALSE]
  OBVIOUS
<1>1. caller[c] \in CallerState
  BY DEF PlanInv, PlanTypeOK
<1>2. k \in CallerState /\ k.at = at /\ k.next = next /\ k.stale = FALSE /\ k.ticket = caller[c].ticket
  BY <1>1 DEF CallerState
<1>3. caller' = [caller EXCEPT ![c] = k] /\ caller'[c] = k
  BY DEF Read, PlanInv, PlanTypeOK
<1>4. HoldsOK(c)' /\ KnowsOK(c)'
  BY <1>2, <1>3 DEF HoldsOK, KnowsOK
<1> QED
  BY <1>2, <1>3, <1>4, OneCaller DEF PlanInv, PlanTypeOK, Tickets

LEMMA SaveAlone ==
  ASSUME PlanInv, NEW c \in Caller, NEW saved, NEW self, Save(c, saved, self)
  PROVE  job' = saved /\ caller'[c] = self
  BY DEF Save

LEMMA SubmitKeeps ==
  ASSUME PlanInv, NEW c \in Caller, SubmitPlan(c)
  PROVE  PlanInv'
<1> PICK new : new = [NoJob EXCEPT !.status = "pending_approval"]
  OBVIOUS
<1> PICK next : next = [new EXCEPT !.proof = "live"]
  OBVIOUS
<1> PICK self : self = [Quiet EXCEPT !.at = "submit", !.next = next]
  OBVIOUS
<1>1. /\ new \in Job /\ new.status = "pending_approval" /\ new.attempt = 0 /\ new.approved = FALSE
      /\ new.from = "none"
  BY DEF NoJob, Job, JobStatus
<1>2. /\ next \in Job /\ next.status = "pending_approval" /\ next.attempt = 0 /\ next.approved = FALSE
      /\ next.from = "none"
  BY <1>1 DEF Job
<1>3. self \in CallerState /\ self.at = "submit" /\ self.next = next
  BY <1>2 DEF Quiet, CallerState, CallerAt
<1>4. Sound(new) /\ Sound(next)'
  BY <1>1, <1>2, PlanAssumption DEF Sound
<1>5. Save(c, new, self) /\ UNCHANGED <<tickets, lapsed, granted>>
  BY DEF SubmitPlan
<1>6. job' = new /\ caller'[c] = self
  BY <1>5, SaveAlone
<1>7. HoldsOK(c)' /\ KnowsOK(c)'
  BY <1>1, <1>3, <1>4, <1>6 DEF HoldsOK, KnowsOK
<1> QED
  BY <1>1, <1>3, <1>4, <1>5, <1>7, OneSave

LEMMA JobFacts ==
  ASSUME PlanInv
  PROVE  /\ job \in Job /\ Sound(job) /\ job.attempt \in Nat /\ job.status \in JobStatus
         /\ granted \in BOOLEAN /\ lapsed \in BOOLEAN
  BY DEF PlanInv, PlanTypeOK, Job

LEMMA ApprovePlanKeeps ==
  ASSUME PlanInv, NEW c \in Caller, ApprovePlanJob(c)
  PROVE  PlanInv'
<1>1. Sound(job)'
  BY JobFacts DEF ApprovePlanJob, Sound
<1>2. granted' = TRUE /\ Read(c, "approving", job) /\ UNCHANGED <<job, tickets, lapsed>>
  BY DEF ApprovePlanJob
<1>3. "approving" \in CallerAt /\ Sound(job) /\ job' = job
  BY <1>2, JobFacts DEF CallerAt
<1>4. PICK next : next = job
  OBVIOUS
<1>5. Sound(next)' /\ next \in Job /\ Read(c, "approving", next)
  BY <1>1, <1>2, <1>3, <1>4, JobFacts DEF Sound
<1> QED
  BY <1>2, <1>3, <1>5, ReadKeeps

LEMMA ApproveReadKeeps ==
  ASSUME PlanInv, NEW c \in Caller, ApproveRead(c)
  PROVE  PlanInv'
<1>1. UNCHANGED <<job, tickets, lapsed, granted>> /\ granted
  BY DEF ApproveRead, Awaits, PlanInv, HoldsOK
<1>2. CASE job.status = "pending_approval"
  <2> PICK next : next = [job EXCEPT !.status = "approved", !.approved = TRUE]
    OBVIOUS
  <2>1. /\ next \in Job /\ next.status = "approved" /\ next.attempt = job.attempt /\ next.approved = TRUE
        /\ next.from = job.from
    BY JobFacts DEF Job, JobStatus
  <2>2. Sound(next)'
    BY <1>1, <1>2, <2>1, JobFacts, PlanAssumption DEF Sound
  <2>3. Read(c, "approve", next) /\ "approve" \in CallerAt
    BY <1>2 DEF ApproveRead, CallerAt
  <2> QED
    BY <1>1, <1>2, <2>1, <2>2, <2>3, JobFacts, ReadKeeps
<1>3. CASE job.status # "pending_approval"
  BY <1>1, <1>3, AnswerKeeps DEF ApproveRead, PlanInv, Tickets
<1> QED
  BY <1>2, <1>3

LEMMA PauseKeeps ==
  ASSUME PlanInv, NEW c \in Caller, PauseJob(c)
  PROVE  PlanInv'
<1>1. UNCHANGED <<job, tickets, lapsed, granted>> /\ job.status \in {"pending_approval", "approved"}
  BY DEF PauseJob
<1> PICK next : next = [job EXCEPT !.status = "paused", !.from = job.status]
  OBVIOUS
<1>2. /\ next \in Job /\ next.status = "paused" /\ next.attempt = job.attempt
      /\ next.approved = job.approved /\ next.from = job.status
  BY <1>1, JobFacts DEF Job, JobStatus
<1>3. Sound(next)'
  BY <1>1, <1>2, JobFacts DEF Sound
<1>4. Read(c, "save", next) /\ "save" \in CallerAt
  BY DEF PauseJob, CallerAt
<1> QED
  BY <1>1, <1>2, <1>3, <1>4, JobFacts, ReadKeeps DEF TerminalJob

LEMMA ResumeKeeps ==
  ASSUME PlanInv, NEW c \in Caller, ResumeJob(c)
  PROVE  PlanInv'
<1>1. UNCHANGED <<job, tickets, lapsed, granted>> /\ job.status = "paused"
  BY DEF ResumeJob
<1> PICK st : st = Resumed(job)
  OBVIOUS
<1> PICK next : next = [job EXCEPT !.status = st, !.from = "none"]
  OBVIOUS
<1>2. st \in {"approved", "pending_approval"} /\ (st = "approved" => job.from = "approved")
  BY DEF Resumed
<1>3. /\ next \in Job /\ next.status = st /\ next.attempt = job.attempt
      /\ next.approved = job.approved /\ next.from = "none"
  BY <1>2, JobFacts DEF Job, JobStatus
<1>4. Sound(next)'
  BY <1>1, <1>2, <1>3, JobFacts DEF Sound
<1>5. Read(c, IF st = "approved" THEN "resume" ELSE "save", next)
  BY DEF ResumeJob
<1>6. CASE st = "approved"
  <2>1. Read(c, "resume", next) /\ "resume" \in CallerAt
    BY <1>5, <1>6 DEF CallerAt
  <2> QED
    BY <1>1, <1>3, <1>4, <1>6, <2>1, JobFacts, ReadKeeps
<1>7. CASE st # "approved"
  <2>1. Read(c, "save", next) /\ "save" \in CallerAt
    BY <1>5, <1>7 DEF CallerAt
  <2> QED
    BY <1>1, <1>3, <1>4, <2>1, JobFacts, ReadKeeps DEF TerminalJob
<1> QED
  BY <1>6, <1>7

LEMMA CancelKeeps ==
  ASSUME PlanInv, NEW c \in Caller, CancelJob(c)
  PROVE  PlanInv'
<1>1. UNCHANGED <<job, tickets, lapsed, granted>> /\ job.status \notin TerminalJob
  BY DEF CancelJob, CancellableJob
<1> PICK next : next = [job EXCEPT !.status = "cancelled"]
  OBVIOUS
<1>2. /\ next \in Job /\ next.status = "cancelled" /\ next.attempt = job.attempt
      /\ next.approved = job.approved /\ next.from = job.from
  BY JobFacts DEF Job, JobStatus
<1>3. Sound(next)'
  BY <1>1, <1>2, JobFacts DEF Sound
<1>4. Read(c, "save", next) /\ "save" \in CallerAt
  BY DEF CancelJob, CallerAt
<1> QED
  BY <1>1, <1>2, <1>3, <1>4, JobFacts, ReadKeeps

LEMMA RetryKeeps ==
  ASSUME PlanInv, NEW c \in Caller, RetryJob(c)
  PROVE  PlanInv'
<1>1. /\ UNCHANGED <<job, tickets, lapsed, granted>>
      /\ job.status = "failed" /\ job.attempt < MaxRetries + 1
  BY DEF RetryJob, MayRetry
<1> PICK next : next = [job EXCEPT !.status = "approved"]
  OBVIOUS
<1>2. /\ next \in Job /\ next.status = "approved" /\ next.attempt = job.attempt
      /\ next.approved = job.approved /\ next.from = job.from
  BY JobFacts DEF Job, JobStatus
<1>3. Sound(next)'
  BY <1>1, <1>2, JobFacts, PlanAssumption DEF Sound
<1>4. Read(c, "retry", next) /\ "retry" \in CallerAt
  BY DEF RetryJob, CallerAt
<1> QED
  BY <1>1, <1>2, <1>3, <1>4, JobFacts, ReadKeeps

\* What a request that is about to write holds.
LEMMA CallerFacts ==
  ASSUME PlanInv, NEW c \in Caller
  PROVE  /\ caller[c] \in CallerState /\ caller[c].next \in Job /\ caller[c].next.attempt \in Nat
         /\ HoldsOK(c) /\ KnowsOK(c)
  BY DEF PlanInv, PlanTypeOK, CallerState, Job

LEMMA QuietKeeps ==
  ASSUME PlanInv, NEW c \in Caller, NEW saved \in Job, Sound(saved), Save(c, saved, Quiet),
         UNCHANGED <<tickets, lapsed, granted>>
  PROVE  PlanInv'
<1>1. caller'[c] = Quiet
  BY SaveAlone
<1>2. HoldsOK(c)' /\ KnowsOK(c)'
  BY <1>1, NoJobSound DEF HoldsOK, KnowsOK, Quiet, Sound
<1> QED
  BY <1>2, NoJobTyped, OneSave

LEMMA SoundKept ==
  ASSUME PlanInv, NEW next, Sound(next), granted' = granted
  PROVE  Sound(next)'
  BY JobFacts DEF Sound

\* A save after which the request goes on with what it saved.
LEMMA SaveOnKeeps ==
  ASSUME PlanInv, NEW c \in Caller,
         NEW at \in {"enqueue", "enqueue to approve", "execute", "audit"},
         Save(c, caller[c].next, [caller[c] EXCEPT !.at = at]),
         UNCHANGED <<tickets, lapsed, granted>>,
         at \in {"enqueue", "enqueue to approve"} => caller[c].next.status = "approved",
         at = "execute" => caller[c].next.status = "running",
         at = "audit" => caller[c].next.status \in {"succeeded", "failed", "expired"}
  PROVE  PlanInv'
<1> PICK self : self = [caller[c] EXCEPT !.at = at]
  OBVIOUS
<1>1. self \in CallerState /\ self.at = at /\ self.next = caller[c].next
  BY CallerFacts DEF CallerState, CallerAt
<1>2. job' = caller[c].next /\ caller'[c] = self
  BY SaveAlone
<1>3. Sound(caller[c].next) /\ granted' = granted
  BY CallerFacts DEF HoldsOK
<1> PICK next : next = caller[c].next
  OBVIOUS
<1>5. Sound(next)
  BY <1>3
<1>6. Sound(next)'
  BY <1>3, <1>5, SoundKept
<1>7. caller'[c].at = at /\ caller'[c].next = next
  BY <1>1, <1>2
<1>4. HoldsOK(c)'
  BY <1>6, <1>7 DEF HoldsOK
<1>8. KnowsOK(c)'
  BY <1>1, <1>2 DEF KnowsOK
<1> QED
  BY <1>1, <1>3, <1>4, <1>8, CallerFacts, OneSave

\* A request that moves on and keeps what it holds.
LEMMA ProceedKeeps ==
  ASSUME PlanInv, NEW c \in Caller, NEW k \in CallerState, caller' = [caller EXCEPT ![c] = k],
         UNCHANGED <<job, lapsed, granted>>, tickets' \subseteq 1..(MaxRetries + 1),
         HoldsOK(c)', KnowsOK(c)'
  PROVE  PlanInv'
  BY OneCaller, JobFacts

LEMMA WriterKeeps ==
  ASSUME PlanInv, NEW c \in Caller,
         SaveJob(c) \/ SaveApproved(c) \/ ConsumeProof(c) \/ SaveRunning(c) \/ FinishJob(c)
  PROVE  PlanInv'
<1>1. Sound(caller[c].next) /\ caller[c].next \in Job
  BY CallerFacts DEF HoldsOK
<1>2. CASE SaveJob(c)
  BY <1>1, <1>2, QuietKeeps DEF SaveJob
<1>3. CASE SaveApproved(c)
  <2>1. caller[c].next.status = "approved"
    BY <1>3, CallerFacts DEF SaveApproved, HoldsOK, Awaits
  <2>2. PICK at : at = IF Awaits(c, "approve") THEN "enqueue to approve" ELSE "enqueue"
    OBVIOUS
  <2>3. Save(c, caller[c].next, [caller[c] EXCEPT !.at = at]) /\ UNCHANGED <<tickets, lapsed, granted>>
    BY <1>3, <2>2 DEF SaveApproved
  <2> QED
    BY <2>1, <2>2, <2>3, SaveOnKeeps
<1>4. CASE ConsumeProof(c)
  <2> PICK saved : saved = [caller[c].next EXCEPT !.proof = "used"]
    OBVIOUS
  <2>1. saved \in Job
    BY <1>1 DEF Job
  <2>2. /\ saved.attempt = caller[c].next.attempt /\ saved.status = caller[c].next.status
        /\ saved.approved = caller[c].next.approved /\ saved.from = caller[c].next.from
    BY <1>1 DEF Job
  <2>3. Sound(saved)
    BY <1>1, <2>2 DEF Sound
  <2> QED
    BY <1>4, <2>1, <2>3, QuietKeeps DEF ConsumeProof
<1>5. CASE SaveRunning(c)
  <2>1. caller[c].next.status = "running"
    BY <1>5, CallerFacts DEF SaveRunning, HoldsOK, Awaits
  <2> QED
    BY <1>5, <2>1, SaveOnKeeps DEF SaveRunning
<1>6. CASE FinishJob(c)
  <2>1. caller[c].next.status \in {"succeeded", "failed", "expired"}
    BY <1>6, CallerFacts DEF FinishJob, HoldsOK, Awaits
  <2> QED
    BY <1>6, <2>1, SaveOnKeeps DEF FinishJob
<1> QED
  BY <1>2, <1>3, <1>4, <1>5, <1>6

LEMMA EnqueueKeeps ==
  ASSUME PlanInv, NEW c \in Caller, EnqueueJob(c)
  PROVE  PlanInv'
<1>2. caller[c].next.status = "approved" /\ caller[c].next.attempt \in 0..MaxRetries
  <2>1. caller[c].next.status = "approved" /\ Sound(caller[c].next) /\ caller[c].next.attempt \in Nat
    BY CallerFacts DEF EnqueueJob, HoldsOK, Awaits
  <2> QED
    BY <2>1, PlanAssumption DEF Sound
<1>3. tickets' \subseteq 1..(MaxRetries + 1)
  <2>1. tickets' = tickets \union {caller[c].next.attempt + 1} /\ tickets \subseteq 1..(MaxRetries + 1)
    BY DEF EnqueueJob, PlanInv, Tickets
  <2>2. caller[c].next.attempt + 1 \in 1..(MaxRetries + 1)
    BY <1>2, PlanAssumption
  <2> QED
    BY <2>1, <2>2
<1>4. UNCHANGED <<job, lapsed, granted>>
  BY DEF EnqueueJob
<1>5. CASE Answer(c)
  BY <1>3, <1>4, <1>5, AnswerKeeps
<1>6. CASE Awaits(c, "enqueue to approve") /\ Proceed(c, "consume")
  <2> PICK k : k = [caller[c] EXCEPT !.at = "consume"]
    OBVIOUS
  <2>1. /\ k \in CallerState /\ k.at = "consume" /\ k.next = caller[c].next /\ k.stale = caller[c].stale
    BY CallerFacts DEF CallerState, CallerAt
  <2>2. caller' = [caller EXCEPT ![c] = k] /\ caller'[c] = k
    BY <1>6 DEF Proceed, PlanInv, PlanTypeOK
  <2> PICK next : next = caller[c].next
    OBVIOUS
  <2>3. Sound(next)
    BY CallerFacts DEF HoldsOK
  <2>4. Sound(next)'
    BY <1>4, <2>3, JobFacts DEF Sound
  <2>5. HoldsOK(c)'
    BY <1>2, <2>1, <2>2, <2>4 DEF HoldsOK
  <2>6. KnowsOK(c)'
    BY <1>4, <1>6, <2>1, <2>2, CallerFacts DEF KnowsOK, Awaits
  <2> QED
    BY <1>3, <1>4, <2>1, <2>2, <2>5, <2>6, ProceedKeeps
<1> QED
  BY <1>5, <1>6 DEF EnqueueJob

LEMMA DequeueKeeps ==
  ASSUME PlanInv, NEW c \in Caller, Dequeue(c)
  PROVE  PlanInv'
<1>1. PICK a \in tickets : /\ tickets' = tickets \ {a}
                           /\ caller' = [caller EXCEPT ![c].at = "dequeued", ![c].ticket = a]
  BY DEF Dequeue
<1>2. tickets' \subseteq 1..(MaxRetries + 1) /\ a \in 1..(MaxRetries + 1) /\ a \in Nat
  BY <1>1, PlanAssumption DEF PlanInv, Tickets
<1>3. UNCHANGED <<job, lapsed, granted>>
  BY DEF Dequeue
<1> PICK k : k = [caller[c] EXCEPT !.at = "dequeued", !.ticket = a]
  OBVIOUS
<1>4. k \in CallerState /\ k.at = "dequeued" /\ k.next = caller[c].next /\ k.ticket = a
  BY <1>2, CallerFacts DEF CallerState, CallerAt
<1>5. caller' = [caller EXCEPT ![c] = k] /\ caller'[c] = k
  BY <1>1 DEF PlanInv, PlanTypeOK
<1> PICK next : next = caller[c].next
  OBVIOUS
<1>6. Sound(next)
  BY CallerFacts DEF HoldsOK
<1>7. Sound(next)'
  BY <1>3, <1>6, JobFacts DEF Sound
<1>8. HoldsOK(c)' /\ KnowsOK(c)'
  BY <1>2, <1>4, <1>5, <1>7 DEF HoldsOK, KnowsOK
<1> QED
  BY <1>2, <1>3, <1>4, <1>5, <1>8, ProceedKeeps

LEMMA ReadApprovedKeeps ==
  ASSUME PlanInv, NEW c \in Caller, ReadApproved(c)
  PROVE  PlanInv'
<1>1. UNCHANGED <<job, tickets, lapsed, granted>>
  BY DEF ReadApproved
<1>2. CASE job.status = "approved"
  <2> PICK next : next = [job EXCEPT !.status = "running", !.attempt = caller[c].ticket]
    OBVIOUS
  <2>1. caller[c].ticket \in 1..(MaxRetries + 1) /\ caller[c].ticket \in Nat
    <3>1. caller[c].at = "dequeued"
      BY DEF ReadApproved, Awaits
    <3>2. caller[c].ticket \in 1..(MaxRetries + 1)
      BY <3>1, CallerFacts DEF HoldsOK
    <3> QED
      BY <3>2, PlanAssumption
  <2>2. /\ next \in Job /\ next.status = "running" /\ next.attempt = caller[c].ticket
        /\ next.approved = job.approved /\ next.from = job.from
    BY <2>1, JobFacts DEF Job, JobStatus
  <2>3. Sound(next)'
    BY <1>1, <1>2, <2>1, <2>2, JobFacts, PlanAssumption DEF Sound
  <2>4. Read(c, "start", next) /\ "start" \in CallerAt
    BY <1>2 DEF ReadApproved, CallerAt
  <2> QED
    BY <1>1, <1>2, <2>2, <2>3, <2>4, JobFacts, ReadKeeps
<1>3. CASE job.status # "approved"
  BY <1>1, <1>3, AnswerKeeps DEF ReadApproved, PlanInv, Tickets
<1> QED
  BY <1>2, <1>3

\* The result of the execution, or its failure, is about to be saved.
LEMMA ResultKeeps ==
  ASSUME PlanInv, NEW c \in Caller, NEW at \in {"finish", "failing"},
         NEW result \in {"succeeded", "failed", "expired"},
         caller[c].at \in {"execute", "finish", "audit"},
         at = "finish" => caller[c].at = "execute",
         caller' = [caller EXCEPT ![c].at = at, ![c].next.status = result],
         UNCHANGED <<job, tickets, lapsed, granted>>
  PROVE  PlanInv'
<1> PICK next : next = [caller[c].next EXCEPT !.status = result]
  OBVIOUS
<1>1. caller[c].next \in Job /\ Sound(caller[c].next) /\ caller[c] \in CallerState
  BY CallerFacts DEF HoldsOK
<1>2. caller[c].next.status \in {"running", "succeeded", "failed", "expired"}
  BY CallerFacts DEF HoldsOK
<1>3. /\ next \in Job /\ next.status = result /\ next.attempt = caller[c].next.attempt
      /\ next.approved = caller[c].next.approved /\ next.from = caller[c].next.from
  BY <1>1 DEF Job, JobStatus
<1>4. Sound(next)
  BY <1>1, <1>2, <1>3 DEF Sound
<1>5. Sound(next)'
  BY <1>4, JobFacts DEF Sound
<1> PICK k : k = [caller[c] EXCEPT !.at = at, !.next = next]
  OBVIOUS
<1>6. k \in CallerState /\ k.at = at /\ k.next = next /\ k.stale = caller[c].stale
  BY <1>1, <1>3 DEF CallerState, CallerAt
<1>7. caller' = [caller EXCEPT ![c] = k]
  BY <1>1 DEF PlanInv, PlanTypeOK
<1>8. caller'[c] = k
  BY <1>7 DEF PlanInv, PlanTypeOK
<1>9. HoldsOK(c)'
  BY <1>3, <1>5, <1>6, <1>8 DEF HoldsOK
<1>10. KnowsOK(c)'
  <2>1. caller'[c].at = at /\ caller'[c].stale = caller[c].stale /\ job' = job
    BY <1>6, <1>8
  <2>2. caller[c].at = "execute" /\ caller[c].stale = FALSE => job.status = "running"
    BY CallerFacts DEF KnowsOK
  <2> QED
    BY <2>1, <2>2 DEF KnowsOK
<1> QED
  BY <1>6, <1>7, <1>9, <1>10, ProceedKeeps DEF PlanInv, Tickets

LEMMA PlanStep ==
  ASSUME PlanInv, [PlanNext]_planVars
  PROVE  PlanInv'
<1>1. CASE Lapse
  <2>1. UNCHANGED <<job, tickets, caller, granted>> /\ lapsed' = TRUE
    BY <1>1 DEF Lapse
  <2>2. PlanTypeOK' /\ Tickets'
    BY <2>1 DEF PlanInv, PlanTypeOK, Tickets
  <2>3. Sound(job)' /\ \A c \in Caller : HoldsOK(c)' /\ KnowsOK(c)'
    BY <2>1 DEF PlanInv, HoldsOK, KnowsOK, Sound
  <2> QED
    BY <2>2, <2>3 DEF PlanInv
<1>2. ASSUME NEW c \in Caller,
             SubmitPlan(c) \/ ApprovePlanJob(c) \/ ApproveRead(c) \/ PauseJob(c)
      PROVE  PlanInv'
  BY <1>2, SubmitKeeps, ApprovePlanKeeps, ApproveReadKeeps, PauseKeeps
<1>3. ASSUME NEW c \in Caller, ResumeJob(c) \/ CancelJob(c) \/ RetryJob(c)
      PROVE  PlanInv'
  BY <1>3, ResumeKeeps, CancelKeeps, RetryKeeps
<1>4. ASSUME NEW c \in Caller,
             SaveJob(c) \/ SaveApproved(c) \/ ConsumeProof(c) \/ SaveRunning(c) \/ FinishJob(c)
      PROVE  PlanInv'
  BY <1>4, WriterKeeps
<1>5. ASSUME NEW c \in Caller, EnqueueJob(c) \/ Dequeue(c) \/ ReadApproved(c)
      PROVE  PlanInv'
  BY <1>5, EnqueueKeeps, DequeueKeeps, ReadApprovedKeeps
<1>6. ASSUME NEW c \in Caller, ExecuteJob(c)
      PROVE  PlanInv'
  <2>1. PICK result \in {"succeeded", "failed", "expired"} :
           caller' = [caller EXCEPT ![c].at = "finish", ![c].next.status = result]
    BY <1>6 DEF ExecuteJob
  <2> QED
    BY <1>6, <2>1, ResultKeeps DEF ExecuteJob, Awaits
<1>7. ASSUME NEW c \in Caller, FailJob(c)
      PROVE  PlanInv'
  BY <1>7, ResultKeeps DEF FailJob, Awaits
<1>8. ASSUME NEW c \in Caller, AbandonRequest(c)
      PROVE  PlanInv'
  BY <1>8, AnswerKeeps DEF AbandonRequest, PlanInv, Tickets
<1>9. CASE UNCHANGED planVars
  <2>1. UNCHANGED <<job, tickets, caller, lapsed, granted>>
    BY <1>9 DEF planVars
  <2>2. PlanTypeOK' /\ Tickets'
    BY <2>1 DEF PlanInv, PlanTypeOK, Tickets
  <2>3. Sound(job)' /\ \A c \in Caller : HoldsOK(c)' /\ KnowsOK(c)'
    BY <2>1 DEF PlanInv, HoldsOK, KnowsOK, Sound
  <2> QED
    BY <2>2, <2>3 DEF PlanInv
<1> QED
  BY <1>1, <1>2, <1>3, <1>4, <1>5, <1>6, <1>7, <1>8, <1>9 DEF PlanNext

\* The inductive invariant of a job: every job that a request holds, saved or not, is
\* as sound as the one in the store.
THEOREM PlanInvariance == PlanSpec => []PlanInv
<1>1. PlanInv /\ [PlanNext]_planVars => PlanInv'
  BY PlanStep
<1> QED
  BY <1>1, PlanStart, PTL DEF PlanSpec

\* Every reachable state is well typed: the job, the queue and the requests.
THEOREM PlanTypeCorrect == PlanSpec => []PlanTypeOK
<1>1. PlanInv => PlanTypeOK
  BY DEF PlanInv
<1> QED
  BY <1>1, PlanInvariance, PTL

\* Whatever is paused, resumed, retried or saved over, only an approved job is executed,
\* and no more than max_retries + 1 times.
THEOREM EveryExecutionWasGranted == PlanSpec => []ExecutedAsGranted
<1>1. PlanInv => ExecutedAsGranted
  <2> SUFFICES ASSUME PlanInv
               PROVE  /\ \A c \in Caller : Awaits(c, "execute") => granted /\ caller[c].next.approved
                      /\ job.attempt <= MaxRetries + 1
                      /\ \A a \in tickets : a \in 1..(MaxRetries + 1)
    BY DEF ExecutedAsGranted
  <2>1. ASSUME NEW c \in Caller, Awaits(c, "execute")
        PROVE  granted /\ caller[c].next.approved
    <3>1. caller[c].next.status = "running" /\ Sound(caller[c].next)
      BY <2>1, CallerFacts DEF HoldsOK, Awaits
    <3> QED
      BY <3>1 DEF Sound
  <2>2. job.attempt <= MaxRetries + 1 /\ \A a \in tickets : a \in 1..(MaxRetries + 1)
    BY DEF PlanInv, Sound, Tickets
  <2> QED
    BY <2>1, <2>2
<1> QED
  BY <1>1, PlanInvariance, PTL

\* Only a request that read the job before it ended, a retry, or a worker whose audit event
\* fails takes an end back.
THEOREM EndsStay == PlanSpec => EndedJobStays
<1>1. ASSUME PlanInv, PlanNext, job.status \in TerminalJob, job'.status # job.status
      PROVE  \E c \in Caller :
                /\ caller'[c].at # caller[c].at
                /\ \/ caller[c].stale
                   \/ Awaits(c, "retry") /\ job.status = "failed"
                   \/ Awaits(c, "failing")
  <2>1. PICK c \in Caller : SaveJob(c) \/ SaveApproved(c) \/ ConsumeProof(c) \/ SaveRunning(c) \/ FinishJob(c)
    BY <1>1 DEF PlanNext, Lapse, SubmitPlan, ApprovePlanJob, ApproveRead, PauseJob, ResumeJob, CancelJob,
       RetryJob, EnqueueJob, Dequeue, ReadApproved, ExecuteJob, FailJob, AbandonRequest, TerminalJob
  <2>2. caller[c] \in CallerState /\ KnowsOK(c)
    BY <1>1, CallerFacts
  <2>3. /\ caller[c].at \in {"submit", "save", "failing", "approve", "resume", "retry", "consume",
                             "start", "finish"}
        /\ caller'[c].at # caller[c].at
    <3>1. CASE SaveJob(c) \/ ConsumeProof(c)
      BY <2>1, <3>1, SaveAlone, <1>1 DEF SaveJob, ConsumeProof, Awaits, Quiet
    <3>2. CASE SaveApproved(c)
      BY <2>2, <3>2, SaveAlone, <1>1 DEF SaveApproved, Awaits, CallerState
    <3>3. CASE SaveRunning(c) \/ FinishJob(c)
      BY <2>2, <3>3, SaveAlone, <1>1 DEF SaveRunning, FinishJob, Awaits, CallerState
    <3> QED
      BY <2>1, <3>1, <3>2, <3>3
  <2>4. caller[c].stale \in BOOLEAN
    BY <2>2 DEF CallerState
  <2>5. \/ caller[c].stale
        \/ Awaits(c, "retry") /\ job.status = "failed"
        \/ Awaits(c, "failing")
    BY <1>1, <2>2, <2>3, <2>4 DEF KnowsOK, TerminalJob, Awaits
  <2> QED
    BY <2>3, <2>5
<1>2. PlanInv /\ [PlanNext]_planVars =>
         [job.status \in TerminalJob /\ job'.status # job.status =>
            \E c \in Caller :
               /\ caller'[c].at # caller[c].at
               /\ \/ caller[c].stale
                  \/ Awaits(c, "retry") /\ job.status = "failed"
                  \/ Awaits(c, "failing")
         ]_planVars
  BY <1>1
<1> QED
  BY <1>2, PlanInvariance, PTL DEF PlanSpec, EndedJobStays

-----------------------------------------------------------------------------
(* Outbox *)

\* A dispatcher that takes its parcel for accepted is right, and so is a delivered row.
OutboxInv ==
    /\ OutboxTypeOK
    /\ DeliveredWasAccepted
    /\ \A d \in Dispatcher : dispatcher[d].answer = "accepted" => dispatcher[d].current \subseteq accepted

LEMMA OutboxStart == OutboxInit => OutboxInv
  BY OutboxAssumption DEF OutboxInit, OutboxInv, OutboxTypeOK, DeliveredWasAccepted, ParcelRow,
     DispatcherState, Waiting

\* The steps that take time for a row, or that make it.
LEMMA ParcelKeeps ==
  ASSUME OutboxInv, NEW i \in Parcel,
         EnqueueParcel(i) \/ ClaimOverruns(i) \/ ClaimExpires(i) \/ RetryIsDue(i)
  PROVE  OutboxInv'
<1> USE OutboxAssumption DEF OutboxInv
<1>1. UNCHANGED <<accepted, dispatcher, deaths>> /\ overruns' \in 0..OverrunBound
  BY DEF EnqueueParcel, ClaimOverruns, ClaimExpires, RetryIsDue, OutboxTypeOK
<1>2. parcel[i] \in ParcelRow
  BY DEF OutboxTypeOK
<1>3. \/ parcel' = [parcel EXCEPT ![i].status = "pending"]
      \/ parcel' = [parcel EXCEPT ![i].expired = TRUE]
      \/ parcel' = [parcel EXCEPT ![i].due = TRUE]
  BY DEF EnqueueParcel, ClaimOverruns, ClaimExpires, RetryIsDue
<1>4. parcel' \in [Parcel -> ParcelRow]
  <2>1. /\ [parcel[i] EXCEPT !.status = "pending"] \in ParcelRow
        /\ [parcel[i] EXCEPT !.expired = TRUE] \in ParcelRow
        /\ [parcel[i] EXCEPT !.due = TRUE] \in ParcelRow
    BY <1>2 DEF ParcelRow
  <2>2. \E r \in ParcelRow : parcel' = [parcel EXCEPT ![i] = r]
    BY <1>3, <2>1
  <2> QED
    BY <2>2 DEF OutboxTypeOK
<1>5. \A j \in Parcel : parcel'[j].status = "delivered" => parcel[j].status = "delivered"
  BY <1>2, <1>3 DEF OutboxTypeOK, ParcelRow
<1>6. OutboxTypeOK'
  BY <1>1, <1>4 DEF OutboxTypeOK
<1>7. DeliveredWasAccepted'
  BY <1>1, <1>5 DEF DeliveredWasAccepted
<1> QED
  BY <1>1, <1>6, <1>7

LEMMA ClaimParcelsKeeps ==
  ASSUME OutboxInv, NEW d \in Dispatcher, ClaimParcels(d)
  PROVE  OutboxInv'
<1> USE OutboxAssumption DEF OutboxInv
<1>1. PICK batch \in SUBSET Parcel :
         /\ parcel' = [i \in Parcel |-> IF i \in batch
               THEN [status |-> "processing", due |-> parcel[i].due, owner |-> d, expired |-> FALSE]
               ELSE parcel[i]]
         /\ dispatcher' = [dispatcher EXCEPT ![d].batch = batch]
  BY DEF ClaimParcels
<1>2. UNCHANGED <<accepted, overruns, deaths>>
  BY DEF ClaimParcels
<1>3. parcel' \in [Parcel -> ParcelRow]
  BY <1>1 DEF OutboxTypeOK, ParcelRow
<1>4. /\ dispatcher' \in [Dispatcher -> DispatcherState]
      /\ \A e \in Dispatcher : /\ dispatcher'[e].answer = dispatcher[e].answer
                               /\ dispatcher'[e].current = dispatcher[e].current
  BY <1>1 DEF OutboxTypeOK, DispatcherState
<1>5. DeliveredWasAccepted'
  BY <1>1, <1>2 DEF DeliveredWasAccepted
<1>6. OutboxTypeOK'
  BY <1>2, <1>3, <1>4 DEF OutboxTypeOK
<1> QED
  BY <1>2, <1>4, <1>5, <1>6

\* A dispatcher whose state becomes s.
LEMMA DispatcherMoves ==
  ASSUME OutboxInv, NEW d \in Dispatcher, NEW s \in DispatcherState,
         dispatcher' = [dispatcher EXCEPT ![d] = s], parcel' = parcel, overruns' = overruns,
         accepted' \in SUBSET Parcel, accepted \subseteq accepted', deaths' \in 0..DeathBound,
         s.answer = "accepted" => s.current \subseteq accepted'
  PROVE  OutboxInv'
<1> USE DEF OutboxInv
<1>1. OutboxTypeOK'
  BY DEF OutboxTypeOK
<1>2. DeliveredWasAccepted'
  BY DEF DeliveredWasAccepted
<1>3. \A e \in Dispatcher : dispatcher'[e].answer = "accepted" => dispatcher'[e].current \subseteq accepted'
  BY DEF OutboxTypeOK
<1> QED
  BY <1>1, <1>2, <1>3

LEMMA DispatcherKeeps ==
  ASSUME OutboxInv, NEW d \in Dispatcher,
         PostParcel(d) \/ FinishParcel(d) \/ FinishRaises(d) \/ DispatcherDies(d)
  PROVE  OutboxInv'
<1> USE OutboxAssumption DEF OutboxInv
<1>1. dispatcher[d] \in DispatcherState /\ deaths \in 0..DeathBound /\ accepted \in SUBSET Parcel
  BY DEF OutboxTypeOK
<1>2. CASE PostParcel(d)
  <2>1. PICK i \in dispatcher[d].batch, answer \in {"accepted", "refused"} :
           /\ accepted' = accepted \union {i} \/ (answer = "refused" /\ UNCHANGED accepted)
           /\ dispatcher' = [dispatcher EXCEPT ![d] =
                 [batch |-> dispatcher[d].batch \ {i}, answer |-> answer, current |-> {i}]]
    BY <1>2 DEF PostParcel
  <2> PICK s : s = [batch |-> dispatcher[d].batch \ {i}, answer |-> answer, current |-> {i}]
    OBVIOUS
  <2>2. i \in Parcel /\ s \in DispatcherState
    BY <1>1, <2>1 DEF DispatcherState
  <2>3. UNCHANGED <<parcel, overruns, deaths>>
    BY <1>2 DEF PostParcel
  <2>4. accepted' \in SUBSET Parcel /\ accepted \subseteq accepted' /\ (s.answer = "accepted" => s.current \subseteq accepted')
    BY <1>1, <2>1, <2>2
  <2> QED
    BY <1>1, <2>1, <2>2, <2>3, <2>4, DispatcherMoves
<1>3. CASE FinishParcel(d)
  <2>1. UNCHANGED <<accepted, overruns, deaths>> /\ dispatcher[d].answer # "none"
    BY <1>3 DEF FinishParcel
  <2>2. /\ dispatcher' \in [Dispatcher -> DispatcherState]
        /\ \A e \in Dispatcher : dispatcher'[e].answer = "accepted" =>
              dispatcher[e].answer = "accepted" /\ dispatcher'[e].current = dispatcher[e].current
    BY <1>1, <1>3 DEF FinishParcel, OutboxTypeOK, DispatcherState
  <2>3. ASSUME NEW i \in Parcel
        PROVE  /\ parcel'[i] \in ParcelRow
               /\ parcel'[i].status = "delivered" => i \in accepted
    <3>1. CASE i \in dispatcher[d].current /\ OwnsClaim(d, i)
      <4>1. parcel'[i] = Settled(i, dispatcher[d].answer = "accepted")
        BY <1>3, <3>1 DEF FinishParcel
      <4>2. parcel'[i] \in ParcelRow
        BY <4>1 DEF Settled, ParcelRow
      <4>3. parcel'[i].status = "delivered" => dispatcher[d].answer = "accepted"
        BY <4>1 DEF Settled
      <4> QED
        BY <3>1, <4>2, <4>3
    <3>2. CASE ~ (i \in dispatcher[d].current /\ OwnsClaim(d, i))
      <4>1. parcel'[i] = parcel[i]
        BY <1>3, <3>2 DEF FinishParcel
      <4> QED
        BY <4>1 DEF OutboxTypeOK, DeliveredWasAccepted
    <3> QED
      BY <3>1, <3>2
  <2>4. parcel' \in [Parcel -> ParcelRow]
    <3>1. \E f : parcel' = [i \in Parcel |-> f[i]]
      <4>1. parcel' = [i \in Parcel |-> parcel'[i]]
        BY <1>3 DEF FinishParcel
      <4> QED
        BY <4>1
    <3> QED
      BY <2>3, <3>1
  <2>5. OutboxTypeOK'
    BY <2>1, <2>2, <2>4 DEF OutboxTypeOK
  <2>6. DeliveredWasAccepted'
    BY <2>1, <2>3 DEF DeliveredWasAccepted
  <2> QED
    BY <2>1, <2>2, <2>5, <2>6
<1>4. CASE FinishRaises(d)
  <2> PICK s : s = [dispatcher[d] EXCEPT !.answer = "refused"]
    OBVIOUS
  <2>1. s \in DispatcherState /\ s.answer = "refused"
    BY <1>1 DEF DispatcherState
  <2>2. dispatcher' = [dispatcher EXCEPT ![d] = s] /\ UNCHANGED <<parcel, accepted, overruns, deaths>>
    BY <1>4 DEF FinishRaises, OutboxTypeOK
  <2> QED
    BY <1>1, <2>1, <2>2, DispatcherMoves
<1>5. CASE DispatcherDies(d)
  <2>1. Waiting \in DispatcherState /\ Waiting.answer = "none"
    BY DEF Waiting, DispatcherState
  <2>2. deaths' \in 0..DeathBound
    BY <1>1, <1>5 DEF DispatcherDies
  <2> QED
    BY <1>1, <1>5, <2>1, <2>2, DispatcherMoves DEF DispatcherDies
<1> QED
  BY <1>2, <1>3, <1>4, <1>5

LEMMA OutboxStep ==
  ASSUME OutboxInv, [OutboxNext]_outboxVars
  PROVE  OutboxInv'
<1>1. CASE UNCHANGED outboxVars
  BY <1>1 DEF outboxVars, OutboxInv, OutboxTypeOK, DeliveredWasAccepted
<1> QED
  BY <1>1, ParcelKeeps, ClaimParcelsKeeps, DispatcherKeeps DEF OutboxNext, DispatcherStep

\* The inductive invariant of the outbox: an accepted answer in hand was accepted.
THEOREM OutboxInvariance == OutboxSpec => []OutboxInv
<1>1. OutboxInv /\ [OutboxNext]_outboxVars => OutboxInv'
  BY OutboxStep
<1> QED
  BY <1>1, OutboxStart, PTL DEF OutboxSpec

\* No lost answer, slow dispatcher or claim taken over marks a parcel delivered that its
\* destination never accepted.
THEOREM EveryDeliveryWasAccepted == OutboxSpec => []DeliveredWasAccepted
<1>1. OutboxInv => DeliveredWasAccepted
  BY DEF OutboxInv
<1> QED
  BY <1>1, OutboxInvariance, PTL

\* As long as a claim is live, only its owner changes the row.
THEOREM LiveClaimsAreRespected == OutboxSpec => LiveClaimIsRespected
<1>1. ASSUME OutboxInv, OutboxNext, NEW i \in Parcel, NEW d \in Dispatcher,
             parcel[i].status = "processing", parcel[i].owner = d, parcel[i].expired = FALSE,
             parcel'[i].status # "processing" \/ parcel'[i].owner # d
      PROVE  i \in dispatcher[d].current /\ i \notin dispatcher'[d].current
  <2> USE <1>1 DEF OutboxInv
  <2>1. parcel'[i] # parcel[i] /\ parcel[i] \in ParcelRow
    BY DEF OutboxTypeOK
  <2>2. ASSUME NEW j \in Parcel, EnqueueParcel(j) \/ ClaimOverruns(j) \/ ClaimExpires(j) \/ RetryIsDue(j)
        PROVE  FALSE
    BY <2>1, <2>2 DEF EnqueueParcel, ClaimOverruns, ClaimExpires, RetryIsDue, OutboxTypeOK, ParcelRow
  <2>3. ASSUME NEW e \in Dispatcher, ClaimParcels(e)
        PROVE  FALSE
    <3>1. ~ ToClaim(i)
      BY DEF ToClaim
    <3> QED
      BY <2>1, <2>3, <3>1 DEF ClaimParcels
  <2>4. ASSUME NEW e \in Dispatcher, PostParcel(e) \/ FinishRaises(e) \/ DispatcherDies(e)
        PROVE  FALSE
    BY <2>1, <2>4 DEF PostParcel, FinishRaises, DispatcherDies
  <2>5. PICK e \in Dispatcher : FinishParcel(e)
    BY <2>2, <2>3, <2>4 DEF OutboxNext, DispatcherStep
  <2>6. i \in dispatcher[e].current /\ OwnsClaim(e, i)
    BY <2>1, <2>5 DEF FinishParcel
  <2>7. e = d
    BY <2>6 DEF OwnsClaim
  <2>8. dispatcher'[d].current = {}
    BY <2>5, <2>7 DEF FinishParcel, OutboxTypeOK, DispatcherState
  <2> QED
    BY <2>6, <2>7, <2>8
<1>2. OutboxInv /\ [OutboxNext]_outboxVars =>
         [\A i \in Parcel : \A d \in Dispatcher :
            /\ parcel[i].status = "processing" /\ parcel[i].owner = d /\ ~ parcel[i].expired
            /\ parcel'[i].status # "processing" \/ parcel'[i].owner # d
            => i \in dispatcher[d].current /\ i \notin dispatcher'[d].current
         ]_outboxVars
  <2> SUFFICES ASSUME OutboxInv, OutboxNext, NEW i \in Parcel, NEW d \in Dispatcher,
                      parcel[i].status = "processing", parcel[i].owner = d, ~ parcel[i].expired,
                      parcel'[i].status # "processing" \/ parcel'[i].owner # d
               PROVE  i \in dispatcher[d].current /\ i \notin dispatcher'[d].current
    OBVIOUS
  <2>1. parcel[i].expired = FALSE
    <3>1. parcel[i].expired \in BOOLEAN
      BY DEF OutboxInv, OutboxTypeOK, ParcelRow
    <3> QED
      BY <3>1
  <2> QED
    BY <1>1, <2>1
<1> QED
  BY <1>2, OutboxInvariance, PTL DEF OutboxSpec, LiveClaimIsRespected
-----------------------------------------------------------------------------
(* RenderQueue *)

\* Everybody at work on a row has one, and the workers between their count and their
\* claim are counted with the running rows they may add to.
Aimed ==
    /\ \A w \in RenderWorker : renderer[w].at \in {"found", "rendering"} => renderer[w].job \in Render
    /\ \A e \in Editor : editor[e].op # "none" =>
          /\ editor[e].job \in Render
          /\ editor[e].saw = "RUNNING" => editor[e].op \in {"recover", "sweep"}

Eager == {w \in RenderWorker : renderer[w].at \in {"counted", "found"}}

Capped == Cardinality(Running) + Cardinality(Eager) < MaxRunning + Cardinality(RenderWorker)

RenderInv == RenderTypeOK /\ Aimed /\ RenderingIsOwned /\ Capped

LEMMA CountsAreNumbers ==
  /\ IsFiniteSet(Running) /\ IsFiniteSet(Eager)
  /\ Cardinality(Running) \in Nat /\ Cardinality(Eager) \in Nat
  /\ Cardinality(RenderWorker) \in Nat
<1>1. Running \subseteq Render /\ Eager \subseteq RenderWorker
  BY DEF Running, Eager
<1> QED
  BY <1>1, RenderAssumption, FS_Subset, FS_CardinalityType

LEMMA RenderStart == RenderInit => RenderInv
<1> SUFFICES ASSUME RenderInit PROVE RenderInv
  OBVIOUS
<1> USE RenderAssumption DEF RenderInit
<1>1. RenderTypeOK
  BY DEF RenderTypeOK, RenderRow, RendererState, Unoccupied, EditorState, Answered
<1>2. Aimed
  BY DEF Aimed, Unoccupied, Answered
<1>3. RenderingIsOwned
  BY DEF RenderingIsOwned, Renders, Unoccupied
<1>4. Capped
  <2>1. Running = {} /\ Eager = {}
    BY DEF Running, Eager, Unoccupied
  <2> QED
    BY <2>1, FS_EmptySet, CountsAreNumbers DEF Capped
<1> QED
  BY <1>1, <1>2, <1>3, <1>4 DEF RenderInv

\* Fewer running rows and fewer eager workers.
LEMMA StaysCapped ==
  ASSUME RenderInv, Running' \subseteq Running, Eager' \subseteq Eager
  PROVE  Capped'
<1>1. /\ Cardinality(Running') <= Cardinality(Running)
      /\ Cardinality(Eager') <= Cardinality(Eager)
      /\ Cardinality(Running') \in Nat /\ Cardinality(Eager') \in Nat
  BY CountsAreNumbers, FS_Subset, FS_CardinalityType
<1> QED
  BY <1>1, CountsAreNumbers, RenderAssumption DEF RenderInv, Capped

\* The rows that are made, and those that run for long.
LEMMA RowKeeps ==
  ASSUME RenderInv, NEW j \in Render, CreateRender(j) \/ RunsLate(j)
  PROVE  RenderInv'
<1> USE DEF RenderInv
<1>1. UNCHANGED <<renderer, editor, overtaken, interventions, stops>> /\ render[j] \in RenderRow
  BY DEF CreateRender, RunsLate, RenderTypeOK
<1>2. PICK r \in RenderRow :
         /\ render' = [render EXCEPT ![j] = r]
         /\ \/ r.status = "PENDING" /\ ~r.locked /\ render[j].status = "none"
            \/ r.status = "RUNNING" /\ render[j].status = "RUNNING" /\ r.locked = render[j].locked
  <2>1. CASE CreateRender(j)
    <3>1. Rewritten(render[j], "PENDING", FALSE) \in RenderRow
      BY <1>1 DEF Rewritten, RenderRow
    <3> QED
      BY <2>1, <3>1 DEF CreateRender, Rewritten
  <2>2. CASE RunsLate(j)
    <3>1. [render[j] EXCEPT !.late = TRUE] \in RenderRow
      BY <1>1 DEF RenderRow
    <3> QED
      BY <1>1, <2>2, <3>1 DEF RunsLate, RenderRow
  <2> QED
    BY <2>1, <2>2
<1>3. RenderTypeOK' /\ Aimed'
  BY <1>1, <1>2 DEF RenderTypeOK, Aimed
<1>4. RenderingIsOwned'
  BY <1>1, <1>2 DEF RenderingIsOwned, Renders, RenderTypeOK
<1>5. Running' \subseteq Running /\ Eager' \subseteq Eager
  BY <1>1, <1>2 DEF Running, Eager, RenderTypeOK
<1> QED
  BY <1>3, <1>4, <1>5, StaysCapped

\* The reads of a worker, and its way back.
LEMMA LookKeeps ==
  ASSUME RenderInv, NEW w \in RenderWorker,
         \/ CountRunning(w) \/ FindNothing(w) \/ MissRender(w) \/ StopWorker(w)
         \/ \E j \in Render : FindRender(w, j)
  PROVE  RenderInv'
<1> USE DEF RenderInv
<1>1. UNCHANGED <<render, editor, overtaken, interventions>> /\ stops' \in Nat
  BY DEF CountRunning, FindNothing, MissRender, StopWorker, FindRender, RenderTypeOK
<1>2. renderer[w] \in RendererState
  BY DEF RenderTypeOK
<1>3. PICK l \in RendererState :
         /\ renderer' = [renderer EXCEPT ![w] = l]
         /\ l.at # "rendering"
         /\ l.at = "found" => l.job \in Render
         /\ l.at \in {"counted", "found"} => w \in Eager \/ Cardinality(Running) < MaxRunning
  <2>1. CASE CountRunning(w)
    <3>1. [renderer[w] EXCEPT !.at = "counted"] \in RendererState
      BY <1>2 DEF RendererState
    <3> QED
      BY <1>2, <2>1, <3>1 DEF CountRunning, MayStart, RendererState
  <2>2. CASE FindNothing(w) \/ MissRender(w) \/ StopWorker(w)
    <3>1. Unoccupied \in RendererState /\ Unoccupied.at = "idle"
      BY DEF Unoccupied, RendererState
    <3> QED
      BY <2>2, <3>1 DEF FindNothing, MissRender, StopWorker
  <2>3. ASSUME NEW j \in Render, FindRender(w, j)
        PROVE  \E l \in RendererState :
                  /\ renderer' = [renderer EXCEPT ![w] = l]
                  /\ l.at # "rendering"
                  /\ l.at = "found" => l.job \in Render
                  /\ l.at \in {"counted", "found"} => w \in Eager \/ Cardinality(Running) < MaxRunning
    <3>1. [at |-> "found", job |-> j] \in RendererState
      BY DEF RendererState
    <3>2. w \in Eager
      BY <2>3 DEF FindRender, Eager
    <3> QED
      BY <2>3, <3>1, <3>2 DEF FindRender
  <2> QED
    BY <2>1, <2>2, <2>3
<1>4. RenderTypeOK'
  BY <1>1, <1>3 DEF RenderTypeOK
<1>5. Aimed'
  BY <1>1, <1>3 DEF Aimed, RenderTypeOK
<1>6. RenderingIsOwned'
  <2>1. \A v \in RenderWorker, j \in Render : Renders(v, j)' => Renders(v, j)
    BY <1>3 DEF Renders, RenderTypeOK
  <2> QED
    BY <1>1, <2>1 DEF RenderingIsOwned
<1>7. Running' = Running
  BY <1>1 DEF Running
<1>8. Capped'
  <2>1. CASE Eager' \subseteq Eager
    BY <1>7, <2>1, StaysCapped
  <2>2. CASE ~(Eager' \subseteq Eager)
    <3>1. Cardinality(Running) < MaxRunning
      BY <1>3, <2>2 DEF Eager, RenderTypeOK
    <3>2. Eager' \subseteq RenderWorker
      BY DEF Eager
    <3>3. Cardinality(Eager') <= Cardinality(RenderWorker) /\ Cardinality(Eager') \in Nat
      BY <3>2, RenderAssumption, FS_Subset, FS_CardinalityType
    <3> QED
      BY <1>7, <3>1, <3>3, CountsAreNumbers, RenderAssumption DEF Capped
  <2> QED
    BY <2>1, <2>2
<1> QED
  BY <1>4, <1>5, <1>6, <1>8

LEMMA TakeKeeps ==
  ASSUME RenderInv, NEW w \in RenderWorker, TakeRender(w)
  PROVE  RenderInv'
<1> USE DEF RenderInv
<1> DEFINE j == renderer[w].job
           r == [status |-> "RUNNING", attempts |-> render[j].attempts + 1,
                 locked |-> TRUE, late |-> FALSE]
<1>1. j \in Render /\ render[j] \in RenderRow /\ renderer[w] \in RendererState
  BY DEF TakeRender, Aimed, RenderTypeOK
<1>2. /\ render' = [render EXCEPT ![j] = r]
      /\ renderer' = [renderer EXCEPT ![w] = [renderer[w] EXCEPT !.at = "rendering"]]
      /\ render[j].status = "PENDING" /\ renderer[w].at = "found"
      /\ UNCHANGED <<editor, interventions, stops>>
  BY DEF TakeRender, Untaken
<1>3. overtaken' \subseteq overtaken
      /\ \A k \in overtaken \ overtaken' : k = j /\ \A v \in RenderWorker : ~Renders(v, j)
  BY DEF TakeRender
<1>4. r \in RenderRow /\ [renderer[w] EXCEPT !.at = "rendering"] \in RendererState
  BY <1>1 DEF RenderRow, RendererState
<1>5. RenderTypeOK'
  BY <1>2, <1>3, <1>4 DEF RenderTypeOK
<1>6. Aimed'
  BY <1>1, <1>2 DEF Aimed, RenderTypeOK, RendererState
<1>7. \A k \in Render : render'[k] = IF k = j THEN r ELSE render[k]
  BY <1>2 DEF RenderTypeOK
<1>8. \A v \in RenderWorker, k \in Render :
         Renders(v, k)' <=> Renders(v, k) \/ (v = w /\ k = j)
  BY <1>1, <1>2 DEF Renders, RenderTypeOK, RendererState
<1>9. RenderingIsOwned'
  <2> SUFFICES ASSUME NEW k \in Render
               PROVE  /\ render'[k].status = "PENDING" => ~render'[k].locked
                      /\ \A v \in RenderWorker : k \notin overtaken' /\ Renders(v, k)' =>
                            /\ render'[k].status = "RUNNING" /\ render'[k].locked
                            /\ \A u \in RenderWorker : Renders(u, k)' => u = v
    BY DEF RenderingIsOwned
  <2>1. CASE k # j
    BY <1>3, <1>7, <1>8, <2>1 DEF RenderingIsOwned
  <2>2. CASE k = j
    <3>1. j \notin overtaken' => \A v \in RenderWorker : ~Renders(v, j)
      BY <1>1, <1>2, <1>3 DEF RenderingIsOwned
    <3> QED
      BY <1>7, <1>8, <2>2, <3>1
  <2> QED
    BY <2>1, <2>2
<1>10. Capped'
  <2>1. Running' = Running \union {j} /\ j \notin Running
    BY <1>1, <1>2, <1>7 DEF Running
  <2>2. Eager' = Eager \ {w} /\ w \in Eager
    BY <1>1, <1>2 DEF Eager, RenderTypeOK, RendererState
  <2>3. Cardinality(Running') = Cardinality(Running) + 1
    BY <2>1, CountsAreNumbers, FS_AddElement
  <2>4. Cardinality(Eager') = Cardinality(Eager) - 1
    BY <2>2, CountsAreNumbers, FS_RemoveElement
  <2> QED
    BY <2>3, <2>4, CountsAreNumbers, RenderAssumption DEF Capped
<1> QED
  BY <1>5, <1>6, <1>9, <1>10

LEMMA EndKeeps ==
  ASSUME RenderInv, NEW w \in RenderWorker, EndRender(w)
  PROVE  RenderInv'
<1> USE DEF RenderInv
<1> DEFINE j == renderer[w].job
<1>1. j \in Render /\ render[j] \in RenderRow
  BY DEF EndRender, Aimed, RenderTypeOK
<1>2. PICK st \in {"COMPLETED", "FAILED"} :
         render' = [render EXCEPT ![j] = Rewritten(render[j], st, FALSE)]
  BY DEF EndRender
<1>3. /\ renderer' = [renderer EXCEPT ![w] = Unoccupied] /\ Renders(w, j)
      /\ UNCHANGED <<editor, overtaken, interventions, stops>>
  BY DEF EndRender, Renders
<1>4. Rewritten(render[j], st, FALSE) \in RenderRow
      /\ Rewritten(render[j], st, FALSE).status = st
  BY <1>1 DEF Rewritten, RenderRow
<1>5. \A k \in Render : render'[k] = IF k = j THEN Rewritten(render[j], st, FALSE) ELSE render[k]
  BY <1>2 DEF RenderTypeOK
<1>6. RenderTypeOK'
  BY <1>2, <1>3, <1>4 DEF RenderTypeOK, Unoccupied, RendererState
<1>7. Aimed'
  BY <1>3 DEF Aimed, RenderTypeOK, Unoccupied
<1>8. \A v \in RenderWorker, k \in Render : Renders(v, k)' <=> Renders(v, k) /\ v # w
  BY <1>3 DEF Renders, RenderTypeOK, Unoccupied
<1>9. RenderingIsOwned'
  <2> SUFFICES ASSUME NEW k \in Render
               PROVE  /\ render'[k].status = "PENDING" => ~render'[k].locked
                      /\ \A v \in RenderWorker : k \notin overtaken' /\ Renders(v, k)' =>
                            /\ render'[k].status = "RUNNING" /\ render'[k].locked
                            /\ \A u \in RenderWorker : Renders(u, k)' => u = v
    BY DEF RenderingIsOwned
  <2>1. CASE k # j
    BY <1>3, <1>5, <1>8, <2>1 DEF RenderingIsOwned
  <2>2. CASE k = j
    BY <1>1, <1>3, <1>4, <1>5, <1>8, <2>2 DEF RenderingIsOwned
  <2> QED
    BY <2>1, <2>2
<1>10. Running' \subseteq Running /\ Eager' \subseteq Eager
  BY <1>3, <1>4, <1>5 DEF Running, Eager, RenderTypeOK, Unoccupied
<1> QED
  BY <1>6, <1>7, <1>9, <1>10, StaysCapped

\* The reads of handlers and scripts, and their refusals.
LEMMA RowReadKeeps ==
  ASSUME RenderInv, NEW e \in Editor,
         \/ RefuseRow(e)
         \/ \E j \in Render, op \in {"retry", "cancel", "recover", "sweep", "repair"} :
               ReadRow(e, op, j)
  PROVE  RenderInv'
<1> USE DEF RenderInv
<1> DEFINE Points(h) == h.op # "none" =>
                        /\ h.job \in Render
                        /\ h.saw = "RUNNING" => h.op \in {"recover", "sweep"}
<1>1. UNCHANGED <<render, renderer, overtaken, stops>> /\ interventions' \in Nat
  BY DEF RefuseRow, ReadRow, RenderTypeOK
<1>2. PICK h \in EditorState :
         editor' = [editor EXCEPT ![e] = h] /\ Points(h)
  <2>1. CASE RefuseRow(e)
    <3>1. Answered \in EditorState /\ Answered.op = "none"
      BY DEF Answered, EditorState
    <3> QED
      BY <2>1, <3>1 DEF RefuseRow
  <2>2. ASSUME NEW j \in Render, NEW op \in {"retry", "cancel", "recover", "sweep", "repair"},
               ReadRow(e, op, j)
        PROVE  \E h \in EditorState :
                  editor' = [editor EXCEPT ![e] = h] /\ Points(h)
    <3>1. [op |-> op, job |-> j, saw |-> render[j].status] \in EditorState
      BY DEF EditorState, RenderTypeOK, RenderRow
    <3> QED
      BY <2>2, <3>1 DEF ReadRow, Accepts
  <2> QED
    BY <2>1, <2>2
<1>3. RenderTypeOK' /\ Aimed'
  BY <1>1, <1>2 DEF RenderTypeOK, Aimed
<1>4. RenderingIsOwned'
  BY <1>1 DEF RenderingIsOwned, Renders
<1>5. Running' = Running /\ Eager' = Eager
  BY <1>1 DEF Running, Eager
<1> QED
  BY <1>3, <1>4, <1>5, StaysCapped

\* A write never makes a row run, nor pending and locked; where the row is no longer
\* what was read, or was declared stale, it is counted as overtaken.
LEMMA WriteKeeps ==
  ASSUME RenderInv, NEW e \in Editor, WriteRow(e)
  PROVE  RenderInv'
<1> USE DEF RenderInv
<1> DEFINE j == editor[e].job
           r == Edited(editor[e].op, render[j])
<1>1. j \in Render /\ render[j] \in RenderRow /\ editor[e] \in EditorState
  BY DEF WriteRow, Aimed, RenderTypeOK
<1>2. /\ render' = [render EXCEPT ![j] = r]
      /\ editor' = [editor EXCEPT ![e] = Answered]
      /\ UNCHANGED <<renderer, interventions, stops>>
      /\ overtaken' \in {overtaken, overtaken \union {j}}
  BY DEF WriteRow
<1>3. editor[e].op \in {"retry", "cancel", "recover", "sweep", "repair"}
  BY <1>1 DEF WriteRow, EditorState
<1>4. /\ r \in RenderRow /\ (r.status = "RUNNING" => FALSE)
      /\ r.status = "PENDING" => ~r.locked \/ r = render[j]
  BY <1>1, <1>3 DEF Edited, Rewritten, RenderRow
<1> HIDE DEF r
<1>5. \A k \in Render : render'[k] = IF k = j THEN r ELSE render[k]
  BY <1>2 DEF RenderTypeOK
<1>6. RenderTypeOK'
  BY <1>1, <1>2, <1>4 DEF RenderTypeOK, Answered, EditorState
<1>7. Aimed'
  BY <1>2 DEF Aimed, RenderTypeOK, Answered
<1>8. \A v \in RenderWorker, k \in Render : Renders(v, k)' <=> Renders(v, k)
  BY <1>2 DEF Renders
<1>9. ASSUME NEW v \in RenderWorker, Renders(v, j)
      PROVE  j \in overtaken'
  <2>1. CASE j \in overtaken
    BY <1>2, <2>1
  <2>2. CASE j \notin overtaken
    <3>1. render[j].status = "RUNNING"
      BY <1>1, <1>9, <2>2 DEF RenderingIsOwned
    <3> QED
      BY <1>3, <3>1 DEF WriteRow, Aimed
  <2> QED
    BY <2>1, <2>2
<1>10. RenderingIsOwned'
  <2> SUFFICES ASSUME NEW k \in Render
               PROVE  /\ render'[k].status = "PENDING" => ~render'[k].locked
                      /\ \A v \in RenderWorker : k \notin overtaken' /\ Renders(v, k)' =>
                            /\ render'[k].status = "RUNNING" /\ render'[k].locked
                            /\ \A u \in RenderWorker : Renders(u, k)' => u = v
    BY DEF RenderingIsOwned
  <2>1. CASE k # j
    BY <1>2, <1>5, <1>8, <2>1 DEF RenderingIsOwned
  <2>2. CASE k = j
    BY <1>1, <1>4, <1>5, <1>8, <1>9, <2>2 DEF RenderingIsOwned
  <2> QED
    BY <2>1, <2>2
<1>11. Running' \subseteq Running /\ Eager' \subseteq Eager
  BY <1>2, <1>4, <1>5 DEF Running, Eager
<1> QED
  BY <1>6, <1>7, <1>10, <1>11, StaysCapped

LEMMA RenderStepKeeps == RenderInv /\ [RenderNext]_renderVars => RenderInv'
<1> SUFFICES ASSUME RenderInv, [RenderNext]_renderVars PROVE RenderInv'
  OBVIOUS
<1>1. CASE UNCHANGED renderVars
  BY <1>1 DEF renderVars, RenderInv, RenderTypeOK, Aimed, RenderingIsOwned, Capped, Running,
     Eager, Renders
<1>2. CASE RenderNext
  BY <1>2, RowKeeps, LookKeeps, TakeKeeps, EndKeeps, RowReadKeeps, WriteKeeps DEF RenderNext
<1> QED
  BY <1>1, <1>2

\* The inductive invariant of the render queue.
THEOREM RenderInvariance == RenderSpec => []RenderInv
  BY RenderStart, RenderStepKeeps, PTL DEF RenderSpec

\* The rows, the workers, the handlers and the scripts are well typed.
THEOREM RenderTypeCorrect == RenderSpec => []RenderTypeOK
<1>1. RenderInv => RenderTypeOK
  BY DEF RenderInv
<1> QED
  BY <1>1, RenderInvariance, PTL

\* Claims alone never put two workers on one job, and no pending row is ever locked.
THEOREM RendersAreOwned == RenderSpec => []RenderingIsOwned
<1>1. RenderInv => RenderingIsOwned
  BY DEF RenderInv
<1> QED
  BY <1>1, RenderInvariance, PTL

\* The limit on running jobs is exceeded by at most one for each further worker.
THEOREM RunningStaysCapped == RenderSpec => []RunningIsCapped
<1>1. RenderInv => RunningIsCapped
  BY CountsAreNumbers, RenderAssumption DEF RenderInv, Capped, RunningIsCapped
<1> QED
  BY <1>1, RenderInvariance, PTL

-----------------------------------------------------------------------------
(* ActionGateway *)

LEMMA PlainTyped == \A text \in StateText : Plain(text) \in StateFile
  BY DEF Plain, StateFile

LEMMA ServedTyped ==
  /\ Served \in GatewayRequest /\ DefaultState \in StateFile /\ NoWrite \in GatewayWriter
  /\ Served.at = "idle" /\ NoWrite.at = "idle"
<1>1. DefaultState \in StateFile
  BY PlainTyped DEF DefaultState, StateText
<1> QED
  BY <1>1 DEF Served, GatewayRequest, ActionStatus, NoWrite, GatewayWriter

\* Those that write the preference have an action to write it for.
Armed == \A c \in GatewayClient : request[c].at \in {"apply", "undo"} => request[c].events # {}

LEMMA LoggedTyped ==
  ASSUME GatewayTypeOK, NEW a \in Action, NEW v \in ActionStatus
  PROVE  Logged(a, v) \in [Action -> ActionStatus]
  BY DEF GatewayTypeOK, Logged

LEMMA EnterTyped ==
  ASSUME GatewayTypeOK, NEW c \in GatewayClient, NEW at, NEW events, NEW verdict,
         at \in {"idle", "execute", "apply", "rollback", "undo", "stop", "revoke", "resume", "log"},
         events \in SUBSET Action, verdict \in ActionStatus, Enter(c, at, events, verdict)
  PROVE  /\ request' \in [GatewayClient -> GatewayRequest]
         /\ request'[c].at = at /\ request'[c].events = events /\ request'[c].verdict = verdict
         /\ request'[c].copy = request[c].copy
         /\ \A d \in GatewayClient \ {c} : request'[d] = request[d]
  BY DEF GatewayTypeOK, GatewayRequest, Enter

LEMMA FinishedTyped ==
  ASSUME GatewayTypeOK, NEW c \in GatewayClient, Finished(c)
  PROVE  /\ request' \in [GatewayClient -> GatewayRequest]
         /\ request'[c] = Served
         /\ \A d \in GatewayClient \ {c} : request'[d] = request[d]
  BY ServedTyped DEF GatewayTypeOK, Finished

LEMMA DroppedTyped ==
  ASSUME GatewayTypeOK, NEW c
  PROVE  Dropped(c) \in [Performer -> SUBSET Action]
  BY DEF GatewayTypeOK, Dropped

LEMMA AbortTyped ==
  ASSUME GatewayTypeOK, NEW c \in GatewayClient, Abort(c)
  PROVE  /\ request' \in [GatewayClient -> GatewayRequest]
         /\ listed' \in [Performer -> SUBSET Action]
         /\ parted' \in SUBSET Action /\ halted' \in SUBSET Action
<1>1. Cut(c) \subseteq Action
  BY DEF GatewayTypeOK, GatewayRequest, Cut
<1> QED
  BY <1>1, FinishedTyped, DroppedTyped DEF Abort, GatewayTypeOK

LEMMA RequestTyped ==
  ASSUME GatewayTypeOK, NEW c \in GatewayClient
  PROVE  /\ request[c].events \in SUBSET Action
         /\ request[c].verdict \in ActionStatus
         /\ request[c].copy \in StateFile
  BY DEF GatewayTypeOK, GatewayRequest

\* A change of one preference or one switch is a state that can be read.
LEMMA NewStateTyped ==
  ASSUME GatewayTypeOK, NEW c \in GatewayClient, request[c].at \in Writing,
         request[c].at \in {"apply", "undo"} => request[c].events # {}
  PROVE  NewState(c) \in StateFile /\ NewState(c).text = "full"
<1>1. request[c].copy \in StateFile /\ request[c].events \in SUBSET Action
  BY RequestTyped
<1> PICK kept : kept = [request[c].copy EXCEPT !.text = "full"]
  OBVIOUS
<1>2. kept \in StateFile /\ kept.text = "full"
  BY <1>1 DEF StateFile, StateText
<1>3. CASE request[c].at \in {"stop", "resume"}
  <2>1. NewState(c) = [kept EXCEPT !.emergencyStop = request[c].at = "stop"]
    BY <1>3 DEF NewState
  <2> QED
    BY <1>2, <2>1 DEF StateFile
<1>4. CASE request[c].at \in {"apply", "undo"}
  <2> PICK a : a = CHOOSE e \in request[c].events : TRUE
    OBVIOUS
  <2>1. a \in Action
    BY <1>1, <1>4
  <2>2. NewState(c) = [kept EXCEPT !.preference =
           IF request[c].at = "apply" THEN preview[a].next ELSE preview[a].previous]
    BY <1>4 DEF NewState
  <2>3. preview[a].next \in Setting \union {Unset} /\ preview[a].previous \in Setting \union {Unset}
    BY <2>1 DEF GatewayTypeOK, Preview
  <2> QED
    BY <1>2, <2>2, <2>3 DEF StateFile
<1> QED
  BY <1>3, <1>4 DEF Writing

LEMMA OverTyped ==
  ASSUME NEW old \in StateFile, NEW new \in StateFile
  PROVE  Over(old, new) \in StateFile
  BY PlainTyped DEF Over, StateText

\* What a write leaves of the files, and of who has them open.
LEMMA PutTyped ==
  ASSUME GatewayTypeOK, NEW x \in GatewayClient \union Visitor, NEW new \in StateFile,
         Put(x, new)
  PROVE  temp' \in StateFile /\ stateFile' \in StateFile
  BY OverTyped DEF Put, GatewayTypeOK

LEMMA OpenTempTyped ==
  ASSUME GatewayTypeOK, NEW x \in GatewayClient \union Visitor, OpenTemp(x)
  PROVE  /\ temp' \in StateFile /\ stateFile' \in StateFile
         /\ writer' \in [GatewayClient \union Visitor -> GatewayWriter]
         /\ writer'[x] = [at |-> "fill", file |-> "temp"]
         /\ \A y \in GatewayClient \union Visitor : y # x => writer'[y] = writer[y]
<1>1. temp' \in StateFile
  BY PlainTyped DEF OpenTemp, StateText
<1> QED
  BY <1>1 DEF OpenTemp, GatewayTypeOK, GatewayWriter

LEMMA FillTempTyped ==
  ASSUME GatewayTypeOK, NEW x \in GatewayClient \union Visitor, NEW new \in StateFile,
         FillTemp(x, new)
  PROVE  /\ temp' \in StateFile /\ stateFile' \in StateFile
         /\ writer' \in [GatewayClient \union Visitor -> GatewayWriter]
         /\ writer'[x] = [at |-> "rename", file |-> "temp"]
         /\ \A y \in GatewayClient \union Visitor : y # x => writer'[y] = writer[y]
<1>1. temp' \in StateFile /\ stateFile' \in StateFile
  BY PutTyped DEF FillTemp
<1> QED
  BY <1>1 DEF FillTemp, GatewayTypeOK, GatewayWriter

LEMMA RenameTempTyped ==
  ASSUME GatewayTypeOK, NEW x \in GatewayClient \union Visitor, RenameTemp(x)
  PROVE  /\ temp' \in StateFile /\ stateFile' \in StateFile
         /\ writer' \in [GatewayClient \union Visitor -> GatewayWriter]
         /\ writer'[x] = NoWrite
         /\ \A y \in GatewayClient \union Visitor : y # x => writer'[y].at = writer[y].at
<1>1. temp' \in StateFile /\ stateFile' \in StateFile
  BY PlainTyped DEF RenameTemp, StateText, GatewayTypeOK
<1>2. \A y \in GatewayClient \union Visitor :
         writer'[y] = IF y = x THEN NoWrite
                      ELSE IF writer[y].at # "fill" THEN writer[y]
                      ELSE [writer[y] EXCEPT !.file = IF @ = "temp" THEN "state" ELSE "gone"]
  BY DEF RenameTemp, Renamed, GatewayTypeOK
<1>3. ASSUME NEW y \in GatewayClient \union Visitor
      PROVE  /\ writer'[y] \in GatewayWriter
             /\ y # x => writer'[y].at = writer[y].at
  <2>1. writer[y] \in GatewayWriter
    BY DEF GatewayTypeOK
  <2> QED
    BY <1>2, <2>1, ServedTyped DEF GatewayWriter
<1>4. writer' \in [GatewayClient \union Visitor -> GatewayWriter]
  <2>1. writer' = [y \in GatewayClient \union Visitor |-> writer'[y]]
    BY DEF RenameTemp, Renamed, GatewayTypeOK
  <2> QED
    BY <1>3, <2>1
<1> QED
  BY <1>1, <1>2, <1>3, <1>4

LEMMA NoWriteTyped ==
  ASSUME GatewayTypeOK, NEW x \in GatewayClient \union Visitor,
         writer' = [writer EXCEPT ![x] = NoWrite]
  PROVE  /\ writer' \in [GatewayClient \union Visitor -> GatewayWriter]
         /\ writer'[x] = NoWrite
         /\ \A y \in GatewayClient \union Visitor : y # x => writer'[y] = writer[y]
  BY ServedTyped DEF GatewayTypeOK

\* A visitor only notes whom it disturbs.
LEMMA DisturbedTyped ==
  ASSUME GatewayTypeOK, request' = Disturbed
  PROVE  /\ request' \in [GatewayClient -> GatewayRequest]
         /\ \A c \in GatewayClient :
               /\ request'[c].at = request[c].at /\ request'[c].copy = request[c].copy
               /\ request'[c].events = request[c].events
               /\ request'[c].verdict = request[c].verdict
               /\ request'[c].disturbed <=>
                     \/ request[c].disturbed
                     \/ /\ request[c].at \in Writing
                        /\ stateFile' # stateFile \/ writer[c].at # "idle"
<1>1. ASSUME NEW c \in GatewayClient
      PROVE  \E d \in BOOLEAN : /\ request'[c] = [request[c] EXCEPT !.disturbed = d]
                                /\ d <=> \/ request[c].disturbed
                                         \/ /\ request[c].at \in Writing
                                            /\ stateFile' # stateFile \/ writer[c].at # "idle"
  BY Zenon DEF Disturbed
<1>2. request' = [c \in GatewayClient |-> request'[c]]
  BY DEF Disturbed
<1>3. \A c \in GatewayClient : request[c] \in GatewayRequest
  BY DEF GatewayTypeOK
<1>4. \A c \in GatewayClient : request'[c] \in GatewayRequest
  BY <1>1, <1>3 DEF GatewayRequest
<1> QED
  BY <1>1, <1>2, <1>3, <1>4 DEF GatewayRequest

LEMMA GatewayNextTyped ==
  ASSUME GatewayTypeOK, Armed, [GatewayNext]_gatewayVars
  PROVE  GatewayTypeOK'
<1> USE DEF fileVars
<1>1. CASE UNCHANGED gatewayVars
  BY <1>1 DEF GatewayTypeOK, gatewayVars
<1>2. CASE WindowEnds
  BY <1>2, GatewayAssumption DEF WindowEnds, GatewayTypeOK
<1>3. CASE ServerDies
  <2>1. UNION {Cut(c) : c \in GatewayClient} \subseteq Action
    BY DEF GatewayTypeOK, GatewayRequest, Cut
  <2>2. request' \in [GatewayClient -> GatewayRequest]
    BY <1>3, ServedTyped DEF ServerDies
  <2>3. torn' \in BOOLEAN
    BY <1>3 DEF ServerDies, GatewayTypeOK
  <2>4. listed' \in [Performer -> SUBSET Action]
    BY <1>3 DEF ServerDies, GatewayTypeOK
  <2>5. parted' \in SUBSET Action /\ halted' \in SUBSET Action
    BY <1>3, <2>1 DEF ServerDies, GatewayTypeOK
  <2>6. accidents' \in 0..AccidentBound
    <3>1. accidents < AccidentBound /\ accidents' = accidents + 1
      BY <1>3 DEF ServerDies
    <3>2. accidents \in 0..AccidentBound
      BY DEF GatewayTypeOK
    <3> QED
      BY <3>1, <3>2, GatewayAssumption
  <2>7. jammed' = FALSE /\ UNCHANGED <<stateFile, temp, status, preview, previewed, overdue, written>>
    BY <1>3 DEF ServerDies
  <2>8. writer' \in [GatewayClient \union Visitor -> GatewayWriter]
    BY <1>3, ServedTyped DEF ServerDies
  <2> QED
    BY <2>2, <2>3, <2>4, <2>5, <2>6, <2>7, <2>8 DEF GatewayTypeOK
<1>4. ASSUME NEW c \in GatewayClient, PreviewAction(c) PROVE GatewayTypeOK'
  <2>1. previewed' \in Action /\ previewed' \in 0..ActionCount
    BY <1>4, GatewayAssumption DEF PreviewAction, GatewayTypeOK, Action
  <2>2. request' \in [GatewayClient -> GatewayRequest]
    BY <1>4, <2>1, EnterTyped DEF PreviewAction, ActionStatus
  <2>3. preview' \in [Action -> Preview]
    BY <1>4, <2>1 DEF PreviewAction, GatewayTypeOK, Preview, StateFile
  <2> QED
    BY <1>4, <2>1, <2>2, <2>3 DEF PreviewAction, GatewayTypeOK
<1>5. ASSUME NEW c \in GatewayClient, ApproveAction(c) PROVE GatewayTypeOK'
  <2>1. request' \in [GatewayClient -> GatewayRequest]
    BY <1>5, EnterTyped DEF ApproveAction, ActionStatus
  <2> QED
    BY <1>5, <2>1 DEF ApproveAction, GatewayTypeOK
<1>6. ASSUME NEW c \in GatewayClient, RollBackAction(c) PROVE GatewayTypeOK'
  <2>1. request' \in [GatewayClient -> GatewayRequest]
    BY <1>6, EnterTyped DEF RollBackAction, ActionStatus
  <2> QED
    BY <1>6, <2>1 DEF RollBackAction, GatewayTypeOK
<1>7. ASSUME NEW c \in GatewayClient, SwitchActions(c) PROVE GatewayTypeOK'
  <2>1. PICK at \in {"stop", "resume"} :
             request' = [request EXCEPT ![c].at = at, ![c].copy = stateFile]
    BY <1>7 DEF SwitchActions
  <2>2. request' \in [GatewayClient -> GatewayRequest]
    <3>1. [request[c] EXCEPT !.at = at, !.copy = stateFile] \in GatewayRequest
      BY DEF GatewayTypeOK, GatewayRequest
    <3>2. request' = [request EXCEPT ![c] = [request[c] EXCEPT !.at = at, !.copy = stateFile]]
      BY <2>1 DEF GatewayTypeOK
    <3> QED
      BY <3>1, <3>2 DEF GatewayTypeOK
  <2> QED
    BY <1>7, <2>2 DEF SwitchActions, GatewayTypeOK
<1>8. ASSUME NEW w \in Performer, ListApproved(w) PROVE GatewayTypeOK'
  BY <1>8 DEF ListApproved, GatewayTypeOK
<1>9. ASSUME NEW w \in Performer, ExecuteAction(w) PROVE GatewayTypeOK'
  <2>1. w \in GatewayClient
    BY DEF GatewayClient
  <2>2. PICK a \in listed[w] : ExecuteAction(w)!2!(a)
    BY <1>9 DEF ExecuteAction
  <2>3. a \in Action /\ [listed EXCEPT ![w] = @ \ {a}] \in [Performer -> SUBSET Action]
    BY DEF GatewayTypeOK
  <2>4. listed' \in [Performer -> SUBSET Action]
    BY <2>2, <2>3, DroppedTyped
  <2>5. request' \in [GatewayClient -> GatewayRequest]
    BY <2>1, <2>2, <2>3, EnterTyped DEF ActionStatus, GatewayTypeOK
  <2> QED
    BY <1>9, <2>4, <2>5 DEF ExecuteAction, GatewayTypeOK
<1>10. ASSUME NEW c \in GatewayClient, CompareState(c) PROVE GatewayTypeOK'
  <2>1. request' \in [GatewayClient -> GatewayRequest]
    BY <1>10, FinishedTyped DEF CompareState, GatewayTypeOK, GatewayRequest
  <2>2. listed' \in [Performer -> SUBSET Action]
    BY <1>10, DroppedTyped DEF CompareState, GatewayTypeOK
  <2> QED
    BY <1>10, <2>1, <2>2 DEF CompareState, GatewayTypeOK
<1>11. ASSUME NEW c \in GatewayClient, SetPreference(c) PROVE GatewayTypeOK'
  <2>1. request' \in [GatewayClient -> GatewayRequest]
    BY <1>11 DEF SetPreference, GatewayTypeOK, GatewayRequest
  <2>2. PICK a \in request[c].events : written' = [written EXCEPT ![a] =
           IF request[c].at = "apply" THEN "applied" ELSE "undone"]
    BY <1>11 DEF SetPreference
  <2>3. a \in Action /\ request[c].events \in SUBSET Action
    BY <2>2, RequestTyped
  <2>4. written' \in [Action -> {"nothing", "applied", "undone"}]
    BY <2>2, <2>3 DEF GatewayTypeOK
  <2>5. parted' \in SUBSET Action
    BY <1>11, <2>3 DEF SetPreference, GatewayTypeOK
  <2> QED
    BY <1>11, <2>1, <2>4, <2>5, RenameTempTyped DEF SetPreference, GatewayTypeOK
<1>12. ASSUME NEW c \in GatewayClient, SwitchState(c) PROVE GatewayTypeOK'
  <2>1. request' \in [GatewayClient -> GatewayRequest]
    BY <1>12, FinishedTyped DEF SwitchState, GatewayTypeOK, GatewayRequest
  <2>2. halted' \in SUBSET Action
    BY <1>12 DEF SwitchState, GatewayTypeOK, Open
  <2> QED
    BY <1>12, <2>1, <2>2, RenameTempTyped DEF SwitchState, GatewayTypeOK
<1>13. ASSUME NEW c \in GatewayClient, FindOpen(c) PROVE GatewayTypeOK'
  <2>1. CASE Abort(c)
    BY <1>13, <2>1, AbortTyped DEF FindOpen, GatewayTypeOK
  <2>2. CASE ~ Abort(c)
    <3>1. request' \in [GatewayClient -> GatewayRequest]
      BY <1>13, <2>2, FinishedTyped, EnterTyped DEF FindOpen, Open, ActionStatus
    <3> QED
      BY <1>13, <2>2, <3>1 DEF FindOpen, GatewayTypeOK
  <2> QED
    BY <2>1, <2>2
<1>14. ASSUME NEW c \in GatewayClient, LogEvent(c) PROVE GatewayTypeOK'
  <2>1. PICK a \in request[c].events : LogEvent(c)!3!(a)
    BY <1>14 DEF LogEvent
  <2>2. a \in Action
    BY <2>1, RequestTyped
  <2>3. status' \in [Action -> ActionStatus]
    BY <2>1, <2>2, LoggedTyped, RequestTyped
  <2>4. request' \in [GatewayClient -> GatewayRequest]
    BY <2>1, FinishedTyped DEF GatewayTypeOK, GatewayRequest
  <2> QED
    BY <1>14, <2>3, <2>4 DEF LogEvent, GatewayTypeOK
<1>15. ASSUME NEW c \in GatewayClient, MeetJam(c) PROVE GatewayTypeOK'
  BY <1>15, AbortTyped DEF MeetJam, GatewayTypeOK
<1>16. ASSUME NEW c \in GatewayClient, WriteFails(c) PROVE GatewayTypeOK'
  <2>1. accidents' \in 0..AccidentBound
    BY <1>16, GatewayAssumption DEF WriteFails, GatewayTypeOK
  <2>2. status' \in [Action -> ActionStatus]
    BY <1>16, LoggedTyped, RequestTyped DEF WriteFails, GatewayTypeOK
  <2>3. stateFile' \in StateFile /\ temp' \in StateFile
    <3>1. CASE UNCHANGED <<stateFile, temp>>
      BY <3>1 DEF GatewayTypeOK
    <3>2. CASE Put(c, Plain("garbled"))
      BY <3>2, PutTyped, PlainTyped DEF StateText
    <3> QED
      BY <1>16, <3>1, <3>2 DEF WriteFails
  <2>4. writer' \in [GatewayClient \union Visitor -> GatewayWriter]
    BY <1>16, NoWriteTyped DEF WriteFails
  <2>5. torn' \in BOOLEAN /\ jammed' = TRUE
    BY <1>16 DEF WriteFails, GatewayTypeOK
  <2> QED
    BY <1>16, <2>1, <2>2, <2>3, <2>4, <2>5, AbortTyped DEF WriteFails, GatewayTypeOK
<1>17. ASSUME NEW c \in GatewayClient, WriteTemp(c) PROVE GatewayTypeOK'
  <2>1. CASE OpenTemp(c)
    BY <1>17, <2>1, OpenTempTyped DEF WriteTemp, GatewayTypeOK
  <2>2. CASE FillTemp(c, NewState(c))
    <3>1. NewState(c) \in StateFile
      BY <1>17, NewStateTyped DEF WriteTemp, Armed
    <3> QED
      BY <1>17, <2>2, <3>1, FillTempTyped DEF WriteTemp, GatewayTypeOK
  <2> QED
    BY <1>17, <2>1, <2>2 DEF WriteTemp
<1>18. ASSUME NEW c \in GatewayClient, MissTemp(c) PROVE GatewayTypeOK'
  BY <1>18, NoWriteTyped, AbortTyped DEF MissTemp, GatewayTypeOK
<1>19. ASSUME NEW v \in Visitor, FindNoFile(v) PROVE GatewayTypeOK'
  BY <1>19 DEF FindNoFile, GatewayTypeOK, GatewayWriter
<1>20. ASSUME NEW v \in Visitor, WriteDefault(v) PROVE GatewayTypeOK'
  <2>1. /\ stateFile' \in StateFile /\ temp' \in StateFile
        /\ writer' \in [GatewayClient \union Visitor -> GatewayWriter]
    <3>1. CASE OpenTemp(v) \/ RenameTemp(v)
      BY <3>1, OpenTempTyped, RenameTempTyped
    <3>2. CASE FillTemp(v, DefaultState)
      BY <3>2, FillTempTyped, ServedTyped
    <3>3. CASE writer' = [writer EXCEPT ![v] = NoWrite] /\ UNCHANGED <<stateFile, temp>>
      BY <3>3, NoWriteTyped DEF GatewayTypeOK
    <3> QED
      BY <1>20, <3>1, <3>2, <3>3 DEF WriteDefault
  <2>2. request' \in [GatewayClient -> GatewayRequest]
    BY <1>20, DisturbedTyped DEF WriteDefault
  <2> QED
    BY <1>20, <2>1, <2>2 DEF WriteDefault, GatewayTypeOK
<1> QED
  BY <1>1, <1>2, <1>3, <1>4, <1>5, <1>6, <1>7, <1>8, <1>9, <1>10, <1>11, <1>12, <1>13, <1>14,
     <1>15, <1>16, <1>17, <1>18, <1>19, <1>20 DEF GatewayNext, Serve, GatewayClient

LEMMA GatewayInitTyped == GatewayInit => GatewayTypeOK
<1> SUFFICES ASSUME GatewayInit PROVE GatewayTypeOK
  OBVIOUS
<1>1. /\ stateFile \in StateFile /\ temp \in StateFile
      /\ writer \in [GatewayClient \union Visitor -> GatewayWriter]
  BY PlainTyped, ServedTyped DEF GatewayInit, StateFile, StateText
<1>2. status \in [Action -> ActionStatus] /\ preview \in [Action -> Preview]
  BY DEF GatewayInit, ActionStatus, Preview
<1>3. request \in [GatewayClient -> GatewayRequest] /\ listed \in [Performer -> SUBSET Action]
  BY ServedTyped DEF GatewayInit
<1>4. written \in [Action -> {"nothing", "applied", "undone"}]
  BY DEF GatewayInit
<1>5. /\ previewed \in 0..ActionCount /\ overdue \in 0..ActionCount
      /\ accidents \in 0..AccidentBound
  BY GatewayAssumption DEF GatewayInit
<1>6. jammed \in BOOLEAN /\ torn \in BOOLEAN /\ parted \in SUBSET Action /\ halted \in SUBSET Action
  BY DEF GatewayInit
<1> QED
  BY <1>1, <1>2, <1>3, <1>4, <1>5, <1>6 DEF GatewayTypeOK

\* An operation that has changed, or is about to change, what others go by.
Lone(c, a, v) == request[c].events = {a} /\ request[c].verdict = v

\* What an operation in service may rely on, since it is the only one: of the state file
\* it has read while no visitor has disturbed it.
ServiceOK(c) ==
    LET r == request[c] IN
    /\ r.at \in {"execute", "apply"} => \E a \in Action :
          /\ Lone(c, a, "executed") /\ status[a] = "approved"
          /\ r.at = "apply" /\ ~ r.disturbed =>
                /\ r.copy = stateFile /\ ~ stateFile.emergencyStop
                /\ stateFile.preference = preview[a].previous
    /\ r.at \in {"rollback", "undo"} => \E a \in Action :
          /\ Lone(c, a, "rolled_back") /\ status[a] = "executed"
          /\ r.at = "undo" /\ ~ r.disturbed =>
                r.copy = stateFile /\ stateFile.preference = preview[a].next
    /\ r.at \in {"stop", "resume"} => c \in Owner /\ (~ r.disturbed => r.copy = stateFile)
    /\ r.at = "log" =>
          \/ r.verdict = "revoked" /\ r.events \subseteq Open
          \/ \E a \in Action :
                \/ Lone(c, a, "pending_approval") /\ status[a] = "none" /\ a <= previewed
                \/ Lone(c, a, "approved") /\ status[a] = "pending_approval"
                \/ Lone(c, a, "expired") /\ status[a] \in OpenStatus
                \/ Lone(c, a, "executed") /\ status[a] = "approved" /\ written[a] = "applied"
                \/ Lone(c, a, "rolled_back") /\ status[a] = "executed" /\ written[a] = "undone"

\* It writes into the temporary file what it is to write, while no visitor disturbs it.
WriterOK(c) ==
    /\ writer[c].at # "idle" => request[c].at \in Writing
    /\ ~ request[c].disturbed =>
          /\ writer[c].at = "fill" => writer[c].file = "temp"
          /\ writer[c].at = "rename" => temp = NewState(c)

\* An emergency stop that has still to revoke a.
Stopping(c, a) ==
    \/ request[c].at = "revoke"
    \/ request[c].at = "log" /\ request[c].verdict = "revoked" /\ a \in request[c].events

\* Half a line in the log: nothing that reads it is in service.
TornOK ==
    torn => \A c \in GatewayClient :
        \/ request[c].at \in {"idle", "stop", "revoke", "resume"}
        \/ request[c].at = "log" /\ request[c].verdict = "pending_approval"

Serial ==
    \A c, d \in GatewayClient : request[c].at # "idle" /\ request[d].at # "idle" => c = d

HaltedOK ==
    \A a \in halted :
        \/ status[a] = "revoked"
        \/ status[a] \in OpenStatus /\ \E c \in GatewayClient : Stopping(c, a)

\* The actions to come.
FreshOK == \A a \in Action : a > previewed => status[a] = "none"

GatewayInv ==
    /\ GatewayTypeOK
    /\ Serial
    /\ \A c \in GatewayClient : ServiceOK(c)
    /\ \A c \in GatewayClient : WriterOK(c)
    /\ LogMatchesState
    /\ \A a \in Action : status[a] = "none" => written[a] = "nothing"
    /\ HaltedOK
    /\ FreshOK
    /\ TornOK

LEMMA GatewayFocus ==
  ASSUME GatewayInv, NEW c \in GatewayClient, MyTurn(c) \/ request[c].at # "idle"
  PROVE  \A d \in GatewayClient : d # c => request[d].at = "idle"
  BY DEF GatewayInv, Serial, MyTurn

LEMMA WriterIdle ==
  ASSUME GatewayInv, NEW c \in GatewayClient, request[c].at \notin Writing
  PROVE  writer[c].at = "idle"
  BY DEF GatewayInv, WriterOK

\* What c brings under way, when all others are idle.
Brings(c, a) ==
    /\ request[c].at = "log" /\ a \in request[c].events
    /\ request[c].verdict \in {"executed", "rolled_back"}

\* LogMatchesState and FreshOK about a, when all others are idle.
LogOK(c, a) ==
    /\ status[a] = "executed" => written[a] # "nothing"
    /\ status[a] = "rolled_back" => written[a] = "undone"
    /\ ~ Brings(c, a) /\ a \notin parted =>
          /\ written[a] = "applied" <=> status[a] = "executed"
          /\ written[a] = "undone" <=> status[a] = "rolled_back"
    /\ status[a] = "none" => written[a] = "nothing"
    /\ a > previewed => status[a] = "none"

LEMMA BringsUnderWay ==
  ASSUME GatewayInv, NEW c \in GatewayClient, MyTurn(c) \/ request[c].at # "idle"
  PROVE  \A a \in Action : UnderWay(a) <=> Brings(c, a)
  BY GatewayFocus DEF UnderWay, Brings

\* The step of an operation that stays the only one.
LEMMA GatewayStep ==
  ASSUME GatewayInv, GatewayTypeOK', NEW c \in GatewayClient,
         MyTurn(c) \/ request[c].at # "idle",
         \A d \in GatewayClient \ {c} : request'[d] = request[d],
         \A d \in GatewayClient \ {c} : writer'[d].at = writer[d].at,
         writer'[c].at = "idle" \/ WriterOK(c)',
         ServiceOK(c)',
         \A a \in Action : LogOK(c, a)',
         \A a \in halted' :
            \/ status'[a] = "revoked"
            \/ status'[a] \in OpenStatus /\ Stopping(c, a)',
         torn' => \/ request'[c].at \in {"idle", "stop", "revoke", "resume"}
                  \/ request'[c].at = "log" /\ request'[c].verdict = "pending_approval"
  PROVE  GatewayInv'
<1>1. \A d \in GatewayClient : d # c => request'[d].at = "idle"
  BY GatewayFocus
<1>2. Serial'
  BY <1>1 DEF Serial
<1>3. \A d \in GatewayClient : ServiceOK(d)'
  <2>1. \A d \in GatewayClient : d # c => ServiceOK(d)'
    BY <1>1 DEF ServiceOK
  <2> QED
    BY <2>1
<1>4. \A a \in Action : UnderWay(a)' <=> Brings(c, a)'
  BY <1>1 DEF UnderWay, Brings
<1>5. LogMatchesState'
  BY <1>4 DEF LogMatchesState, LogOK
<1>6. HaltedOK' /\ TornOK'
  BY <1>1 DEF HaltedOK, TornOK
<1>7. \A d \in GatewayClient : WriterOK(d)'
  <2>1. \A d \in GatewayClient : d # c => writer'[d].at = "idle"
    BY <1>1, WriterIdle DEF Writing
  <2>2. \A d \in GatewayClient : writer'[d].at = "idle" => WriterOK(d)'
    BY DEF WriterOK
  <2> QED
    BY <2>1, <2>2
<1> QED
  BY <1>2, <1>3, <1>5, <1>6, <1>7 DEF GatewayInv, FreshOK, LogOK

\* What GatewayStep asks of the log about an action of which neither file changes.
LEMMA LogStays ==
  ASSUME GatewayInv, NEW c \in GatewayClient, MyTurn(c) \/ request[c].at # "idle",
         previewed' >= previewed, previewed' \in Nat, parted \subseteq parted',
         NEW a \in Action, status'[a] = status[a], written'[a] = written[a],
         Brings(c, a) => Brings(c, a)' \/ a \in parted'
  PROVE  LogOK(c, a)'
<1>1. a \in Nat /\ previewed \in Nat
  BY GatewayAssumption DEF Action, GatewayInv, GatewayTypeOK
<1>2. a > previewed' => a > previewed
  BY <1>1
<1>3. UnderWay(a) <=> Brings(c, a)
  BY BringsUnderWay
<1>4. ~ Brings(c, a)' /\ a \notin parted' => ~ UnderWay(a) /\ a \notin parted
  BY <1>3
<1> QED
  BY <1>2, <1>4 DEF GatewayInv, LogMatchesState, FreshOK, LogOK

LEMMA HaltedStays ==
  ASSUME GatewayInv, NEW c \in GatewayClient, MyTurn(c) \/ request[c].at # "idle",
         NEW a \in halted
  PROVE  \/ status[a] = "revoked"
         \/ status[a] \in OpenStatus /\ Stopping(c, a)
<1>1. \A d \in GatewayClient : Stopping(d, a) => d = c
  BY GatewayFocus DEF Stopping
<1> QED
  BY <1>1 DEF GatewayInv, HaltedOK

\* An operation that ends, also one that is cut short.
LEMMA AbortKeeps ==
  ASSUME GatewayInv, NEW c \in GatewayClient, request[c].at # "idle", Abort(c),
         GatewayTypeOK', UNCHANGED <<status, written, previewed>>,
         writer'[c].at = "idle", \A d \in GatewayClient \ {c} : writer'[d].at = writer[d].at
  PROVE  GatewayInv'
<1>1. request'[c] = Served /\ \A d \in GatewayClient \ {c} : request'[d] = request[d]
  BY FinishedTyped DEF Abort, GatewayInv
<1>2. request'[c].at = "idle"
  BY <1>1 DEF Served
<1>3. ServiceOK(c)'
  BY <1>2 DEF ServiceOK
<1>4. \A a \in Action : Brings(c, a) => a \in parted'
  BY DEF Brings, Abort, Cut
<1>5. parted \subseteq parted' /\ previewed' \in Nat /\ previewed' >= previewed
  BY GatewayAssumption DEF Abort, GatewayInv, GatewayTypeOK
<1>6. \A a \in halted' : status'[a] = "revoked"
  <2> SUFFICES ASSUME NEW a \in halted', status[a] # "revoked" PROVE FALSE
    OBVIOUS
  <2>1. a \in halted /\ a \notin Unstopped(c)
    BY DEF Abort
  <2>2. status[a] \in OpenStatus /\ Stopping(c, a)
    BY <2>1, HaltedStays
  <2>3. a \in Open
    BY <2>1, <2>2 DEF Open, GatewayInv, GatewayTypeOK
  <2> QED
    BY <2>1, <2>2, <2>3 DEF Stopping, Unstopped
<1>7. \A a \in Action : LogOK(c, a)'
  BY <1>4, <1>5, LogStays
<1> QED
  BY <1>1, <1>2, <1>3, <1>6, <1>7, GatewayStep

LEMMA GatewayStart == GatewayInit => GatewayInv
<1> SUFFICES ASSUME GatewayInit PROVE GatewayInv
  OBVIOUS
<1>1. GatewayTypeOK
  BY GatewayInitTyped
<1>2. \A c \in GatewayClient : request[c] = Served /\ request[c].at = "idle"
  BY DEF GatewayInit, Served
<1>3. /\ Serial /\ TornOK
      /\ \A c \in GatewayClient : ServiceOK(c) /\ WriterOK(c)
  <2>1. \A c \in GatewayClient : writer[c].at = "idle"
    BY ServedTyped DEF GatewayInit
  <2> QED
    BY <1>2, <2>1 DEF Serial, TornOK, ServiceOK, WriterOK
<1>4. \A a \in Action : status[a] = "none" /\ written[a] = "nothing"
  BY DEF GatewayInit
<1>5. LogMatchesState /\ FreshOK
  BY <1>4 DEF LogMatchesState, FreshOK
<1>6. HaltedOK
  BY DEF GatewayInit, HaltedOK
<1> QED
  BY <1>1, <1>3, <1>4, <1>5, <1>6 DEF GatewayInv

\* A step that leaves alone all that the invariant is about.
LEMMA GatewayUnmoved ==
  ASSUME GatewayInv, GatewayTypeOK',
         UNCHANGED <<stateFile, temp, status, preview, previewed, request, torn, written,
                     parted, halted>>,
         \A c \in GatewayClient : writer'[c] = writer[c]
  PROVE  GatewayInv'
<1>1. Serial' /\ TornOK'
  BY DEF GatewayInv, Serial, TornOK
<1>2. \A c \in GatewayClient : ServiceOK(c)'
  BY DEF GatewayInv, ServiceOK, Lone, Open
<1>5. \A c \in GatewayClient : WriterOK(c)'
  <2>1. \A c \in GatewayClient : NewState(c)' = NewState(c)
    BY DEF NewState
  <2> QED
    BY <2>1 DEF GatewayInv, WriterOK
<1>3. LogMatchesState' /\ FreshOK' /\ \A a \in Action : status'[a] = "none" => written'[a] = "nothing"
  BY DEF GatewayInv, LogMatchesState, UnderWay, FreshOK
<1>4. HaltedOK'
  BY DEF GatewayInv, HaltedOK, Stopping
<1> QED
  BY <1>1, <1>2, <1>3, <1>4, <1>5 DEF GatewayInv

LEMMA ServerDiesKeeps ==
  ASSUME GatewayInv, GatewayTypeOK', ServerDies
  PROVE  GatewayInv'
<1>1. \A c \in GatewayClient : request'[c].at = "idle"
  BY DEF ServerDies, Served
<1>2. /\ Serial' /\ TornOK'
      /\ \A c \in GatewayClient : ServiceOK(c)' /\ WriterOK(c)'
  <2>1. \A c \in GatewayClient : writer'[c].at = "idle"
    BY ServedTyped DEF ServerDies
  <2> QED
    BY <1>1, <2>1 DEF Serial, TornOK, ServiceOK, WriterOK
<1>3. UNCHANGED <<status, written, previewed>>
  BY DEF ServerDies
<1>4. ASSUME NEW a \in Action, a \notin parted' PROVE ~ UnderWay(a) /\ a \notin parted
  <2>1. \A c \in GatewayClient : a \notin Cut(c)
    BY <1>4 DEF ServerDies
  <2>2. a \notin parted
    BY <1>4 DEF ServerDies
  <2> QED
    BY <2>1, <2>2 DEF UnderWay, Cut
<1>5. LogMatchesState' /\ FreshOK' /\ \A a \in Action : status'[a] = "none" => written'[a] = "nothing"
  BY <1>3, <1>4 DEF GatewayInv, LogMatchesState, FreshOK
<1>6. HaltedOK'
  <2> SUFFICES ASSUME NEW a \in halted', status[a] # "revoked" PROVE FALSE
    BY <1>3 DEF HaltedOK
  <2>1. a \in halted /\ \A c \in GatewayClient : a \notin Unstopped(c)
    BY DEF ServerDies
  <2>2. PICK c \in GatewayClient : status[a] \in OpenStatus /\ Stopping(c, a)
    BY <2>1 DEF GatewayInv, HaltedOK
  <2>3. a \in Open
    BY <2>1, <2>2 DEF Open, GatewayInv, GatewayTypeOK
  <2> QED
    BY <2>1, <2>2, <2>3 DEF Stopping, Unstopped
<1> QED
  BY <1>2, <1>5, <1>6 DEF GatewayInv

\* An operation that starts: nothing is halted that is still open, and c is alone.
LEMMA EnterKeeps ==
  ASSUME GatewayInv, GatewayTypeOK', NEW c \in GatewayClient, MyTurn(c),
         \A d \in GatewayClient \ {c} : request'[d] = request[d],
         ServiceOK(c)',
         torn => \/ request'[c].at \in {"stop", "resume"}
                 \/ request'[c].at = "log" /\ request'[c].verdict = "pending_approval",
         UNCHANGED <<writer, status, written, torn, parted, halted>>,
         previewed' \in Nat, previewed' >= previewed
  PROVE  GatewayInv'
<1>1. request[c].at = "idle"
  BY DEF MyTurn
<1>2. \A a \in Action : LogOK(c, a)'
  BY <1>1, LogStays DEF Brings
<1>3. \A a \in halted' : status'[a] = "revoked"
  BY <1>1, HaltedStays DEF Stopping
<1>4. writer'[c].at = "idle"
  BY <1>1, WriterIdle DEF Writing
<1> QED
  BY <1>2, <1>3, <1>4, GatewayStep

LEMMA PreviewActionKeeps ==
  ASSUME GatewayInv, GatewayTypeOK', NEW c \in GatewayClient, PreviewAction(c)
  PROVE  GatewayInv'
<1>1. previewed \in Nat /\ previewed < ActionCount
  BY GatewayAssumption DEF PreviewAction, GatewayInv, GatewayTypeOK
<1> PICK a : a = previewed + 1
  OBVIOUS
<1>2. a \in Action /\ previewed' = a /\ a > previewed /\ a \in Nat
  BY <1>1, GatewayAssumption DEF PreviewAction, Action
<1>3. Enter(c, "log", {a}, "pending_approval")
  BY <1>2 DEF PreviewAction
<1>4. /\ request'[c].at = "log" /\ request'[c].events = {a}
      /\ request'[c].verdict = "pending_approval"
      /\ \A d \in GatewayClient \ {c} : request'[d] = request[d]
  BY <1>2, <1>3, EnterTyped DEF GatewayInv, ActionStatus
<1>5. status'[a] = "none"
  BY <1>2 DEF PreviewAction, GatewayInv, FreshOK
<1>6. ServiceOK(c)'
  <2>1. a <= previewed'
    BY <1>2
  <2> QED
    BY <1>2, <1>4, <1>5, <2>1 DEF ServiceOK, Lone
<1>7. previewed' \in Nat /\ previewed' >= previewed
  BY <1>1, <1>2
<1>8. UNCHANGED <<writer, status, written, torn, parted, halted>> /\ MyTurn(c)
  BY DEF PreviewAction, fileVars
<1> QED
  BY <1>4, <1>6, <1>7, <1>8, EnterKeeps

LEMMA ApproveActionKeeps ==
  ASSUME GatewayInv, GatewayTypeOK', NEW c \in GatewayClient, ApproveAction(c)
  PROVE  GatewayInv'
<1>1. PICK a \in Action : /\ status[a] = "pending_approval"
                          /\ Enter(c, "log", {a}, IF Overdue(a) THEN "expired" ELSE "approved")
  BY DEF ApproveAction
<1>2. /\ request'[c].at = "log"
      /\ \/ Lone(c, a, "expired")'
         \/ Lone(c, a, "approved")'
      /\ \A d \in GatewayClient \ {c} : request'[d] = request[d]
  BY <1>1, EnterTyped DEF GatewayInv, ActionStatus, Lone
<1>3. ServiceOK(c)'
  <2>1. status' = status
    BY DEF ApproveAction
  <2> QED
    BY <1>1, <1>2, <2>1 DEF ServiceOK, OpenStatus
<1>4. previewed' \in Nat /\ previewed' >= previewed
  BY GatewayAssumption DEF ApproveAction, GatewayInv, GatewayTypeOK
<1>5. UNCHANGED <<writer, status, written, torn, parted, halted>> /\ MyTurn(c) /\ ~ torn
  BY DEF ApproveAction, fileVars
<1> QED
  BY <1>2, <1>3, <1>4, <1>5, EnterKeeps

LEMMA RollBackActionKeeps ==
  ASSUME GatewayInv, GatewayTypeOK', NEW c \in GatewayClient, RollBackAction(c)
  PROVE  GatewayInv'
<1>1. PICK a \in Action : status[a] = "executed" /\ Enter(c, "rollback", {a}, "rolled_back")
  BY DEF RollBackAction
<1>2. /\ request'[c].at = "rollback" /\ Lone(c, a, "rolled_back")'
      /\ \A d \in GatewayClient \ {c} : request'[d] = request[d]
  BY <1>1, EnterTyped DEF GatewayInv, ActionStatus, Lone
<1>3. ServiceOK(c)'
  BY <1>1, <1>2 DEF RollBackAction, ServiceOK
<1>4. previewed' \in Nat /\ previewed' >= previewed
  BY GatewayAssumption DEF RollBackAction, GatewayInv, GatewayTypeOK
<1>5. UNCHANGED <<writer, status, written, torn, parted, halted>> /\ MyTurn(c) /\ ~ torn
  BY DEF RollBackAction, fileVars
<1> QED
  BY <1>2, <1>3, <1>4, <1>5, EnterKeeps

LEMMA SwitchActionsKeeps ==
  ASSUME GatewayInv, GatewayTypeOK', NEW c \in Owner, SwitchActions(c)
  PROVE  GatewayInv'
<1>1. c \in GatewayClient
  BY DEF GatewayClient
<1>2. PICK at \in {"stop", "resume"} :
           request' = [request EXCEPT ![c].at = at, ![c].copy = stateFile]
  BY DEF SwitchActions
<1>3. /\ request'[c].at = at /\ request'[c].copy = stateFile
      /\ \A d \in GatewayClient \ {c} : request'[d] = request[d]
  BY <1>1, <1>2 DEF GatewayInv, GatewayTypeOK, GatewayRequest
<1>4. ServiceOK(c)'
  BY <1>1, <1>3 DEF SwitchActions, ServiceOK, fileVars
<1>5. previewed' \in Nat /\ previewed' >= previewed
  BY GatewayAssumption DEF SwitchActions, GatewayInv, GatewayTypeOK
<1>6. UNCHANGED <<writer, status, written, torn, parted, halted>> /\ MyTurn(c)
  BY DEF SwitchActions, fileVars
<1> QED
  BY <1>1, <1>3, <1>4, <1>5, <1>6, EnterKeeps

LEMMA ExecuteActionKeeps ==
  ASSUME GatewayInv, GatewayTypeOK', NEW w \in Performer, ExecuteAction(w)
  PROVE  GatewayInv'
<1>1. w \in GatewayClient /\ GatewayTypeOK
  BY DEF GatewayClient, GatewayInv
<1>2. /\ UNCHANGED <<stateFile, temp, writer, status, preview, previewed, torn, written,
                     parted, halted>>
      /\ MyTurn(w)
  BY DEF ExecuteAction, fileVars
<1>3. previewed' \in Nat /\ previewed' >= previewed
  BY <1>1, <1>2, GatewayAssumption DEF GatewayTypeOK
<1>4. PICK a \in listed[w] : ExecuteAction(w)!2!(a)
  BY DEF ExecuteAction
<1>5. a \in Action
  BY <1>1, <1>4 DEF GatewayTypeOK
<1>6. CASE UNCHANGED request
  BY <1>2, <1>6, GatewayUnmoved
<1>7. ASSUME ~ torn, status[a] = "approved", Enter(w, "log", {a}, "expired") PROVE GatewayInv'
  <2>1. /\ request'[w].at = "log" /\ Lone(w, a, "expired")'
        /\ \A d \in GatewayClient \ {w} : request'[d] = request[d]
    BY <1>1, <1>5, <1>7, EnterTyped DEF ActionStatus, Lone
  <2>2. ServiceOK(w)'
    BY <1>2, <1>5, <1>7, <2>1 DEF ServiceOK, OpenStatus
  <2> QED
    BY <1>1, <1>2, <1>3, <1>7, <2>1, <2>2, EnterKeeps
<1>8. ASSUME ~ torn, status[a] = "approved", Enter(w, "execute", {a}, "executed")
      PROVE  GatewayInv'
  <2>1. /\ request'[w].at = "execute" /\ Lone(w, a, "executed")'
        /\ \A d \in GatewayClient \ {w} : request'[d] = request[d]
    BY <1>1, <1>5, <1>8, EnterTyped DEF ActionStatus, Lone
  <2>2. ServiceOK(w)'
    BY <1>2, <1>5, <1>8, <2>1 DEF ServiceOK
  <2> QED
    BY <1>1, <1>2, <1>3, <1>8, <2>1, <2>2, EnterKeeps
<1> QED
  BY <1>4, <1>6, <1>7, <1>8

LEMMA CompareStateKeeps ==
  ASSUME GatewayInv, GatewayTypeOK', NEW c \in GatewayClient, CompareState(c)
  PROVE  GatewayInv'
<1>1. /\ UNCHANGED <<stateFile, writer, status, preview, previewed, torn, written, parted, halted>>
      /\ request[c].at \in {"execute", "rollback"} /\ ~ torn
      /\ writer[c].at = "idle"
  BY WriterIdle DEF CompareState, GatewayInv, TornOK, fileVars, Writing
<1>2. previewed' \in Nat /\ previewed' >= previewed
  BY <1>1, GatewayAssumption DEF GatewayInv, GatewayTypeOK
<1>3. PICK a \in request[c].events : CompareState(c)!2!(a)
  BY DEF CompareState
<1>4. CASE Finished(c)
  <2>1. request'[c] = Served /\ \A d \in GatewayClient \ {c} : request'[d] = request[d]
    BY <1>4, FinishedTyped DEF GatewayInv
  <2>2. request'[c].at = "idle"
    BY <2>1 DEF Served
  <2>3. ServiceOK(c)'
    BY <2>2 DEF ServiceOK
  <2>4. \A b \in Action : LogOK(c, b)'
    BY <1>1, <1>2, LogStays DEF Brings
  <2>5. \A b \in halted' : status'[b] = "revoked"
    BY <1>1, HaltedStays DEF Stopping
  <2> QED
    BY <1>1, <2>1, <2>2, <2>3, <2>4, <2>5, GatewayStep
<1>5. ASSUME ~ Finished(c) PROVE GatewayInv'
  <2>1. /\ Unchanged(c, a)
        /\ request[c].at = "execute" => ~ stateFile.emergencyStop
        /\ request' = [request EXCEPT
              ![c].at = IF @ = "execute" THEN "apply" ELSE "undo", ![c].copy = stateFile]
    BY <1>3, <1>5
  <2>2. /\ request'[c].at = IF request[c].at = "execute" THEN "apply" ELSE "undo"
        /\ request'[c].copy = stateFile
        /\ request'[c].events = request[c].events /\ request'[c].verdict = request[c].verdict
        /\ \A d \in GatewayClient \ {c} : request'[d] = request[d]
    BY <2>1 DEF GatewayInv, GatewayTypeOK, GatewayRequest
  <2>3. ServiceOK(c)
    BY DEF GatewayInv
  <2>4. a \in Action
    BY RequestTyped DEF GatewayInv
  <2>5. CASE request[c].at = "execute"
    <3>1. Lone(c, a, "executed") /\ status[a] = "approved"
      BY <2>3, <2>5 DEF ServiceOK, Lone
    <3>2. stateFile.preference = preview[a].previous /\ ~ stateFile.emergencyStop
      BY <2>1, <2>5 DEF Unchanged
    <3>3. ServiceOK(c)'
      BY <1>1, <2>2, <2>4, <2>5, <3>1, <3>2 DEF ServiceOK, Lone
    <3>4. \A b \in Action : LogOK(c, b)'
      BY <1>1, <1>2, LogStays DEF Brings
    <3>5. \A b \in halted' : status'[b] = "revoked"
      BY <1>1, HaltedStays DEF Stopping
    <3> QED
      BY <1>1, <2>2, <3>3, <3>4, <3>5, GatewayStep
  <2>6. CASE request[c].at = "rollback"
    <3>1. Lone(c, a, "rolled_back") /\ status[a] = "executed"
      BY <2>3, <2>6 DEF ServiceOK, Lone
    <3>2. stateFile.preference = preview[a].next
      BY <2>1, <2>6 DEF Unchanged
    <3>3. ServiceOK(c)'
      BY <1>1, <2>2, <2>4, <2>6, <3>1, <3>2 DEF ServiceOK, Lone
    <3>4. \A b \in Action : LogOK(c, b)'
      BY <1>1, <1>2, LogStays DEF Brings
    <3>5. \A b \in halted' : status'[b] = "revoked"
      BY <1>1, HaltedStays DEF Stopping
    <3> QED
      BY <1>1, <2>2, <3>3, <3>4, <3>5, GatewayStep
  <2> QED
    BY <1>1, <2>5, <2>6
<1> QED
  BY <1>4, <1>5

LEMMA SetPreferenceKeeps ==
  ASSUME GatewayInv, GatewayTypeOK', NEW c \in GatewayClient, SetPreference(c)
  PROVE  GatewayInv'
<1>1. /\ UNCHANGED <<status, preview, previewed, torn, halted>> /\ parted \subseteq parted'
      /\ request[c].at \in {"apply", "undo"} /\ ~ torn /\ RenameTemp(c)
  BY DEF SetPreference, GatewayInv, TornOK
<1>2. previewed' \in Nat /\ previewed' >= previewed
  BY <1>1, GatewayAssumption DEF GatewayInv, GatewayTypeOK
<1>3. PICK a \in request[c].events : SetPreference(c)!3!(a)
  BY DEF SetPreference
<1>4. a \in Action
  BY RequestTyped DEF GatewayInv
<1>5. /\ request'[c].at = "log"
      /\ request'[c].events = request[c].events /\ request'[c].verdict = request[c].verdict
      /\ \A d \in GatewayClient \ {c} : request'[d] = request[d]
  BY DEF SetPreference, GatewayInv, GatewayTypeOK, GatewayRequest
<1>6. /\ written'[a] = IF request[c].at = "apply" THEN "applied" ELSE "undone"
      /\ \A b \in Action \ {a} : written'[b] = written[b]
  BY <1>3, <1>4 DEF GatewayInv, GatewayTypeOK
<1>7. \/ /\ request[c].at = "apply" /\ Lone(c, a, "executed") /\ status[a] = "approved"
      \/ /\ request[c].at = "undo" /\ Lone(c, a, "rolled_back") /\ status[a] = "executed"
  BY <1>1 DEF GatewayInv, ServiceOK, Lone
<1>8. ServiceOK(c)'
  BY <1>1, <1>4, <1>5, <1>6, <1>7 DEF ServiceOK, Lone
<1>9. \A b \in Action : LogOK(c, b)'
  <2>1. Brings(c, a)'
    BY <1>5, <1>7 DEF Brings, Lone
  <2>2. a <= previewed
    BY <1>4, <1>7, GatewayAssumption DEF GatewayInv, FreshOK, Action, GatewayTypeOK
  <2>3. LogOK(c, a)'
    <3>1. ~ (a > previewed')
      BY <1>1, <1>4, <2>2, GatewayAssumption DEF Action, GatewayInv, GatewayTypeOK
    <3> QED
      BY <1>1, <1>6, <1>7, <2>1, <3>1 DEF LogOK
  <2>4. \A b \in Action \ {a} : LogOK(c, b)'
    BY <1>1, <1>2, <1>6, LogStays DEF Brings
  <2> QED
    BY <2>3, <2>4
<1>10. \A b \in halted' : status'[b] = "revoked"
  BY <1>1, HaltedStays DEF Stopping
<1>11. writer'[c].at = "idle" /\ \A d \in GatewayClient \ {c} : writer'[d].at = writer[d].at
  BY <1>1, RenameTempTyped, ServedTyped DEF GatewayInv
<1> QED
  BY <1>1, <1>5, <1>8, <1>9, <1>10, <1>11, GatewayStep

LEMMA SwitchStateKeeps ==
  ASSUME GatewayInv, GatewayTypeOK', NEW c \in GatewayClient, SwitchState(c)
  PROVE  GatewayInv'
<1>1. /\ UNCHANGED <<status, preview, previewed, torn, parted, written>>
      /\ request[c].at \in {"stop", "resume"}
      /\ writer'[c].at = "idle" /\ \A d \in GatewayClient \ {c} : writer'[d].at = writer[d].at
  BY RenameTempTyped, ServedTyped DEF SwitchState, GatewayInv
<1>2. previewed' \in Nat /\ previewed' >= previewed
  BY <1>1, GatewayAssumption DEF GatewayInv, GatewayTypeOK
<1>3. \A b \in Action : LogOK(c, b)'
  BY <1>1, <1>2, LogStays DEF Brings
<1>4. \A b \in halted : status[b] = "revoked"
  BY <1>1, HaltedStays DEF Stopping
<1>5. CASE request[c].at = "stop"
  <2>1. request' = [request EXCEPT ![c].at = "revoke"] /\ halted' = halted \union Open
    BY <1>5 DEF SwitchState
  <2>2. request'[c].at = "revoke" /\ \A d \in GatewayClient \ {c} : request'[d] = request[d]
    BY <2>1 DEF GatewayInv, GatewayTypeOK, GatewayRequest
  <2>3. ServiceOK(c)'
    BY <2>2 DEF ServiceOK
  <2>4. \A b \in halted' : \/ status'[b] = "revoked"
                           \/ status'[b] \in OpenStatus /\ Stopping(c, b)'
    BY <1>1, <1>4, <2>1, <2>2 DEF Stopping, Open
  <2> QED
    BY <1>1, <1>3, <2>2, <2>3, <2>4, GatewayStep
<1>6. CASE request[c].at = "resume"
  <2>1. Finished(c) /\ halted' = halted
    BY <1>6 DEF SwitchState
  <2>2. /\ request'[c].at = "idle"
        /\ \A d \in GatewayClient \ {c} : request'[d] = request[d]
    BY <2>1, FinishedTyped DEF GatewayInv, Served
  <2>3. ServiceOK(c)'
    BY <2>2 DEF ServiceOK
  <2> QED
    BY <1>1, <1>3, <1>4, <2>1, <2>2, <2>3, GatewayStep
<1> QED
  BY <1>1, <1>5, <1>6

LEMMA FindOpenKeeps ==
  ASSUME GatewayInv, GatewayTypeOK', NEW c \in GatewayClient, FindOpen(c)
  PROVE  GatewayInv'
<1>1. /\ UNCHANGED <<stateFile, writer, status, preview, previewed, torn, written>>
      /\ request[c].at = "revoke" /\ writer[c].at = "idle"
  BY WriterIdle DEF FindOpen, fileVars, Writing
<1>2. previewed' \in Nat /\ previewed' >= previewed
  BY <1>1, GatewayAssumption DEF GatewayInv, GatewayTypeOK
<1>3. CASE Abort(c)
  BY <1>1, <1>3, AbortKeeps
<1>4. ASSUME ~ torn, UNCHANGED <<parted, halted>>,
             IF Open = {} THEN Finished(c) ELSE Enter(c, "log", Open, "revoked")
      PROVE  GatewayInv'
  <2>1. \A b \in Action : LogOK(c, b)'
    BY <1>1, <1>2, <1>4, LogStays DEF Brings
  <2>2. \A b \in halted : status[b] = "revoked" \/ (status[b] \in OpenStatus /\ b \in Open)
    BY <1>1, HaltedStays DEF Open, GatewayInv, GatewayTypeOK
  <2>3. CASE Open = {}
    <3>1. /\ request'[c].at = "idle"
          /\ \A d \in GatewayClient \ {c} : request'[d] = request[d]
      BY <1>4, <2>3, FinishedTyped DEF GatewayInv, Served
    <3>2. ServiceOK(c)'
      BY <3>1 DEF ServiceOK
    <3> QED
      BY <1>1, <1>4, <2>1, <2>2, <2>3, <3>1, <3>2, GatewayStep
  <2>4. CASE Open # {}
    <3>1. Open \in SUBSET Action /\ Enter(c, "log", Open, "revoked")
      BY <1>4, <2>4 DEF Open
    <3>2. /\ request'[c].at = "log" /\ request'[c].events = Open
          /\ request'[c].verdict = "revoked"
          /\ \A d \in GatewayClient \ {c} : request'[d] = request[d]
      BY <3>1, EnterTyped DEF GatewayInv, ActionStatus
    <3>3. Open' = Open
      BY <1>1 DEF Open
    <3>4. ServiceOK(c)'
      BY <3>2, <3>3 DEF ServiceOK
    <3>5. \A b \in halted' : \/ status'[b] = "revoked"
                             \/ status'[b] \in OpenStatus /\ Stopping(c, b)'
      BY <1>1, <1>4, <2>2, <3>2 DEF Stopping
    <3> QED
      BY <1>1, <1>4, <2>1, <3>2, <3>4, <3>5, GatewayStep
  <2> QED
    BY <2>3, <2>4
<1> QED
  BY <1>3, <1>4 DEF FindOpen

\* An event is appended to a log that holds no half of a line, by an operation that
\* then ends or goes on to the next event.
LEMMA EventKeeps ==
  ASSUME GatewayInv, GatewayTypeOK', NEW c \in GatewayClient, request[c].at = "log", ~ torn,
         NEW a \in request[c].events, status' = [status EXCEPT ![a] = request[c].verdict],
         UNCHANGED <<written, previewed>>, parted \subseteq parted',
         \A d \in GatewayClient \ {c} : request'[d] = request[d],
         \A d \in GatewayClient \ {c} : writer'[d].at = writer[d].at, writer'[c].at = "idle",
         \/ /\ request'[c].at = "idle" /\ halted' \subseteq halted
            /\ request[c].events = {a} \/ halted' \subseteq halted \ Unstopped(c)
         \/ /\ request'[c] = [request[c] EXCEPT !.events = @ \ {a}]
            /\ request[c].events # {a} /\ UNCHANGED <<torn, halted>>
  PROVE  GatewayInv'
<1>1. a \in Action /\ \A b \in Action \ {a} : status'[b] = status[b]
  BY RequestTyped DEF GatewayInv, GatewayTypeOK
<1>2. status'[a] = request[c].verdict
  BY <1>1 DEF GatewayInv, GatewayTypeOK
<1>3. previewed' \in Nat /\ previewed' >= previewed
  BY GatewayAssumption DEF GatewayInv, GatewayTypeOK
<1>4. ServiceOK(c)
  BY DEF GatewayInv
<1>5. \/ request[c].verdict = "revoked" /\ status[a] \in OpenStatus
      \/ Lone(c, a, "pending_approval") /\ status[a] = "none" /\ a <= previewed
      \/ Lone(c, a, "approved") /\ status[a] = "pending_approval"
      \/ Lone(c, a, "expired") /\ status[a] \in OpenStatus
      \/ Lone(c, a, "executed") /\ status[a] = "approved" /\ written[a] = "applied"
      \/ Lone(c, a, "rolled_back") /\ status[a] = "executed" /\ written[a] = "undone"
  BY <1>4 DEF ServiceOK, Lone, Open
<1>6. ~ (a > previewed')
  <2>1. a \in Nat /\ previewed \in Nat
    BY <1>1, GatewayAssumption DEF Action, GatewayInv, GatewayTypeOK
  <2>2. a <= previewed
    BY <1>1, <1>5, <2>1 DEF GatewayInv, FreshOK, OpenStatus
  <2> QED
    BY <2>1, <2>2
<1>7. LogOK(c, a)'
  <2>1. a \notin parted' /\ request[c].verdict \notin {"executed", "rolled_back"}
        => written[a] = "nothing"
    <3> SUFFICES ASSUME a \notin parted', request[c].verdict \notin {"executed", "rolled_back"}
                 PROVE  written[a] = "nothing"
      OBVIOUS
    <3>1. a \notin parted /\ ~ UnderWay(a)
      BY BringsUnderWay, <1>1 DEF Brings
    <3>2. status[a] \notin {"executed", "rolled_back"}
      BY <1>5 DEF OpenStatus, Lone
    <3>3. written[a] \in {"nothing", "applied", "undone"}
      BY <1>1 DEF GatewayInv, GatewayTypeOK
    <3> QED
      BY <1>1, <3>1, <3>2, <3>3 DEF GatewayInv, LogMatchesState
  <2>2. written'[a] = written[a] /\ request[c].verdict # "none"
    BY <1>5 DEF Lone
  <2>3. CASE request[c].verdict \in {"executed", "rolled_back"}
    BY <1>2, <1>5, <1>6, <2>2, <2>3 DEF LogOK, Lone
  <2>4. CASE request[c].verdict \notin {"executed", "rolled_back"}
    BY <1>2, <1>6, <2>1, <2>2, <2>4 DEF LogOK
  <2> QED
    BY <2>3, <2>4
<1>8. ASSUME NEW b \in Action, b # a PROVE LogOK(c, b)'
  <2>1. Brings(c, b) => Lone(c, a, "executed") \/ Lone(c, a, "rolled_back")
    BY <1>5 DEF Brings, Lone
  <2>2. ~ Brings(c, b)
    BY <1>8, <2>1 DEF Brings, Lone
  <2> QED
    BY <1>1, <1>3, <1>8, <2>2, LogStays
<1>9. ServiceOK(c)'
  <2>1. CASE request'[c].at = "idle"
    BY <2>1 DEF ServiceOK
  <2>2. CASE request'[c].at # "idle"
    <3>1. request'[c] = [request[c] EXCEPT !.events = @ \ {a}] /\ request[c].events # {a}
      BY <2>2
    <3>2. /\ request'[c].at = "log" /\ request'[c].verdict = request[c].verdict
          /\ request'[c].events = request[c].events \ {a}
      BY <3>1 DEF GatewayInv, GatewayTypeOK, GatewayRequest
    <3>3. request[c].verdict = "revoked" /\ request[c].events \subseteq Open
      BY <1>4, <3>1 DEF ServiceOK, Lone
    <3>4. request'[c].events \subseteq Open'
      BY <1>1, <3>2, <3>3 DEF Open
    <3> QED
      BY <3>2, <3>3, <3>4 DEF ServiceOK
  <2> QED
    BY <2>1, <2>2
<1>10. \A b \in halted' : \/ status'[b] = "revoked"
                          \/ status'[b] \in OpenStatus /\ Stopping(c, b)'
  <2> SUFFICES ASSUME NEW b \in halted', status'[b] # "revoked"
               PROVE  status'[b] \in OpenStatus /\ Stopping(c, b)'
    OBVIOUS
  <2>1. b \in halted /\ b \in Action
    BY DEF GatewayInv, GatewayTypeOK
  <2>2. status[b] = "revoked" \/ (status[b] \in OpenStatus /\ Stopping(c, b))
    BY <2>1, HaltedStays
  <2>3. b # a
    <3>1. CASE request[c].verdict = "revoked"
      BY <1>2, <3>1
    <3>2. CASE request[c].verdict # "revoked"
      BY <1>5, <2>2, <3>2 DEF Stopping, OpenStatus, Lone
    <3> QED
      BY <3>1, <3>2
  <2>4. status[b] \in OpenStatus /\ request[c].verdict = "revoked" /\ b \in request[c].events
    BY <1>1, <2>1, <2>2, <2>3 DEF Stopping
  <2>5. b \in Unstopped(c) /\ request[c].events # {a}
    BY <2>1, <2>3, <2>4 DEF Unstopped, Open
  <2>6. request'[c] = [request[c] EXCEPT !.events = @ \ {a}]
    BY <2>5
  <2>7. /\ request'[c].at = "log" /\ request'[c].verdict = request[c].verdict
        /\ request'[c].events = request[c].events \ {a}
    BY <2>6 DEF GatewayInv, GatewayTypeOK, GatewayRequest
  <2> QED
    BY <1>1, <2>1, <2>3, <2>4, <2>7 DEF Stopping
<1>11. torn' => request'[c].at = "idle"
  OBVIOUS
<1> QED
  BY <1>7, <1>8, <1>9, <1>10, <1>11, GatewayStep

LEMMA LogEventKeeps ==
  ASSUME GatewayInv, GatewayTypeOK', NEW c \in GatewayClient, LogEvent(c)
  PROVE  GatewayInv'
<1>1. /\ request[c].at = "log" /\ writer[c].at = "idle"
      /\ UNCHANGED <<stateFile, writer, preview, previewed, torn, written, parted, halted>>
  BY WriterIdle DEF LogEvent, fileVars, Writing
<1>2. PICK a \in request[c].events : LogEvent(c)!3!(a)
  BY DEF LogEvent
<1>3. CASE request[c].events = {a}
  <2>1. /\ request'[c].at = "idle"
        /\ \A d \in GatewayClient \ {c} : request'[d] = request[d]
    BY <1>2, <1>3, FinishedTyped DEF GatewayInv, Served
  <2>2. CASE ~ torn
    BY <1>1, <1>2, <1>3, <2>1, <2>2, EventKeeps DEF Logged
  <2>3. CASE torn
    <3>1. status' = status
      BY <1>2, <2>3 DEF Logged
    <3>2. request[c].verdict = "pending_approval"
      BY <1>1, <2>3 DEF GatewayInv, TornOK
    <3>3. previewed' \in Nat /\ previewed' >= previewed
      BY <1>1, GatewayAssumption DEF GatewayInv, GatewayTypeOK
    <3>4. \A b \in Action : LogOK(c, b)'
      BY <1>1, <3>1, <3>2, <3>3, LogStays DEF Brings
    <3>5. \A b \in halted' : status'[b] = "revoked"
      BY <1>1, <3>1, <3>2, HaltedStays DEF Stopping
    <3>6. ServiceOK(c)'
      BY <2>1 DEF ServiceOK
    <3> QED
      BY <1>1, <2>1, <3>4, <3>5, <3>6, GatewayStep
  <2> QED
    BY <2>2, <2>3
<1>4. CASE request[c].events # {a}
  <2>1. request' = [request EXCEPT ![c].events = @ \ {a}]
    BY <1>2, <1>4
  <2>2. /\ request'[c] = [request[c] EXCEPT !.events = @ \ {a}]
        /\ \A d \in GatewayClient \ {c} : request'[d] = request[d]
    BY <2>1 DEF GatewayInv, GatewayTypeOK
  <2>3. ~ torn
    <3>1. request[c].verdict = "pending_approval" => request[c].events = {a}
      BY <1>1, <1>2 DEF GatewayInv, ServiceOK, Lone
    <3> QED
      BY <1>1, <1>4, <3>1 DEF GatewayInv, TornOK
  <2> QED
    BY <1>1, <1>2, <1>4, <2>2, <2>3, EventKeeps DEF Logged
<1> QED
  BY <1>3, <1>4

LEMMA WriteFailsKeeps ==
  ASSUME GatewayInv, GatewayTypeOK', NEW c \in GatewayClient, WriteFails(c)
  PROVE  GatewayInv'
<1>1. /\ Abort(c) /\ UNCHANGED <<preview, previewed, written>>
      /\ writer'[c].at = "idle" /\ \A d \in GatewayClient \ {c} : writer'[d].at = writer[d].at
  BY NoWriteTyped, ServedTyped DEF WriteFails, GatewayInv, GatewayClient
<1>5. request[c].at # "idle"
  <2>1. writer[c].at = "fill" => request[c].at \in Writing
    BY DEF GatewayInv, WriterOK
  <2> QED
    BY <2>1 DEF WriteFails, Writing
<1>2. CASE UNCHANGED status
  BY <1>1, <1>2, <1>5, AbortKeeps
<1>3. CASE ~ UNCHANGED status
  <2>1. request[c].at = "log" /\ \E a \in request[c].events : status' = Logged(a, request[c].verdict)
    BY <1>3 DEF WriteFails
  <2>2. PICK a \in request[c].events : status' = Logged(a, request[c].verdict)
    BY <2>1
  <2>3. ~ torn /\ status' = [status EXCEPT ![a] = request[c].verdict]
    BY <1>3, <2>2 DEF Logged
  <2>4. /\ request'[c].at = "idle"
        /\ \A d \in GatewayClient \ {c} : request'[d] = request[d]
    BY <1>1, FinishedTyped DEF GatewayInv, Abort, Served
  <2>5. /\ halted' \subseteq halted \ Unstopped(c) /\ halted' \subseteq halted
        /\ parted \subseteq parted'
    BY <1>1 DEF Abort
  <2> QED
    BY <1>1, <2>1, <2>2, <2>3, <2>4, <2>5, EventKeeps
<1> QED
  BY <1>2, <1>3

\* The write of the temporary file by an operation.
LEMMA WriteTempKeeps ==
  ASSUME GatewayInv, GatewayTypeOK', NEW c \in GatewayClient, WriteTemp(c)
  PROVE  GatewayInv'
<1>1. /\ UNCHANGED <<status, preview, previewed, request, torn, written, parted, halted>>
      /\ request[c].at \in Writing
  BY DEF WriteTemp
<1>2. previewed' \in Nat /\ previewed' >= previewed
  BY <1>1, GatewayAssumption DEF GatewayInv, GatewayTypeOK
<1>3. NewState(c) \in StateFile /\ NewState(c).text = "full"
  BY <1>1, NewStateTyped DEF GatewayInv, ServiceOK, Lone
<1>4. NewState(c)' = NewState(c)
  BY <1>1 DEF NewState
<1>5. \A d \in GatewayClient \ {c} : writer'[d].at = writer[d].at
  BY <1>3, OpenTempTyped, FillTempTyped DEF WriteTemp, GatewayInv
<1>6. WriterOK(c)' /\ (~ request[c].disturbed => stateFile' = stateFile)
  <2>1. CASE OpenTemp(c)
    BY <1>1, <2>1, OpenTempTyped DEF OpenTemp, WriterOK, GatewayInv
  <2>2. CASE FillTemp(c, NewState(c))
    <3>1. writer'[c].at = "rename" /\ writer[c].at = "fill" /\ Put(c, NewState(c))
      BY <1>3, <2>2, FillTempTyped DEF FillTemp, GatewayInv
    <3>2. ~ request[c].disturbed => temp' = NewState(c) /\ stateFile' = stateFile
      BY <1>3, <3>1 DEF Put, Over, GatewayInv, WriterOK
    <3> QED
      BY <1>1, <1>4, <3>1, <3>2 DEF WriterOK
  <2> QED
    BY <2>1, <2>2 DEF WriteTemp
<1>7. ServiceOK(c)'
  BY <1>1, <1>6 DEF GatewayInv, ServiceOK, Lone, Writing
<1>8. \A a \in Action : LogOK(c, a)'
  BY <1>1, <1>2, LogStays DEF Brings, Writing
<1>9. \A a \in halted' : status'[a] = "revoked"
  BY <1>1, HaltedStays DEF Stopping, Writing
<1>10. torn => request[c].at \in {"stop", "resume"}
  BY <1>1 DEF GatewayInv, TornOK, Writing
<1>11. MyTurn(c) \/ request[c].at # "idle"
  BY <1>1 DEF Writing
<1> QED
  BY <1>1, <1>5, <1>6, <1>7, <1>8, <1>9, <1>10, <1>11, GatewayStep

LEMMA MissTempKeeps ==
  ASSUME GatewayInv, GatewayTypeOK', NEW c \in GatewayClient, MissTemp(c)
  PROVE  GatewayInv'
<1>1. /\ request[c].at # "idle" /\ Abort(c) /\ UNCHANGED <<status, written, previewed>>
      /\ writer'[c].at = "idle" /\ \A d \in GatewayClient \ {c} : writer'[d].at = writer[d].at
  BY NoWriteTyped, ServedTyped DEF MissTemp, Writing, GatewayInv
<1> QED
  BY <1>1, AbortKeeps

\* A visitor that writes disturbs whoever would rely on what it writes.
LEMMA WriteDefaultKeeps ==
  ASSUME GatewayInv, GatewayTypeOK', NEW v \in Visitor, WriteDefault(v)
  PROVE  GatewayInv'
<1>1. /\ UNCHANGED <<status, preview, previewed, torn, written, parted, halted>>
      /\ request' = Disturbed
  BY DEF WriteDefault
<1>2. \A c \in GatewayClient :
         /\ request'[c].at = request[c].at /\ request'[c].copy = request[c].copy
         /\ request'[c].events = request[c].events /\ request'[c].verdict = request[c].verdict
         /\ ~ request'[c].disturbed =>
               /\ ~ request[c].disturbed
               /\ request[c].at \in Writing => stateFile' = stateFile /\ writer[c].at = "idle"
  BY <1>1, DisturbedTyped DEF GatewayInv
<1>3. \A c \in GatewayClient : writer'[c].at = writer[c].at
  <2>1. v \in GatewayClient \union Visitor
        /\ \A c \in GatewayClient : c \in GatewayClient \union Visitor /\ c # v
    BY GatewayAssumption DEF GatewayClient
  <2>2. GatewayTypeOK /\ DefaultState \in StateFile
    BY ServedTyped DEF GatewayInv
  <2>3. CASE OpenTemp(v)
    BY <2>1, <2>2, <2>3, OpenTempTyped
  <2>4. CASE FillTemp(v, DefaultState)
    BY <2>1, <2>2, <2>4, FillTempTyped
  <2>5. CASE RenameTemp(v)
    BY <2>1, <2>2, <2>5, RenameTempTyped
  <2>6. CASE writer' = [writer EXCEPT ![v] = NoWrite]
    BY <2>1, <2>2, <2>6, NoWriteTyped
  <2> QED
    BY <2>3, <2>4, <2>5, <2>6 DEF WriteDefault
<1>4. Serial' /\ TornOK'
  BY <1>1, <1>2 DEF GatewayInv, Serial, TornOK
<1>5. ASSUME NEW c \in GatewayClient PROVE ServiceOK(c)'
  <2>1. \A a, s : Lone(c, a, s)' <=> Lone(c, a, s)
    BY <1>2 DEF Lone
  <2>2. Open' = Open /\ ServiceOK(c)
    BY <1>1 DEF Open, GatewayInv
  <2> QED
    BY <1>1, <1>2, <2>1, <2>2 DEF ServiceOK, Writing
<1>6. ASSUME NEW c \in GatewayClient PROVE WriterOK(c)'
  <2>1. writer[c].at # "idle" => request[c].at \in Writing
    BY DEF GatewayInv, WriterOK
  <2> QED
    BY <1>2, <1>3, <2>1 DEF WriterOK
<1>7. /\ LogMatchesState' /\ FreshOK'
      /\ \A a \in Action : status'[a] = "none" => written'[a] = "nothing"
  <2>1. \A a \in Action : UnderWay(a)' <=> UnderWay(a)
    BY <1>2 DEF UnderWay
  <2> QED
    BY <1>1, <2>1 DEF GatewayInv, LogMatchesState, FreshOK
<1>8. HaltedOK'
  <2>1. \A a \in halted, c \in GatewayClient : Stopping(c, a)' <=> Stopping(c, a)
    BY <1>2 DEF Stopping
  <2> QED
    BY <1>1, <2>1 DEF GatewayInv, HaltedOK
<1> QED
  BY <1>4, <1>5, <1>6, <1>7, <1>8 DEF GatewayInv

LEMMA GatewayNextKeeps == GatewayInv /\ [GatewayNext]_gatewayVars => GatewayInv'
<1> SUFFICES ASSUME GatewayInv, [GatewayNext]_gatewayVars PROVE GatewayInv'
  OBVIOUS
<1>1. GatewayTypeOK'
  <2>1. Armed
    BY DEF GatewayInv, ServiceOK, Armed, Lone
  <2> QED
    BY <2>1, GatewayNextTyped DEF GatewayInv
<1>2. CASE UNCHANGED gatewayVars
  BY <1>1, <1>2, GatewayUnmoved DEF gatewayVars
<1>3. CASE WindowEnds
  BY <1>1, <1>3, GatewayUnmoved DEF WindowEnds, fileVars
<1>4. CASE ServerDies
  BY <1>1, <1>4, ServerDiesKeeps
<1>5. ASSUME NEW c \in Owner,
             PreviewAction(c) \/ ApproveAction(c) \/ RollBackAction(c) \/ SwitchActions(c)
      PROVE  GatewayInv'
  <2>1. c \in GatewayClient
    BY DEF GatewayClient
  <2> QED
    BY <1>1, <1>5, <2>1, PreviewActionKeeps, ApproveActionKeeps, RollBackActionKeeps,
       SwitchActionsKeeps
<1>6. ASSUME NEW w \in Performer, ListApproved(w) PROVE GatewayInv'
  BY <1>1, <1>6, GatewayUnmoved DEF ListApproved, fileVars
<1>7. ASSUME NEW w \in Performer, ExecuteAction(w) PROVE GatewayInv'
  BY <1>1, <1>7, ExecuteActionKeeps
<1>8. ASSUME NEW c \in GatewayClient, MeetJam(c) PROVE GatewayInv'
  <2>1. /\ Abort(c) /\ request[c].at # "idle" /\ UNCHANGED <<writer, status, written, previewed>>
        /\ writer[c].at = "idle"
    BY <1>8 DEF MeetJam, fileVars, Writing
  <2> QED
    BY <1>1, <2>1, AbortKeeps
<1>9. ASSUME NEW c \in GatewayClient, Serve(c) \/ WriteFails(c) PROVE GatewayInv'
  BY <1>1, <1>8, <1>9, CompareStateKeeps, SetPreferenceKeeps, SwitchStateKeeps, FindOpenKeeps,
     LogEventKeeps, WriteFailsKeeps, WriteTempKeeps, MissTempKeeps DEF Serve
<1>10. ASSUME NEW v \in Visitor, FindNoFile(v) PROVE GatewayInv'
  <2>1. \A c \in GatewayClient : c # v
    BY GatewayAssumption DEF GatewayClient
  <2>2. \A c \in GatewayClient : writer'[c] = writer[c]
    BY <1>10, <2>1 DEF FindNoFile, GatewayInv, GatewayTypeOK
  <2> QED
    BY <1>1, <1>10, <2>2, GatewayUnmoved DEF FindNoFile
<1>11. ASSUME NEW v \in Visitor, WriteDefault(v) PROVE GatewayInv'
  BY <1>1, <1>11, WriteDefaultKeeps
<1> QED
  BY <1>2, <1>3, <1>4, <1>5, <1>6, <1>7, <1>9, <1>10, <1>11 DEF GatewayNext

\* While an operation is in service it is the only one, and its event is one that the log
\* has room for; what it read of the state file is what the state file holds and what it is
\* about to rename is what it wrote, unless a read that had found no state file has written
\* meanwhile (mutate, server.mjs; writeState and initialize, store.mjs).
THEOREM GatewayInvariance == GatewaySpec => []GatewayInv
  BY GatewayStart, GatewayNextKeeps, PTL DEF GatewaySpec

\* The variables keep their types.
THEOREM GatewayTypeCorrect == GatewaySpec => []GatewayTypeOK
<1>1. GatewayInv => GatewayTypeOK
  BY DEF GatewayInv
<1> QED
  BY <1>1, GatewayInvariance, PTL

\* The log of the action gateway tells what was done to its state file, whatever numbers
\* of owners and workers call it and however often it fails or dies, but for the actions
\* whose event such an accident took, or whose write a visitor disturbed (execute and
\* rollback, runtime.mjs).
THEOREM LogAlwaysMatchesState == GatewaySpec => []LogMatchesState
<1>1. GatewayInv => LogMatchesState
  BY DEF GatewayInv
<1> QED
  BY <1>1, GatewayInvariance, PTL

\* No operation's write of the state file undoes what another operation wrote, and no action
\* that a completed emergency stop found open is ever applied; only a read that had found no
\* state file, and what it disturbs, may (writeState, emergencyStop, initialize).
THEOREM StateEditsAlwaysOwned == GatewaySpec => StateEditsAreOwned
<1>1. ASSUME GatewayInv, [GatewayNext]_gatewayVars, ~ Strays, stateFile' # stateFile
      PROVE  \E c \in GatewayClient : SetPreference(c) \/ SwitchState(c)
  <2>1. \A c \in GatewayClient : writer[c].at = "fill" => writer[c].file = "temp"
    BY <1>1 DEF GatewayInv, WriterOK, Strays
  <2>2. ASSUME NEW c \in GatewayClient, WriteTemp(c) \/ WriteFails(c) PROVE FALSE
    BY <1>1, <2>1, <2>2 DEF WriteTemp, WriteFails, OpenTemp, FillTemp, Put
  <2>3. ASSUME NEW v \in Visitor, WriteDefault(v) PROVE FALSE
    <3>1. writer'[v].at = writer[v].at
      BY <1>1 DEF Strays
    <3>2. CASE writer[v].at = "open" /\ OpenTemp(v)
      BY <1>1, <3>1, <3>2, OpenTempTyped DEF GatewayInv
    <3>3. CASE FillTemp(v, DefaultState)
      BY <1>1, <3>1, <3>3, FillTempTyped, ServedTyped DEF GatewayInv, FillTemp
    <3>4. CASE RenameTemp(v)
      BY <1>1, <3>1, <3>4, RenameTempTyped, ServedTyped DEF GatewayInv, RenameTemp
    <3>5. CASE UNCHANGED <<stateFile, temp>>
      BY <1>1, <3>5
    <3> QED
      BY <2>3, <3>2, <3>3, <3>4, <3>5 DEF WriteDefault
  <2> QED
    BY <1>1, <2>2, <2>3 DEF GatewayNext, Serve, gatewayVars, WindowEnds, ServerDies,
       PreviewAction, ApproveAction, RollBackAction, SwitchActions, ListApproved, ExecuteAction,
       CompareState, FindOpen, LogEvent, MeetJam, MissTemp, FindNoFile, fileVars
\* What an undisturbed operation renames.
<1>2. ASSUME GatewayInv, ~ Strays, NEW c \in GatewayClient, RenameTemp(c)
      PROVE  stateFile' = NewState(c)
  BY <1>2 DEF RenameTemp, GatewayInv, WriterOK, Strays
<1>3. ASSUME GatewayInv, ~ Strays, NEW c \in GatewayClient, SwitchState(c)
      PROVE  /\ stateFile'.preference = stateFile.preference
             /\ stateFile'.emergencyStop = (request[c].at = "stop")
             /\ c \in Owner /\ request[c].at \in {"stop", "resume"}
  <2>1. request[c].at \in {"stop", "resume"} /\ stateFile' = NewState(c)
    BY <1>2, <1>3 DEF SwitchState
  <2>2. request[c].copy = stateFile /\ c \in Owner /\ stateFile \in StateFile
    BY <1>3, <2>1 DEF GatewayInv, ServiceOK, GatewayTypeOK, Strays
  <2>3. stateFile' = [[stateFile EXCEPT !.text = "full"]
                        EXCEPT !.emergencyStop = request[c].at = "stop"]
    BY <2>1, <2>2 DEF NewState
  <2> QED
    BY <2>1, <2>2, <2>3 DEF StateFile
<1>4. ASSUME GatewayInv, ~ Strays, NEW c \in GatewayClient, SetPreference(c)
      PROVE  /\ stateFile'.emergencyStop = stateFile.emergencyStop
             /\ \E a \in Action \ halted :
                  \/ /\ status[a] = "approved" /\ ~ stateFile.emergencyStop
                     /\ stateFile.preference = preview[a].previous
                     /\ stateFile'.preference = preview[a].next
                  \/ /\ status[a] = "executed"
                     /\ stateFile.preference = preview[a].next
                     /\ stateFile'.preference = preview[a].previous
  <2>1. request[c].at \in {"apply", "undo"} /\ stateFile' = NewState(c)
    BY <1>2, <1>4 DEF SetPreference
  <2>2. PICK a \in Action :
           /\ request[c].events = {a} /\ request[c].copy = stateFile
           /\ \/ /\ request[c].at = "apply" /\ status[a] = "approved"
                 /\ ~ stateFile.emergencyStop /\ stateFile.preference = preview[a].previous
              \/ /\ request[c].at = "undo" /\ status[a] = "executed"
                 /\ stateFile.preference = preview[a].next
    BY <1>4, <2>1 DEF GatewayInv, ServiceOK, Lone, Strays
  <2>3. stateFile \in StateFile
    BY <1>4 DEF GatewayInv, GatewayTypeOK
  <2>4. (CHOOSE e \in request[c].events : TRUE) = a
    BY <2>2
  <2>5. stateFile' = [[stateFile EXCEPT !.text = "full"] EXCEPT !.preference =
           IF request[c].at = "apply" THEN preview[a].next ELSE preview[a].previous]
    BY <2>1, <2>2, <2>4 DEF NewState
  <2>6. a \notin halted
    <3>1. a \in halted => status[a] = "revoked"
      BY <1>4, <2>1, HaltedStays DEF Stopping
    <3> QED
      BY <2>2, <3>1
  <2> QED
    BY <2>2, <2>3, <2>5, <2>6 DEF StateFile
<1>5. GatewayInv /\ [GatewayNext]_gatewayVars =>
        [Strays \/
         /\ stateFile'.emergencyStop # stateFile.emergencyStop =>
              \E c \in Owner : request[c].at = IF stateFile'.emergencyStop THEN "stop" ELSE "resume"
         /\ stateFile'.preference # stateFile.preference =>
              \E a \in Action \ halted :
                 \/ /\ status[a] = "approved" /\ ~ stateFile.emergencyStop
                    /\ stateFile.preference = preview[a].previous
                    /\ stateFile'.preference = preview[a].next
                 \/ /\ status[a] = "executed"
                    /\ stateFile.preference = preview[a].next
                    /\ stateFile'.preference = preview[a].previous
        ]_gatewayVars
  BY <1>1, <1>3, <1>4
<1> QED
  BY <1>5, GatewayInvariance, PTL DEF GatewaySpec, StateEditsAreOwned

-----------------------------------------------------------------------------
(* Scheduler *)

\* An order of the slots that are due, and one of the rules of the event e.
SlotOrder(o) == o.key \in Schedule \X Slot /\ o.key[2] <= clock
RuleOrder(o, e) == \E r \in Rule : o.key = <<e, r>>

\* With d dispatched, the key k has something created under it.
Done(k, d) == \E t \in Table : d[<<k, t>>] # <<>>

\* Between its two loops: what the orders of the tick me are about.
OrdersOK(me) ==
    /\ me.events \union me.current \subseteq {e \in Event : event[e] # "none"}
    /\ me.current = {} => \A o \in me.orders \union me.order : SlotOrder(o)
    /\ \A e \in me.current : \A o \in me.orders \union me.order : RuleOrder(o, e)
    /\ me.at \notin {"insert", "rules", "finish"} => me.current = {}
    /\ me.at \notin {"insert", "mark"} => me.order = {}
    /\ me.at = "insert" => me.order \subseteq me.orders
    /\ me.at \in {"inbox", "events", "finish"} => me.orders = {}
    /\ me.at \notin {"mark", "finish"} => ~ me.failed

\* With d dispatched: the rule r has been dispatched for e, or the tick me will.
Reached(me, e, r, d) ==
    Done(<<e, r>>, d) \/ \E o \in me.orders : o.key = <<e, r>>

\* What the tick me has done by then.
DoneOK(me, d) ==
    /\ me.at = "mark" /\ ~ me.failed => \A o \in me.order : Done(o.key, d)
    /\ me.at \in {"rules", "insert", "finish"} /\ ~ me.failed =>
          \A e \in me.current : \A r \in owed[e] : Reached(me, e, r, d)

OwedAreSelecting == \A e \in Event : \A r \in owed[e] : e \in rule[r].selects

\* The slot has come, or the event has been emitted.
Timely(k) == /\ k \in Schedule \X Slot => k[2] <= clock
             /\ k \in Event \X Rule => event[k[1]] # "none"

\* Nothing is created twice in a table, nor too early.
Singles ==
    /\ \A k \in Occurrence : \A t \in Table : Len(dispatched[<<k, t>>]) <= 1
    /\ \A k \in Occurrence : Done(k, dispatched) => Timely(k)

\* Whatever was owed to a processed event has been dispatched.
ProcessedWasDispatched ==
    \A e \in Event : event[e] = "processed" =>
        \A r \in owed[e] : WasDispatched(<<e, r>>)

SchedulerInv ==
    /\ SchedulerTypeOK
    /\ Singles
    /\ ProcessedWasDispatched
    /\ OwedAreSelecting
    /\ \A p \in Process : OrdersOK(ticker[p]) /\ DoneOK(ticker[p], dispatched)

\* A counter below its bound.
LEMMA CountsUp ==
  ASSUME SchedulerTypeOK
  PROVE  /\ edits < EditBound => edits + 1 \in 0..EditBound
         /\ mishaps < MishapBound => mishaps + 1 \in 0..MishapBound
  BY SchedulerAssumption DEF SchedulerTypeOK

LEMMA AsleepTyped ==
  /\ Asleep \in TickerState
  /\ [Asleep EXCEPT !.at = "tick"] \in TickerState
<1>. 0 \in Slot
  BY SchedulerAssumption DEF Slot
<1>. QED
  BY DEF Asleep, TickerState

LEMMA OutcomeTyped ==
  ASSUME NEW me \in TickerState, NEW o \in Order, NEW ok \in BOOLEAN, NEW t \in Slot
  PROVE  Dispatched(me, o, ok, t) \in TickerState
  BY DEF Dispatched, TickerState

LEMMA OnwardTyped ==
  ASSUME NEW me \in TickerState
  PROVE  Onward(me) \in TickerState
<1>. 0 \in Slot
  BY SchedulerAssumption DEF Slot
<1>. QED
  BY DEF Onward, TickerState

\* The step of one tick that touches nothing else.
LEMMA ProceedsTyped ==
  ASSUME SchedulerTypeOK, NEW p \in Process, NEW me \in TickerState, Proceeds(p, me)
  PROVE  ticker' \in [Process -> TickerState]
  BY DEF SchedulerTypeOK, Proceeds

LEMMA LeaveTyped ==
  ASSUME SchedulerTypeOK, NEW p \in Process, Leave(p)
  PROVE  ticker' \in [Process -> TickerState] /\ lease' \in LeaseRow
<1>1. ticker' \in [Process -> TickerState]
  BY AsleepTyped, ProceedsTyped DEF Leave
<1>2. lease' \in LeaseRow
  BY DEF Leave, SchedulerTypeOK, LeaseRow
<1>. QED
  BY <1>1, <1>2

LEMMA OrderTyped ==
  /\ \A s \in Schedule : \A t \in Slot : \A c \in Command : [key |-> <<s, t>>, asks |-> c] \in Order
  /\ \A e \in Event : \A r \in Rule : \A c \in Command : [key |-> <<e, r>>, asks |-> c] \in Order
  BY DEF Order, Occurrence

LEMMA EntryTyped ==
  /\ \A o \in Order : /\ Entry(o) \in Occurrence \X Table
                      /\ \A d : d[Entry(o)] # <<>> => Done(o.key, d)
  /\ \A k, d : (\A t \in Table : d[<<k, t>>] = <<>>) => ~ Done(k, d)
  BY DEF Entry, Order, Table, Done

LEMMA RequestsTyped ==
  ASSUME SchedulerTypeOK,
         \/ \E s \in Schedule : EditSchedule(s)
         \/ \E r \in Rule : EditRule(r)
         \/ \E e \in Event : EmitEvent(e)
         \/ TimePasses \/ LeaseLapses
  PROVE  SchedulerTypeOK'
<1>1. ASSUME NEW s \in Schedule, EditSchedule(s) PROVE SchedulerTypeOK'
  <2>1. PICK t \in Coming, c \in Command, on \in BOOLEAN :
          schedule' = [schedule EXCEPT ![s] = [@ EXCEPT !.slot = t, !.asks = c, !.enabled = on]]
    BY <1>1 DEF EditSchedule
  <2>3. [schedule[s] EXCEPT !.slot = t, !.asks = c, !.enabled = on] \in ScheduleRow
    BY DEF Coming, SchedulerTypeOK, ScheduleRow
  <2>4. schedule' \in [Schedule -> ScheduleRow]
    BY <2>1, <2>3 DEF SchedulerTypeOK
  <2>5. edits < EditBound /\ edits' = edits + 1
    BY <1>1 DEF EditSchedule
  <2>2. edits' \in 0..EditBound
    BY <2>5, CountsUp
  <2>. QED
    BY <1>1, <2>4, <2>2 DEF EditSchedule, SchedulerTypeOK
<1>2. ASSUME NEW r \in Rule, EditRule(r) PROVE SchedulerTypeOK'
  BY <1>2, SchedulerAssumption DEF EditRule, SchedulerTypeOK
<1>3. ASSUME NEW e \in Event, EmitEvent(e) PROVE SchedulerTypeOK'
  BY <1>3 DEF EmitEvent, SchedulerTypeOK
<1>4. ASSUME TimePasses PROVE SchedulerTypeOK'
  BY <1>4, SchedulerAssumption DEF TimePasses, SchedulerTypeOK
<1>5. ASSUME LeaseLapses PROVE SchedulerTypeOK'
  BY <1>5 DEF LeaseLapses, SchedulerTypeOK, LeaseRow
<1>. QED
  BY <1>1, <1>2, <1>3, <1>4, <1>5

LEMMA DispatchTyped ==
  ASSUME SchedulerTypeOK, NEW p \in Process, Dispatch(p) \/ InsertOrder(p)
  PROVE  SchedulerTypeOK'
<1>. ticker[p] \in TickerState
  BY DEF SchedulerTypeOK
<1>1. ASSUME NEW o \in Order, CreateOrder(o)
      PROVE  dispatched' \in [Occurrence \X Table -> Seq(Command)]
  BY <1>1, EntryTyped DEF CreateOrder, SchedulerTypeOK, Order
<1>2. ASSUME NEW o \in Order, NEW t \in Coming, NEW ok \in BOOLEAN,
             Proceeds(p, Dispatched(ticker[p], o, ok, t))
      PROVE  ticker' \in [Process -> TickerState]
  BY <1>2, OutcomeTyped, ProceedsTyped DEF Coming
<1>3. CASE Dispatch(p)
  <2>1. PICK o \in ticker[p].orders, t \in Coming :
          \/ Proceeds(p, Dispatched(ticker[p], o, FALSE, t)) /\ UNCHANGED dispatched
          \/ /\ Proceeds(p, Dispatched(ticker[p], o, SameRequest(o), t))
             /\ UNCHANGED dispatched
          \/ Proceeds(p, Dispatched(ticker[p], o, TRUE, t)) /\ CreateOrder(o)
          \/ /\ Proceeds(p, [ticker[p] EXCEPT !.at = "insert", !.order = {o}])
             /\ UNCHANGED dispatched
    BY <1>3 DEF Dispatch
  <2>2. o \in Order
    BY DEF TickerState
  <2>3. SameRequest(o) \in BOOLEAN
    BY DEF SameRequest
  <2>4. [ticker[p] EXCEPT !.at = "insert", !.order = {o}] \in TickerState
    BY <2>2 DEF TickerState
  <2>5. ticker' \in [Process -> TickerState]
    BY <1>2, <2>1, <2>2, <2>3, <2>4, ProceedsTyped
  <2>6. dispatched' \in [Occurrence \X Table -> Seq(Command)]
    BY <1>1, <2>1, <2>2 DEF SchedulerTypeOK
  <2>. QED
    BY <1>3, <2>5, <2>6 DEF Dispatch, SchedulerTypeOK
<1>4. CASE InsertOrder(p)
  <2>1. PICK o \in ticker[p].order, t \in Coming :
          IF KeyFree(o)
            THEN CreateOrder(o) /\ Proceeds(p, Dispatched(ticker[p], o, TRUE, t))
            ELSE /\ Proceeds(p, Dispatched(ticker[p], o,
                           o.asks \in WorkflowCommand /\ SameRequest(o), t))
                 /\ UNCHANGED dispatched
    BY <1>4 DEF InsertOrder
  <2>2. o \in Order
    BY DEF TickerState
  <2>3. (o.asks \in WorkflowCommand /\ SameRequest(o)) \in BOOLEAN
    BY DEF SameRequest
  <2>5. ticker' \in [Process -> TickerState]
    BY <1>2, <2>1, <2>2, <2>3
  <2>6. dispatched' \in [Occurrence \X Table -> Seq(Command)]
    BY <1>1, <2>1, <2>2 DEF SchedulerTypeOK
  <2>. QED
    BY <1>4, <2>5, <2>6 DEF InsertOrder, SchedulerTypeOK
<1>. QED
  BY <1>3, <1>4

LEMMA ReadsTyped ==
  ASSUME SchedulerTypeOK, NEW p \in Process,
         TakeLead(p) \/ ReadSchedules(p) \/ ReadEvents(p) \/ NextEvent(p)
  PROVE  SchedulerTypeOK'
<1>. ticker[p] \in TickerState
  BY DEF SchedulerTypeOK
<1>1. CASE TakeLead(p)
  BY <1>1, AsleepTyped, ProceedsTyped DEF TakeLead, SchedulerTypeOK, LeaseRow
<1>2. CASE ReadSchedules(p)
  <2>. DEFINE due == {s \in Schedule : IsDue(s)}
              me == [ticker[p] EXCEPT
          !.at = IF due = {} THEN "inbox" ELSE "schedules",
          !.orders = {[key |-> <<s, schedule[s].slot>>, asks |-> schedule[s].asks] : s \in due}]
  <2>1. \A s \in Schedule : schedule[s].slot \in Slot /\ schedule[s].asks \in Command
    BY DEF SchedulerTypeOK, ScheduleRow
  <2>2. {[key |-> <<s, schedule[s].slot>>, asks |-> schedule[s].asks] : s \in due} \subseteq Order
    BY <2>1, OrderTyped
  <2>3. me \in TickerState
    BY <2>2 DEF TickerState
  <2>4. Proceeds(p, me)
    BY <1>2 DEF ReadSchedules
  <2>. QED
    BY <1>2, <2>3, <2>4, ProceedsTyped DEF ReadSchedules, SchedulerTypeOK
<1>3. CASE ReadEvents(p)
  <2>. DEFINE me == [ticker[p] EXCEPT !.at = "events", !.events = {e \in Event : event[e] = "pending"}]
  <2>1. me \in TickerState
    BY DEF TickerState
  <2>2. Proceeds(p, me)
    BY <1>3 DEF ReadEvents
  <2>. QED
    BY <1>3, <2>1, <2>2, ProceedsTyped DEF ReadEvents, SchedulerTypeOK
<1>4. CASE NextEvent(p)
  <2>. DEFINE rules(e) == {r \in Rule : e \in rule[r].selects}
              me(e) == [ticker[p] EXCEPT
                !.at = IF rules(e) = {} THEN "finish" ELSE "rules",
                !.orders = {[key |-> <<e, r>>, asks |-> rule[r].asks] : r \in rules(e)},
                !.events = @ \ {e}, !.current = {e}]
              last == [ticker[p] EXCEPT !.at = "runs"]
  <2>1. Proceeds(p, last) \/ \E e \in ticker[p].events : Proceeds(p, me(e))
    BY <1>4 DEF NextEvent
  <2>2. last \in TickerState
    BY DEF TickerState
  <2>3. ASSUME NEW e \in ticker[p].events PROVE me(e) \in TickerState
    <3>1. e \in Event
      BY DEF TickerState
    <3>2. \A r \in Rule : rule[r].asks \in Command
      BY DEF SchedulerTypeOK, RuleRow
    <3>3. {[key |-> <<e, r>>, asks |-> rule[r].asks] : r \in rules(e)} \subseteq Order
      BY <3>1, <3>2, OrderTyped
    <3>. QED
      BY <3>1, <3>3 DEF TickerState
  <2>. QED
    BY <1>4, <2>1, <2>2, <2>3, ProceedsTyped DEF NextEvent, SchedulerTypeOK
<1>. QED
  BY <1>1, <1>2, <1>3, <1>4

LEMMA WritesTyped ==
  ASSUME SchedulerTypeOK, NEW p \in Process,
         MarkSchedule(p) \/ FinishEvent(p) \/ EndTick(p) \/ TickerDies(p)
  PROVE  SchedulerTypeOK'
<1>. ticker[p] \in TickerState
  BY DEF SchedulerTypeOK
<1>1. CASE MarkSchedule(p)
  <2>1. ticker[p].next \in Slot /\ ticker[p].failed \in BOOLEAN
    BY DEF TickerState
  <2>4. PICK o \in ticker[p].order :
          schedule' = [schedule EXCEPT ![o.key[1]] =
                          [@ EXCEPT !.slot = ticker[p].next, !.failed = ticker[p].failed]]
    BY <1>1 DEF MarkSchedule
  <2>5. \A s \in Schedule :
          [schedule[s] EXCEPT !.slot = ticker[p].next, !.failed = ticker[p].failed] \in ScheduleRow
    BY <2>1 DEF SchedulerTypeOK, ScheduleRow
  <2>2. schedule' \in [Schedule -> ScheduleRow]
    BY <2>4, <2>5 DEF SchedulerTypeOK
  <2>3. ticker' \in [Process -> TickerState]
    BY <1>1, OnwardTyped, ProceedsTyped DEF MarkSchedule
  <2>. QED
    BY <1>1, <2>2, <2>3 DEF MarkSchedule, SchedulerTypeOK
<1>2. CASE FinishEvent(p)
  <2>1. [ticker[p] EXCEPT !.at = "events", !.current = {}, !.failed = FALSE] \in TickerState
    BY DEF TickerState
  <2>2. ticker' \in [Process -> TickerState]
    BY <1>2, <2>1, ProceedsTyped DEF FinishEvent
  <2>. QED
    BY <1>2, <2>2 DEF FinishEvent, SchedulerTypeOK
<1>3. CASE EndTick(p)
  <2>1. ticker' \in [Process -> TickerState] /\ lease' \in LeaseRow
    BY <1>3, AsleepTyped, ProceedsTyped, LeaveTyped DEF EndTick, SchedulerTypeOK
  <2>. QED
    BY <1>3, <2>1 DEF EndTick, SchedulerTypeOK
<1>4. CASE TickerDies(p)
  <2>1. ticker' \in [Process -> TickerState]
    BY <1>4, AsleepTyped, ProceedsTyped DEF TickerDies
  <2>. QED
    BY <1>4, <2>1, SchedulerAssumption DEF TickerDies, SchedulerTypeOK
<1>. QED
  BY <1>1, <1>2, <1>3, <1>4

LEMMA RaisesTyped ==
  ASSUME SchedulerTypeOK, NEW p \in Process, StatementRaises(p)
  PROVE  SchedulerTypeOK'
<1>. ticker[p] \in TickerState
  BY DEF SchedulerTypeOK
<1>. DEFINE once == [ticker[p] EXCEPT !.failed = TRUE]
            later(t) == [ticker[p] EXCEPT !.failed = TRUE, !.next = t]
            lost(e) == [ticker[p] EXCEPT !.at = "finish", !.failed = TRUE,
                                         !.events = @ \ {e}, !.current = {e}]
<1>1. \/ Leave(p)
      \/ /\ \/ Proceeds(p, once) \/ Proceeds(p, Onward(ticker[p]))
            \/ \E t \in Coming : Proceeds(p, later(t))
            \/ \E e \in ticker[p].events : Proceeds(p, lost(e))
         /\ UNCHANGED lease
  BY DEF StatementRaises
<1>2. once \in TickerState /\ \A t \in Coming : later(t) \in TickerState
  BY DEF TickerState, Coming
<1>3. \A e \in ticker[p].events : lost(e) \in TickerState
  BY DEF TickerState
<1>4. ticker' \in [Process -> TickerState] /\ lease' \in LeaseRow
  BY <1>1, <1>2, <1>3, OnwardTyped, ProceedsTyped, LeaveTyped DEF SchedulerTypeOK
<1>5. mishaps' \in 0..MishapBound
  <2>1. mishaps < MishapBound /\ mishaps' = mishaps + 1
    BY DEF StatementRaises
  <2>. QED
    BY <2>1, CountsUp
<1>6. UNCHANGED <<clock, schedule, rule, event, dispatched, edits, owed>>
  BY DEF StatementRaises
<1>. QED
  BY <1>4, <1>5, <1>6 DEF SchedulerTypeOK

LEMMA SchedulerNextTyped == SchedulerTypeOK /\ [SchedulerNext]_schedulerVars => SchedulerTypeOK'
<1>. SUFFICES ASSUME SchedulerTypeOK, [SchedulerNext]_schedulerVars PROVE SchedulerTypeOK'
  OBVIOUS
<1>1. CASE UNCHANGED schedulerVars
  BY <1>1 DEF schedulerVars, SchedulerTypeOK
<1>2. CASE SchedulerNext
  BY <1>2, RequestsTyped, DispatchTyped, ReadsTyped, WritesTyped, RaisesTyped
     DEF SchedulerNext, TickerStep
<1>. QED
  BY <1>1, <1>2

LEMMA SchedulerInitTyped == SchedulerInit => SchedulerTypeOK
<1>. SUFFICES ASSUME SchedulerInit PROVE SchedulerTypeOK
  OBVIOUS
<1>1. schedule \in [Schedule -> ScheduleRow]
  BY DEF SchedulerInit, Coming, ScheduleRow
<1>2. rule \in [Rule -> RuleRow]
  BY DEF SchedulerInit, RuleRow
<1>3. dispatched \in [Occurrence \X Table -> Seq(Command)]
  BY DEF SchedulerInit
<1>4. lease \in LeaseRow
  BY DEF SchedulerInit, LeaseRow
<1>5. ticker \in [Process -> TickerState]
  BY AsleepTyped DEF SchedulerInit
<1>. QED
  BY <1>1, <1>2, <1>3, <1>4, <1>5, SchedulerAssumption DEF SchedulerInit, SchedulerTypeOK

\* Every row, key and tick is well typed, for any schedules, events, rules, replicas and
\* bounds (scheduler.py).
THEOREM SchedulerTypeCorrect == SchedulerSpec => []SchedulerTypeOK
  BY SchedulerInitTyped, SchedulerNextTyped, PTL DEF SchedulerSpec

-----------------------------------------------------------------------------

LEMMA AsleepOK ==
  /\ OrdersOK(Asleep) /\ DoneOK(Asleep, dispatched)
  /\ OrdersOK([Asleep EXCEPT !.at = "tick"])
  /\ DoneOK([Asleep EXCEPT !.at = "tick"], dispatched)
  BY DEF Asleep, OrdersOK, DoneOK

\* A step of one tick, by which no row changes that others rely on.
LEMMA Alone ==
  ASSUME SchedulerInv, SchedulerTypeOK', NEW p \in Process, NEW me \in TickerState,
         Proceeds(p, me), UNCHANGED <<clock, rule, event, dispatched, owed>>,
         OrdersOK(me), DoneOK(me, dispatched)
  PROVE  SchedulerInv'
<1>1. ASSUME NEW q \in Process PROVE OrdersOK(ticker'[q]) /\ DoneOK(ticker'[q], dispatched)
  <2>1. ticker'[q] = IF q = p THEN me ELSE ticker[q]
    BY DEF Proceeds, SchedulerInv, SchedulerTypeOK
  <2>. QED
    BY <2>1 DEF SchedulerInv
<1>2. ASSUME NEW q \in Process PROVE OrdersOK(ticker[q])' /\ DoneOK(ticker[q], dispatched)'
  <2>1. OrdersOK(ticker[q])'
    BY <1>1 DEF OrdersOK, SlotOrder, RuleOrder
  <2>2. DoneOK(ticker[q], dispatched)'
    BY <1>1 DEF DoneOK, Reached, Done
  <2>. QED
    BY <2>1, <2>2
<1>3. Singles' /\ ProcessedWasDispatched' /\ OwedAreSelecting'
  BY DEF SchedulerInv, Singles, Timely, Done, ProcessedWasDispatched, WasDispatched,
     OwedAreSelecting
<1>. QED
  BY <1>2, <1>3 DEF SchedulerInv

\* What ticks have dispatched stays so.
LEMMA DoneStays ==
  ASSUME SchedulerTypeOK, NEW me \in TickerState, NEW d, NEW more, OrdersOK(me), DoneOK(me, d),
         \A k \in Occurrence : Done(k, d) => Done(k, more)
  PROVE  DoneOK(me, more)
<1>1. ASSUME NEW o \in me.orders \union me.order PROVE o.key \in Occurrence
  BY DEF TickerState, Order
<1>2. ASSUME NEW e \in me.current, NEW r \in owed[e] PROVE <<e, r>> \in Occurrence
  BY DEF SchedulerTypeOK, TickerState, Occurrence
<1>. QED
  BY <1>1, <1>2 DEF DoneOK, Reached

\* The outcome of a dispatch: whatever is taken for done is.
LEMMA OutcomeOK ==
  ASSUME NEW me \in TickerState, OrdersOK(me), NEW d, DoneOK(me, d),
         me.at \in {"schedules", "rules", "insert"}, NEW o \in me.orders,
         NEW ok \in BOOLEAN, NEW t \in Slot, ok => Done(o.key, d)
  PROVE  /\ OrdersOK(Dispatched(me, o, ok, t))
         /\ DoneOK(Dispatched(me, o, ok, t), d)
<1>. ~ me.failed
  BY DEF OrdersOK
<1>1. CASE me.current = {}
  <2>. DEFINE you == [me EXCEPT !.at = "mark", !.orders = @ \ {o}, !.order = {o},
                               !.next = t, !.failed = ~ ok]
  <2>1. Dispatched(me, o, ok, t) = you
    BY <1>1 DEF Dispatched
  <2>2. /\ you.at = "mark" /\ you.orders = me.orders \ {o} /\ you.order = {o}
        /\ you.failed = ~ ok /\ you.events = me.events /\ you.current = me.current
    BY DEF TickerState
  <2>. HIDE DEF you
  <2>. QED
    BY <1>1, <2>1, <2>2 DEF OrdersOK, DoneOK
<1>2. CASE me.current # {} /\ ok /\ me.orders \ {o} # {}
  <2>. DEFINE you == [me EXCEPT !.at = "rules", !.orders = @ \ {o}, !.order = {}]
  <2>1. Dispatched(me, o, ok, t) = you
    BY <1>2 DEF Dispatched
  <2>2. /\ you.at = "rules" /\ you.orders = me.orders \ {o} /\ you.order = {}
        /\ you.failed = me.failed /\ you.events = me.events /\ you.current = me.current
    BY DEF TickerState
  <2>. HIDE DEF you
  <2>3. OrdersOK(you)
    BY <2>2 DEF OrdersOK
  <2>4. ASSUME NEW e \in you.current, NEW r \in owed[e] PROVE Reached(you, e, r, d)
    <3>1. me.at \in {"rules", "insert"}
      BY <1>2 DEF OrdersOK
    <3>2. Reached(me, e, r, d)
      BY <2>2, <3>1 DEF DoneOK
    <3>. QED
      BY <1>2, <2>2, <3>2 DEF Reached
  <2>. QED
    BY <2>1, <2>2, <2>3, <2>4 DEF DoneOK
<1>3. CASE me.current # {} /\ ~ (ok /\ me.orders \ {o} # {})
  <2>. DEFINE you == [me EXCEPT !.at = "finish", !.orders = {}, !.order = {}, !.failed = ~ ok]
  <2>1. Dispatched(me, o, ok, t) = you
    BY <1>3 DEF Dispatched
  <2>2. /\ you.at = "finish" /\ you.orders = {} /\ you.order = {}
        /\ you.failed = ~ ok /\ you.events = me.events /\ you.current = me.current
    BY DEF TickerState
  <2>. HIDE DEF you
  <2>3. OrdersOK(you)
    BY <1>3, <2>2 DEF OrdersOK
  <2>4. ASSUME ok, NEW e \in you.current, NEW r \in owed[e] PROVE Reached(you, e, r, d)
    <3>1. me.at \in {"rules", "insert"}
      BY <1>3 DEF OrdersOK
    <3>2. Reached(me, e, r, d)
      BY <2>2, <3>1 DEF DoneOK
    <3>. QED
      BY <1>3, <2>2, <2>4, <3>2 DEF Reached
  <2>. QED
    BY <2>1, <2>2, <2>3, <2>4 DEF DoneOK
<1>. QED
  BY <1>1, <1>2, <1>3

\* Nothing but the tick and what is dispatched changes.
LEMMA DispatchMoves ==
  ASSUME SchedulerInv, SchedulerTypeOK', NEW p \in Process, NEW me \in TickerState,
         Proceeds(p, me), UNCHANGED <<clock, rule, event, owed>>,
         \A k \in Occurrence \X Table : dispatched[k] # <<>> => dispatched'[k] = dispatched[k],
         Singles', OrdersOK(me), DoneOK(me, dispatched')
  PROVE  SchedulerInv'
<1>0. \A k \in Occurrence : Done(k, dispatched) => Done(k, dispatched')
  BY DEF Done
<1>1. ASSUME NEW q \in Process PROVE OrdersOK(ticker'[q]) /\ DoneOK(ticker'[q], dispatched')
  <2>1. ticker'[q] = IF q = p THEN me ELSE ticker[q]
    BY DEF Proceeds, SchedulerInv, SchedulerTypeOK
  <2>2. OrdersOK(ticker[q]) /\ DoneOK(ticker[q], dispatched) /\ ticker[q] \in TickerState
    BY DEF SchedulerInv, SchedulerTypeOK
  <2>3. DoneOK(ticker[q], dispatched')
    BY <1>0, <2>2, DoneStays DEF SchedulerInv
  <2>. QED
    BY <2>1, <2>2, <2>3
<1>2. \A q \in Process : OrdersOK(ticker[q])' /\ DoneOK(ticker[q], dispatched)'
  BY <1>1 DEF OrdersOK, DoneOK, Reached, Done, SlotOrder, RuleOrder
<1>3. ProcessedWasDispatched'
  <2>1. \A e \in Event : \A r \in owed[e] : <<e, r>> \in Occurrence
    BY DEF SchedulerInv, SchedulerTypeOK, Occurrence
  <2>. QED
    BY <1>0, <2>1 DEF SchedulerInv, ProcessedWasDispatched, WasDispatched, Done
<1>4. OwedAreSelecting'
  BY DEF SchedulerInv, OwedAreSelecting
<1>. QED
  BY <1>2, <1>3, <1>4 DEF SchedulerInv

\* What is created is the only one of its key, and due.
LEMMA CreateKeeps ==
  ASSUME SchedulerInv, NEW me \in TickerState, OrdersOK(me), NEW o \in me.orders,
         KeyFree(o), CreateOrder(o), UNCHANGED <<clock, event>>
  PROVE  /\ Singles'
         /\ Done(o.key, dispatched')
         /\ \A k \in Occurrence \X Table : dispatched[k] # <<>> => dispatched'[k] = dispatched[k]
<1>1. o \in Order /\ o.key \in Occurrence /\ Entry(o) \in Occurrence \X Table
  BY EntryTyped DEF TickerState, Order
<1>2. \A k \in Occurrence \X Table : dispatched'[k] =
          IF k = Entry(o) THEN Append(<<>>, o.asks) ELSE dispatched[k]
  BY <1>1 DEF CreateOrder, KeyFree, SchedulerInv, SchedulerTypeOK
<1>3. Append(<<>>, o.asks) = <<o.asks>> /\ Len(<<o.asks>>) = 1 /\ <<o.asks>> # <<>>
  OBVIOUS
<1>4. Timely(o.key)
  <2>1. CASE me.current = {}
    <3>1. o.key \in Schedule \X Slot /\ o.key[2] <= clock
      BY <2>1 DEF OrdersOK, SlotOrder
    <3>2. o.key \notin Event \X Rule
      BY <3>1, SchedulerAssumption
    <3>. QED
      BY <3>1, <3>2 DEF Timely
  <2>2. CASE me.current # {}
    <3>1. PICK e \in me.current : TRUE
      BY <2>2
    <3>2. PICK r \in Rule : o.key = <<e, r>>
      BY <3>1 DEF OrdersOK, RuleOrder
    <3>3. e \in Event /\ event[e] # "none"
      BY <3>1 DEF OrdersOK
    <3>4. o.key \notin Schedule \X Slot
      BY <3>2, <3>3, SchedulerAssumption
    <3>. QED
      BY <3>2, <3>3, <3>4 DEF Timely
  <2>. QED
    BY <2>1, <2>2
<1>5. ASSUME NEW k \in Occurrence PROVE \A t \in Table : Len(dispatched'[<<k, t>>]) <= 1
  BY <1>2, <1>3 DEF SchedulerInv, Singles
<1>6. ASSUME NEW k \in Occurrence, k # o.key, Done(k, dispatched') PROVE Done(k, dispatched)
  <2>1. \A t \in Table : <<k, t>> # Entry(o)
    BY <1>6 DEF Entry
  <2>. QED
    BY <1>2, <1>6, <2>1 DEF Done
<1>7. Singles'
  <2>. SUFFICES ASSUME NEW k \in Occurrence, Done(k, dispatched') PROVE Timely(k)
    BY <1>5 DEF Singles, Done, Timely
  <2>1. CASE k = o.key
    BY <1>4, <2>1
  <2>2. CASE k # o.key
    <3>1. Done(k, dispatched)
      BY <1>6, <2>2
    <3>. QED
      BY <3>1 DEF SchedulerInv, Singles
  <2>. QED
    BY <2>1, <2>2
<1>8. Done(o.key, dispatched')
  BY <1>1, <1>2, <1>3, EntryTyped
<1>9. \A k \in Occurrence \X Table : dispatched[k] # <<>> => dispatched'[k] = dispatched[k]
  BY <1>2 DEF KeyFree
<1>. QED
  BY <1>7, <1>8, <1>9

LEMMA DispatchKeeps ==
  ASSUME SchedulerInv, SchedulerTypeOK', NEW p \in Process, Dispatch(p) \/ InsertOrder(p)
  PROVE  SchedulerInv'
<1>. DEFINE me == ticker[p]
<1>0. me \in TickerState /\ OrdersOK(me) /\ DoneOK(me, dispatched)
  BY DEF SchedulerInv, SchedulerTypeOK
<1>10. me.orders \subseteq Order
  BY <1>0 DEF TickerState
<1>1. PICK o \in me.orders, t \in Slot, ok \in BOOLEAN :
        \/ /\ Proceeds(p, Dispatched(me, o, ok, t))
           /\ \/ UNCHANGED dispatched /\ (ok => Done(o.key, dispatched))
              \/ KeyFree(o) /\ CreateOrder(o)
        \/ /\ me.at \in {"schedules", "rules"}
           /\ Proceeds(p, [me EXCEPT !.at = "insert", !.order = {o}])
           /\ UNCHANGED dispatched
  <2>1. CASE Dispatch(p)
    <3>1. PICK o \in me.orders, t \in Coming :
            \/ Proceeds(p, Dispatched(me, o, FALSE, t)) /\ UNCHANGED dispatched
            \/ /\ ~ KeyFree(o)
               /\ Proceeds(p, Dispatched(me, o, SameRequest(o), t))
               /\ UNCHANGED dispatched
            \/ /\ KeyFree(o)
               /\ Proceeds(p, Dispatched(me, o, TRUE, t))
               /\ CreateOrder(o)
            \/ /\ Proceeds(p, [me EXCEPT !.at = "insert", !.order = {o}])
               /\ UNCHANGED dispatched
      BY <2>1 DEF Dispatch
    <3>2. t \in Slot /\ SameRequest(o) \in BOOLEAN
      BY DEF Coming, SameRequest
    <3>3. me.at \in {"schedules", "rules"}
      BY <2>1 DEF Dispatch
    <3>4. ~ KeyFree(o) => Done(o.key, dispatched)
      BY <1>10, EntryTyped DEF KeyFree
    <3>. QED
      BY <3>1, <3>2, <3>3, <3>4
  <2>2. CASE InsertOrder(p)
    <3>1. PICK o \in me.order, t \in Coming :
            IF KeyFree(o)
              THEN CreateOrder(o) /\ Proceeds(p, Dispatched(me, o, TRUE, t))
              ELSE /\ Proceeds(p, Dispatched(me, o,
                             o.asks \in WorkflowCommand /\ SameRequest(o), t))
                   /\ UNCHANGED dispatched
      BY <2>2 DEF InsertOrder
    <3>2. o \in me.orders
      BY <1>0, <2>2 DEF InsertOrder, OrdersOK
    <3>3. t \in Slot /\ (o.asks \in WorkflowCommand /\ SameRequest(o)) \in BOOLEAN
      BY DEF Coming, SameRequest
    <3>4. ~ KeyFree(o) => Done(o.key, dispatched)
      BY <1>10, <3>2, EntryTyped DEF KeyFree
    <3>. QED
      BY <3>1, <3>2, <3>3, <3>4
  <2>. QED
    BY <2>1, <2>2
<1>2. /\ me.at \in {"schedules", "rules", "insert"}
      /\ UNCHANGED <<clock, rule, event, owed>>
  BY DEF Dispatch, InsertOrder
<1>3. o \in Order
  BY <1>0 DEF TickerState
<1>4. CASE UNCHANGED dispatched /\ (ok => Done(o.key, dispatched))
           /\ Proceeds(p, Dispatched(me, o, ok, t))
  <2>1. Dispatched(me, o, ok, t) \in TickerState
    BY <1>0, <1>3, OutcomeTyped
  <2>2. /\ OrdersOK(Dispatched(me, o, ok, t))
        /\ DoneOK(Dispatched(me, o, ok, t), dispatched)
    BY <1>0, <1>2, <1>4, OutcomeOK
  <2>. QED
    BY <1>2, <1>4, <2>1, <2>2, Alone
<1>5. CASE KeyFree(o) /\ CreateOrder(o) /\ Proceeds(p, Dispatched(me, o, ok, t))
  <2>1. Dispatched(me, o, ok, t) \in TickerState
    BY <1>0, <1>3, OutcomeTyped
  <2>2. /\ Singles'
        /\ Done(o.key, dispatched')
        /\ \A k \in Occurrence \X Table : dispatched[k] # <<>> => dispatched'[k] = dispatched[k]
    BY <1>0, <1>2, <1>5, CreateKeeps
  <2>5. \A k \in Occurrence : Done(k, dispatched) => Done(k, dispatched')
    BY <2>2 DEF Done
  <2>3. DoneOK(me, dispatched')
    BY <1>0, <2>5, DoneStays DEF SchedulerInv
  <2>4. /\ OrdersOK(Dispatched(me, o, ok, t))
        /\ DoneOK(Dispatched(me, o, ok, t), dispatched')
    BY <1>0, <1>2, <2>2, <2>3, OutcomeOK
  <2>. QED
    BY <1>2, <1>5, <2>1, <2>2, <2>4, DispatchMoves
<1>6. CASE /\ me.at \in {"schedules", "rules"}
           /\ Proceeds(p, [me EXCEPT !.at = "insert", !.order = {o}])
           /\ UNCHANGED dispatched
  <2>. DEFINE you == [me EXCEPT !.at = "insert", !.order = {o}]
  <2>1. you \in TickerState
    BY <1>0, <1>3 DEF TickerState
  <2>2. /\ you.at = "insert" /\ you.orders = me.orders /\ you.order = {o}
        /\ you.failed = me.failed /\ you.events = me.events /\ you.current = me.current
    BY <1>0 DEF TickerState
  <2>. HIDE DEF you
  <2>3. OrdersOK(you) /\ DoneOK(you, dispatched)
    BY <1>0, <1>6, <2>2 DEF OrdersOK, DoneOK, Reached
  <2>. QED
    BY <1>2, <1>6, <2>1, <2>3, Alone DEF you
<1>. QED
  BY <1>1, <1>4, <1>5, <1>6

LEMMA ReadsKeep ==
  ASSUME SchedulerInv, SchedulerTypeOK', NEW p \in Process,
         TakeLead(p) \/ ReadSchedules(p) \/ ReadEvents(p) \/ NextEvent(p)
  PROVE  SchedulerInv'
<1>. DEFINE me == ticker[p]
<1>0. me \in TickerState /\ OrdersOK(me) /\ DoneOK(me, dispatched)
  BY DEF SchedulerInv, SchedulerTypeOK
<1>1. UNCHANGED <<clock, rule, event, dispatched, owed>>
  BY DEF TakeLead, ReadSchedules, ReadEvents, NextEvent
<1>2. ticker'[p] \in TickerState
  BY DEF SchedulerTypeOK
<1>3. ASSUME NEW you, Proceeds(p, you) PROVE you \in TickerState
  BY <1>2, <1>3 DEF Proceeds, SchedulerInv, SchedulerTypeOK
<1>4. CASE TakeLead(p)
  BY <1>1, <1>4, AsleepOK, AsleepTyped, Alone DEF TakeLead
<1>5. CASE ReadSchedules(p)
  <2>. DEFINE due == {s \in Schedule : IsDue(s)}
              found == {[key |-> <<s, schedule[s].slot>>, asks |-> schedule[s].asks] : s \in due}
              you == [me EXCEPT !.at = IF due = {} THEN "inbox" ELSE "schedules",
                                !.orders = found]
  <2>1. Proceeds(p, you) /\ me.at = "tick"
    BY <1>5 DEF ReadSchedules
  <2>2. /\ you.at = IF due = {} THEN "inbox" ELSE "schedules"
        /\ you.orders = found /\ you.order = me.order
        /\ you.failed = me.failed /\ you.events = me.events /\ you.current = me.current
    BY <1>0 DEF TickerState
  <2>3. \A o \in found : SlotOrder(o)
    BY DEF SlotOrder, IsDue, SchedulerInv, SchedulerTypeOK, ScheduleRow
  <2>7. due = {} => found = {}
    OBVIOUS
  <2>4. you \in TickerState
    BY <1>3, <2>1
  <2>. HIDE DEF you, found, due
  <2>5. OrdersOK(you)
    BY <1>0, <2>1, <2>2, <2>3, <2>7 DEF OrdersOK
  <2>6. DoneOK(you, dispatched)
    BY <2>2 DEF DoneOK
  <2>. QED
    BY <1>1, <2>1, <2>4, <2>5, <2>6, Alone
<1>6. CASE ReadEvents(p)
  <2>. DEFINE you == [me EXCEPT !.at = "events", !.events = {e \in Event : event[e] = "pending"}]
  <2>1. Proceeds(p, you) /\ me.at = "inbox"
    BY <1>6 DEF ReadEvents
  <2>2. /\ you.at = "events" /\ you.orders = me.orders /\ you.order = me.order
        /\ you.failed = me.failed /\ you.events = {e \in Event : event[e] = "pending"}
        /\ you.current = me.current
    BY <1>0 DEF TickerState
  <2>4. you \in TickerState
    BY <1>3, <2>1
  <2>. HIDE DEF you
  <2>5. OrdersOK(you) /\ DoneOK(you, dispatched)
    BY <1>0, <2>1, <2>2 DEF OrdersOK, DoneOK
  <2>. QED
    BY <1>1, <2>1, <2>4, <2>5, Alone
<1>7. CASE NextEvent(p)
  <2>. DEFINE rules(e) == {r \in Rule : e \in rule[r].selects}
              found(e) == {[key |-> <<e, r>>, asks |-> rule[r].asks] : r \in rules(e)}
              you(e) == [me EXCEPT !.at = IF rules(e) = {} THEN "finish" ELSE "rules",
                                   !.orders = found(e), !.events = @ \ {e}, !.current = {e}]
              last == [me EXCEPT !.at = "runs"]
  <2>1. me.at = "events" /\ (Proceeds(p, last) \/ \E e \in me.events : Proceeds(p, you(e)))
    BY <1>7 DEF NextEvent
  <2>2. ASSUME Proceeds(p, last) PROVE SchedulerInv'
    <3>1. last \in TickerState
      BY <1>3, <2>2
    <3>2. /\ last.at = "runs" /\ last.orders = me.orders /\ last.order = me.order
          /\ last.failed = me.failed /\ last.events = me.events /\ last.current = me.current
      BY <1>0 DEF TickerState
    <3>. HIDE DEF last
    <3>3. OrdersOK(last) /\ DoneOK(last, dispatched)
      BY <1>0, <2>1, <3>2 DEF OrdersOK, DoneOK
    <3>. QED
      BY <1>1, <2>2, <3>1, <3>3, Alone
  <2>3. ASSUME NEW e \in me.events, Proceeds(p, you(e)) PROVE SchedulerInv'
    <3>1. you(e) \in TickerState
      BY <1>3, <2>3
    <3>2. /\ you(e).at = IF rules(e) = {} THEN "finish" ELSE "rules"
          /\ you(e).orders = found(e) /\ you(e).order = me.order
          /\ you(e).failed = me.failed /\ you(e).events = me.events \ {e}
          /\ you(e).current = {e}
      BY <1>0 DEF TickerState
    <3>3. \A o \in found(e) : RuleOrder(o, e)
      BY DEF RuleOrder
    <3>4. \A r \in owed[e] : r \in rules(e)
      BY <1>0 DEF SchedulerInv, SchedulerTypeOK, OwedAreSelecting, TickerState
    <3>5. ASSUME NEW r \in rules(e) PROVE \E o \in found(e) : o.key = <<e, r>>
      <4>1. [key |-> <<e, r>>, asks |-> rule[r].asks] \in found(e)
        OBVIOUS
      <4>. QED
        BY <4>1
    <3>6. rules(e) = {} => found(e) = {}
      OBVIOUS
    <3>. HIDE DEF you, found, rules
    <3>7. OrdersOK(you(e))
      BY <1>0, <2>1, <3>2, <3>3, <3>6 DEF OrdersOK
    <3>8. DoneOK(you(e), dispatched)
      BY <3>2, <3>4, <3>5 DEF DoneOK, Reached
    <3>. QED
      BY <1>1, <2>3, <3>1, <3>7, <3>8, Alone
  <2>. QED
    BY <2>1, <2>2, <2>3
<1>. QED
  BY <1>4, <1>5, <1>6, <1>7

LEMMA LeaveKeeps ==
  ASSUME SchedulerInv, SchedulerTypeOK', NEW p \in Process,
         UNCHANGED <<clock, rule, event, dispatched, owed>>,
         Leave(p) \/ Proceeds(p, Asleep)
  PROVE  SchedulerInv'
  BY AsleepOK, AsleepTyped, Alone DEF Leave

LEMMA OnwardKeeps ==
  ASSUME SchedulerInv, SchedulerTypeOK', NEW p \in Process,
         UNCHANGED <<clock, rule, event, dispatched, owed>>,
         ticker[p].at = "mark", Proceeds(p, Onward(ticker[p]))
  PROVE  SchedulerInv'
<1>. DEFINE me == ticker[p]
            you == Onward(me)
<1>0. me \in TickerState /\ OrdersOK(me)
  BY DEF SchedulerInv, SchedulerTypeOK
<1>1. you \in TickerState
  BY <1>0, OnwardTyped
<1>2. /\ you.at = IF me.orders = {} THEN "inbox" ELSE "schedules"
      /\ you.orders = me.orders /\ you.order = {}
      /\ you.failed = FALSE /\ you.events = me.events /\ you.current = me.current
  BY <1>0 DEF TickerState, Onward
<1>. HIDE DEF you
<1>3. OrdersOK(you) /\ DoneOK(you, dispatched)
  BY <1>0, <1>2 DEF OrdersOK, DoneOK
<1>. QED
  BY <1>1, <1>3, Alone DEF you

LEMMA FinishKeeps ==
  ASSUME SchedulerInv, SchedulerTypeOK', NEW p \in Process, FinishEvent(p)
  PROVE  SchedulerInv'
<1>. DEFINE me == ticker[p]
            you == [me EXCEPT !.at = "events", !.current = {}, !.failed = FALSE]
<1>0. me \in TickerState /\ OrdersOK(me) /\ DoneOK(me, dispatched)
  BY DEF SchedulerInv, SchedulerTypeOK
<1>1. PICK e \in me.current :
        event' = [event EXCEPT ![e] = IF me.failed THEN "failed" ELSE "processed"]
  BY DEF FinishEvent
<1>2. /\ me.at = "finish" /\ Proceeds(p, you)
      /\ UNCHANGED <<clock, rule, dispatched, owed>>
  BY DEF FinishEvent
<1>3. /\ you.at = "events" /\ you.orders = me.orders /\ you.order = me.order
      /\ you.failed = FALSE /\ you.events = me.events /\ you.current = {}
  BY <1>0 DEF TickerState
<1>. HIDE DEF you
<1>4. OrdersOK(you) /\ DoneOK(you, dispatched)
  BY <1>0, <1>2, <1>3 DEF OrdersOK, DoneOK
<1>5. e \in Event
  BY <1>0 DEF TickerState
<1>6. \A f \in Event : event'[f] = IF f = e THEN IF me.failed THEN "failed" ELSE "processed"
                                   ELSE event[f]
  BY <1>1, <1>5 DEF SchedulerInv, SchedulerTypeOK
<1>7. \A q \in Process : ticker'[q] = IF q = p THEN you ELSE ticker[q]
  BY <1>2 DEF Proceeds, SchedulerInv, SchedulerTypeOK
<1>8. \A q \in Process : OrdersOK(ticker'[q]) /\ DoneOK(ticker'[q], dispatched)
  BY <1>4, <1>7 DEF SchedulerInv
<1>9. \A f \in Event : event[f] # "none" => event'[f] # "none"
  BY <1>6
<1>10. \A q \in Process : OrdersOK(ticker[q])' /\ DoneOK(ticker[q], dispatched)'
  BY <1>2, <1>8, <1>9 DEF OrdersOK, DoneOK, Reached, Done, SlotOrder, RuleOrder
<1>11. Singles'
  BY <1>2, <1>9 DEF SchedulerInv, Singles, Done, Timely
<1>12. ProcessedWasDispatched'
  <2>1. ASSUME ~ me.failed, NEW r \in owed[e] PROVE WasDispatched(<<e, r>>)
    <3>1. Reached(me, e, r, dispatched)
      BY <1>0, <1>2, <2>1 DEF DoneOK
    <3>. QED
      BY <1>0, <1>2, <3>1 DEF OrdersOK, Reached, Done, WasDispatched
  <2>. QED
    BY <1>2, <1>6, <2>1 DEF SchedulerInv, ProcessedWasDispatched, WasDispatched
<1>13. OwedAreSelecting'
  BY <1>2 DEF SchedulerInv, OwedAreSelecting
<1>. QED
  BY <1>10, <1>11, <1>12, <1>13 DEF SchedulerInv

LEMMA RaisesKeep ==
  ASSUME SchedulerInv, SchedulerTypeOK', NEW p \in Process, StatementRaises(p)
  PROVE  SchedulerInv'
<1>. DEFINE me == ticker[p]
            once == [me EXCEPT !.failed = TRUE]
            later(t) == [me EXCEPT !.failed = TRUE, !.next = t]
            lost(e) == [me EXCEPT !.at = "finish", !.failed = TRUE,
                                  !.events = @ \ {e}, !.current = {e}]
<1>0. me \in TickerState /\ OrdersOK(me) /\ DoneOK(me, dispatched)
  BY DEF SchedulerInv, SchedulerTypeOK
<1>1. UNCHANGED <<clock, rule, event, dispatched, owed>>
  BY DEF StatementRaises
<1>2. ticker'[p] \in TickerState
  BY DEF SchedulerTypeOK
<1>3. ASSUME NEW you, Proceeds(p, you) PROVE you \in TickerState
  BY <1>2, <1>3 DEF Proceeds, SchedulerInv, SchedulerTypeOK
<1>4. \/ Leave(p)
      \/ me.at = "finish" /\ Proceeds(p, once)
      \/ me.at = "mark" /\ Proceeds(p, Onward(me))
      \/ me.at = "mark" /\ \E t \in Coming : Proceeds(p, later(t))
      \/ me.at = "events" /\ \E e \in me.events : Proceeds(p, lost(e))
  BY DEF StatementRaises
<1>5. ASSUME me.at = "finish", Proceeds(p, once) PROVE SchedulerInv'
  <2>1. once \in TickerState
    BY <1>3, <1>5
  <2>2. /\ once.at = me.at /\ once.orders = me.orders /\ once.order = me.order
        /\ once.failed = TRUE /\ once.events = me.events /\ once.current = me.current
    BY <1>0 DEF TickerState
  <2>. HIDE DEF once
  <2>3. OrdersOK(once) /\ DoneOK(once, dispatched)
    BY <1>0, <1>5, <2>2 DEF OrdersOK, DoneOK
  <2>. QED
    BY <1>1, <1>5, <2>1, <2>3, Alone
<1>6. ASSUME me.at = "mark", NEW t \in Coming, Proceeds(p, later(t)) PROVE SchedulerInv'
  <2>1. later(t) \in TickerState
    BY <1>3, <1>6
  <2>2. /\ later(t).at = me.at /\ later(t).orders = me.orders /\ later(t).order = me.order
        /\ later(t).failed = TRUE /\ later(t).events = me.events
        /\ later(t).current = me.current
    BY <1>0 DEF TickerState
  <2>. HIDE DEF later
  <2>3. OrdersOK(later(t)) /\ DoneOK(later(t), dispatched)
    BY <1>0, <1>6, <2>2 DEF OrdersOK, DoneOK
  <2>. QED
    BY <1>1, <1>6, <2>1, <2>3, Alone
<1>7. ASSUME me.at = "events", NEW e \in me.events, Proceeds(p, lost(e)) PROVE SchedulerInv'
  <2>1. lost(e) \in TickerState
    BY <1>3, <1>7
  <2>2. /\ lost(e).at = "finish" /\ lost(e).orders = me.orders /\ lost(e).order = me.order
        /\ lost(e).failed = TRUE /\ lost(e).events = me.events \ {e}
        /\ lost(e).current = {e}
    BY <1>0 DEF TickerState
  <2>. HIDE DEF lost
  <2>3. OrdersOK(lost(e)) /\ DoneOK(lost(e), dispatched)
    BY <1>0, <1>7, <2>2 DEF OrdersOK, DoneOK
  <2>. QED
    BY <1>1, <1>7, <2>1, <2>3, Alone
<1>8. ASSUME Leave(p) PROVE SchedulerInv'
  BY <1>1, <1>8, LeaveKeeps
<1>9. ASSUME me.at = "mark", Proceeds(p, Onward(me)) PROVE SchedulerInv'
  BY <1>1, <1>9, OnwardKeeps
<1>. QED
  BY <1>4, <1>5, <1>6, <1>7, <1>8, <1>9

\* Requests and time: what is dispatched stays, an event stays emitted and is owed no more.
LEMMA RequestsKeep ==
  ASSUME SchedulerInv, SchedulerTypeOK',
         UNCHANGED <<ticker, dispatched>>, clock <= clock',
         \A e \in Event : event[e] # "none" => event'[e] = event[e] /\ owed'[e] \subseteq owed[e],
         \A e \in Event : event'[e] = "processed" => event[e] = "processed",
         OwedAreSelecting'
  PROVE  SchedulerInv'
<1>1. /\ clock \in Nat /\ clock' \in Nat
      /\ \A t \in Slot : t \in Nat
      /\ \A q \in Process : ticker[q] \in TickerState
  BY SchedulerAssumption DEF SchedulerInv, SchedulerTypeOK, Slot
<1>2. \A k \in Schedule \X Slot : k[2] <= clock => k[2] <= clock'
  BY <1>1
<1>3. ASSUME NEW q \in Process PROVE OrdersOK(ticker[q])' /\ DoneOK(ticker[q], dispatched)'
  <2>1. OrdersOK(ticker[q]) /\ DoneOK(ticker[q], dispatched)
    BY DEF SchedulerInv
  <2>2. \A o \in Order : SlotOrder(o) => SlotOrder(o)'
    BY <1>2 DEF SlotOrder
  <2>3. ticker[q].orders \union ticker[q].order \subseteq Order
    BY <1>1 DEF TickerState
  <2>4. OrdersOK(ticker[q])'
    BY <2>1, <2>2, <2>3 DEF OrdersOK, RuleOrder
  <2>5. \A e \in ticker[q].current : owed'[e] \subseteq owed[e]
    BY <2>1 DEF OrdersOK
  <2>6. DoneOK(ticker[q], dispatched)'
    BY <2>1, <2>5 DEF DoneOK, Reached, Done
  <2>. QED
    BY <2>4, <2>6
<1>4. Singles'
  <2>1. \A k : Timely(k) => Timely(k)'
    BY <1>2 DEF Timely
  <2>2. \A k \in Occurrence : Done(k, dispatched)' <=> Done(k, dispatched)
    BY DEF Done
  <2>. QED
    BY <2>1, <2>2 DEF SchedulerInv, Singles
<1>5. ProcessedWasDispatched'
  BY DEF SchedulerInv, ProcessedWasDispatched, WasDispatched
<1>. QED
  BY <1>3, <1>4, <1>5 DEF SchedulerInv

LEMMA SchedulerNextKeeps == SchedulerInv /\ [SchedulerNext]_schedulerVars => SchedulerInv'
<1>. SUFFICES ASSUME SchedulerInv, [SchedulerNext]_schedulerVars PROVE SchedulerInv'
  OBVIOUS
<1>0. SchedulerTypeOK /\ SchedulerTypeOK' /\ OwedAreSelecting
  BY SchedulerNextTyped DEF SchedulerInv
<1>1. clock \in Nat
  BY <1>0, SchedulerAssumption DEF SchedulerTypeOK
<1>2. CASE UNCHANGED schedulerVars
  BY <1>0, <1>1, <1>2, RequestsKeep DEF schedulerVars, OwedAreSelecting
<1>3. CASE TimePasses
  BY <1>0, <1>1, <1>3, RequestsKeep DEF TimePasses, OwedAreSelecting
<1>4. CASE LeaseLapses
  BY <1>0, <1>1, <1>4, RequestsKeep DEF LeaseLapses, OwedAreSelecting
<1>5. ASSUME NEW s \in Schedule, EditSchedule(s) PROVE SchedulerInv'
  BY <1>0, <1>1, <1>5, RequestsKeep DEF EditSchedule, OwedAreSelecting
<1>6. ASSUME NEW r \in Rule, EditRule(r) PROVE SchedulerInv'
  <2>1. PICK row \in RuleRow :
          /\ rule' = [rule EXCEPT ![r] = row]
          /\ owed' = [e \in Event |-> IF e \in row.selects THEN owed[e] ELSE owed[e] \ {r}]
    BY <1>6 DEF EditRule
  <2>2. UNCHANGED <<clock, event, dispatched, ticker>>
    BY <1>6 DEF EditRule
  <2>3. \A e \in Event : owed'[e] = IF e \in row.selects THEN owed[e] ELSE owed[e] \ {r}
    BY <2>1
  <2>4. \A q \in Rule : rule'[q] = IF q = r THEN row ELSE rule[q]
    BY <1>0, <2>1 DEF SchedulerTypeOK
  <2>5. OwedAreSelecting'
    BY <1>0, <2>3, <2>4 DEF OwedAreSelecting, SchedulerTypeOK
  <2>6. \A e \in Event : owed'[e] \subseteq owed[e] /\ event'[e] = event[e]
    BY <2>2, <2>3
  <2>7. clock <= clock'
    BY <1>1, <2>2
  <2>. QED
    BY <1>0, <2>2, <2>5, <2>6, <2>7, RequestsKeep
<1>7. ASSUME NEW e \in Event, EmitEvent(e) PROVE SchedulerInv'
  <2>1. /\ event[e] = "none"
        /\ event' = [event EXCEPT ![e] = "pending"]
        /\ owed' = [owed EXCEPT ![e] = {r \in Rule : e \in rule[r].selects}]
        /\ UNCHANGED <<clock, rule, dispatched, ticker>>
    BY <1>7 DEF EmitEvent
  <2>2. \A f \in Event : /\ event'[f] = IF f = e THEN "pending" ELSE event[f]
                         /\ owed'[f] = IF f = e THEN {r \in Rule : e \in rule[r].selects}
                                       ELSE owed[f]
    BY <1>0, <2>1 DEF SchedulerTypeOK
  <2>3. OwedAreSelecting'
    BY <1>0, <2>1, <2>2 DEF OwedAreSelecting
  <2>. QED
    BY <1>0, <1>1, <2>1, <2>2, <2>3, RequestsKeep
<1>8. ASSUME NEW p \in Process, MarkSchedule(p) PROVE SchedulerInv'
  BY <1>0, <1>8, OnwardKeeps DEF MarkSchedule
<1>9. ASSUME NEW p \in Process, EndTick(p) \/ TickerDies(p) PROVE SchedulerInv'
  BY <1>0, <1>9, LeaveKeeps DEF EndTick, TickerDies
<1>10. ASSUME NEW p \in Process, Dispatch(p) \/ InsertOrder(p) PROVE SchedulerInv'
  BY <1>0, <1>10, DispatchKeeps
<1>11. ASSUME NEW p \in Process,
              TakeLead(p) \/ ReadSchedules(p) \/ ReadEvents(p) \/ NextEvent(p)
       PROVE  SchedulerInv'
  BY <1>0, <1>11, ReadsKeep
<1>12. ASSUME NEW p \in Process, FinishEvent(p) PROVE SchedulerInv'
  BY <1>0, <1>12, FinishKeeps
<1>13. ASSUME NEW p \in Process, StatementRaises(p) PROVE SchedulerInv'
  BY <1>0, <1>13, RaisesKeep
<1>. QED
  <2>1. ASSUME NEW p \in Process, TickerStep(p) PROVE SchedulerInv'
    BY <1>8, <1>9, <1>10, <1>11, <1>12, <2>1 DEF TickerStep
  <2>2. ASSUME SchedulerNext PROVE SchedulerInv'
    BY <1>3, <1>4, <1>5, <1>6, <1>7, <1>9, <1>11, <1>13, <2>1, <2>2 DEF SchedulerNext
  <2>. QED
    BY <1>2, <2>2

LEMMA SchedulerStart == SchedulerInit => SchedulerInv
<1>. SUFFICES ASSUME SchedulerInit PROVE SchedulerInv
  OBVIOUS
<1>1. \A e \in Event : owed[e] = {}
  BY DEF SchedulerInit
<1>2. \A k \in Occurrence : \A t \in Table : dispatched[<<k, t>>] = <<>>
  BY DEF SchedulerInit
<1>4. Singles
  <2>1. \A k \in Occurrence : ~ Done(k, dispatched)
    BY <1>2, EntryTyped
  <2>2. Len(<<>>) = 0
    OBVIOUS
  <2>. QED
    BY <1>2, <2>1, <2>2 DEF Singles
<1>3. \A p \in Process : ticker[p] = Asleep
  BY DEF SchedulerInit
<1>. QED
  BY <1>1, <1>3, <1>4, AsleepOK, SchedulerInitTyped
     DEF SchedulerInv, ProcessedWasDispatched, OwedAreSelecting

LEMMA SchedulerInvariance == SchedulerSpec => []SchedulerInv
  BY SchedulerStart, SchedulerNextKeeps, PTL DEF SchedulerSpec

\* A mark that is not stale is of the slot that its tick has dispatched, or failed to.
LEMMA MarkIsNoDrop ==
  ASSUME SchedulerInv, NEW p \in Process, MarkSchedule(p), NEW s \in Schedule,
         schedule'[s].slot # schedule[s].slot,
         ~ WasDispatched(<<s, schedule[s].slot>>)
  PROVE  schedule'[s].failed \/ StaleMark(s)
<1>. DEFINE me == ticker[p]
<1>0. me \in TickerState /\ OrdersOK(me) /\ DoneOK(me, dispatched) /\ me.at = "mark"
  BY DEF SchedulerInv, SchedulerTypeOK, MarkSchedule
<1>1. PICK o \in me.order :
        schedule' = [schedule EXCEPT ![o.key[1]] =
                        [@ EXCEPT !.slot = me.next, !.failed = me.failed]]
  BY DEF MarkSchedule
<1>2. o.key \in Schedule \X Slot
  BY <1>0 DEF OrdersOK, SlotOrder
<1>3. \A q \in Schedule : q # o.key[1] => schedule'[q] = schedule[q]
  BY <1>1 DEF SchedulerInv, SchedulerTypeOK
<1>4. o.key[1] = s
  BY <1>3
<1>5. CASE o.key[2] # schedule[s].slot
  BY <1>0, <1>4, <1>5 DEF StaleMark
<1>6. CASE o.key[2] = schedule[s].slot
  <2>1. o.key = <<s, schedule[s].slot>>
    BY <1>2, <1>4, <1>6
  <2>2. me.failed
    BY <1>0, <2>1 DEF DoneOK, Done, WasDispatched
  <2>3. schedule'[s] = [schedule[s] EXCEPT !.slot = me.next, !.failed = me.failed]
    BY <1>1, <1>4 DEF SchedulerInv, SchedulerTypeOK
  <2>4. schedule[s] \in ScheduleRow
    BY DEF SchedulerInv, SchedulerTypeOK
  <2>. QED
    BY <2>2, <2>3, <2>4 DEF ScheduleRow
<1>. QED
  BY <1>5, <1>6

\* No due slot is given up in silence, except where an outdated mark took its place, and
\* a processed event has been dispatched for every rule it was owed to (mark_schedule_run,
\* finish_event).
THEOREM NothingDueIsEverDropped == SchedulerSpec => NothingDueIsDropped
<1>. DEFINE Marked ==
       \A s \in Schedule :
            /\ IsDue(s) /\ schedule'[s].slot # schedule[s].slot
            /\ ~ WasDispatched(<<s, schedule[s].slot>>)
            => schedule'[s].failed \/ edits' # edits \/ StaleMark(s)
            EventsDone ==
       \A e \in Event :
            event'[e] = "processed" /\ event[e] # "processed"
            => \A r \in owed[e] : WasDispatched(<<e, r>>)
<1>2. SchedulerInv /\ [SchedulerNext]_schedulerVars => [Marked]_schedulerVars
  <2>. SUFFICES ASSUME SchedulerInv, SchedulerNext, NEW s \in Schedule,
                       schedule'[s].slot # schedule[s].slot,
                       ~ WasDispatched(<<s, schedule[s].slot>>)
                PROVE  schedule'[s].failed \/ edits' # edits \/ StaleMark(s)
    OBVIOUS
  <2>1. ASSUME NEW p \in Process, MarkSchedule(p) PROVE schedule'[s].failed \/ StaleMark(s)
    BY <2>1, MarkIsNoDrop
  <2>2. ASSUME NEW q \in Schedule, EditSchedule(q) PROVE edits' # edits
    <3>1. edits' = edits + 1 /\ edits \in 0..EditBound
      BY <2>2 DEF EditSchedule, SchedulerInv, SchedulerTypeOK
    <3>. QED
      BY <3>1, SchedulerAssumption
  <2>3. CASE schedule' = schedule
    BY <2>3
  <2>. QED
    BY <2>1, <2>2, <2>3 DEF SchedulerNext, TickerStep, TimePasses, LeaseLapses, EditRule,
       EmitEvent, TakeLead, StatementRaises, TickerDies, ReadSchedules, Dispatch,
       InsertOrder, ReadEvents, NextEvent, FinishEvent, EndTick
<1>3. SchedulerInv /\ [SchedulerNext]_schedulerVars => [EventsDone]_schedulerVars
  <2>. SUFFICES ASSUME SchedulerInv, SchedulerNext, NEW e \in Event,
                       event'[e] = "processed", event[e] # "processed"
                PROVE  \A r \in owed[e] : WasDispatched(<<e, r>>)
    OBVIOUS
  <2>1. ASSUME NEW p \in Process, FinishEvent(p)
        PROVE  \A r \in owed[e] : WasDispatched(<<e, r>>)
    <3>1. ProcessedWasDispatched'
      BY SchedulerNextKeeps DEF SchedulerInv
    <3>2. UNCHANGED <<dispatched, owed>>
      BY <2>1 DEF FinishEvent
    <3>. QED
      BY <3>1, <3>2 DEF ProcessedWasDispatched, WasDispatched
  <2>2. \A f \in Event : ~ EmitEvent(f)
    BY DEF EmitEvent, SchedulerInv, SchedulerTypeOK
  <2>. QED
    BY <2>1, <2>2 DEF SchedulerNext, TickerStep, TimePasses, LeaseLapses, EditSchedule,
       EditRule, TakeLead, StatementRaises, TickerDies, ReadSchedules, Dispatch,
       InsertOrder, MarkSchedule, ReadEvents, NextEvent, EndTick
<1>4. SchedulerInv /\ [SchedulerNext]_schedulerVars => [Marked /\ EventsDone]_schedulerVars
  BY <1>2, <1>3
<1>5. SchedulerSpec => [][Marked /\ EventsDone]_schedulerVars
  BY <1>4, SchedulerInvariance, PTL DEF SchedulerSpec
<1>. QED
  BY <1>5, PTL DEF NothingDueIsDropped

-----------------------------------------------------------------------------

\* What the row of k asks for.
AsksOf(k) == IF k \in Schedule \X Slot THEN schedule[k[1]].asks ELSE rule[k[2]].asks
TableOf(k) == IF AsksOf(k) \in WorkflowCommand THEN "run" ELSE "task"

\* The tick me has no outdated order.
Fresh(me) == \A o \in me.orders \union me.order : o.asks = AsksOf(o.key)

\* As long as nothing is edited, every dispatch asks for what the row asks for.
Unedited ==
    edits = 0 =>
        /\ \A p \in Process : Fresh(ticker[p])
        /\ \A k \in Occurrence : \A t \in Table :
              dispatched[<<k, t>>] # <<>> => t = TableOf(k)

\* A step of p that leaves it no order but what it had.
FewerOrders(me, you) ==
    /\ you.orders \subseteq me.orders
    /\ you.order \subseteq me.orders \union me.order

\* The outcomes of a step of p.
LEMMA OutcomesHaveFewer ==
  ASSUME NEW me \in TickerState
  PROVE  /\ FewerOrders(me, Asleep) /\ FewerOrders(me, Onward(me))
         /\ FewerOrders(me, [Asleep EXCEPT !.at = "tick"])
         /\ \A o \in me.orders : \A ok \in BOOLEAN, t \in Slot :
               FewerOrders(me, Dispatched(me, o, ok, t))
         /\ \A o \in me.orders : FewerOrders(me, [me EXCEPT !.at = "insert", !.order = {o}])
<1>1. FewerOrders(me, Asleep) /\ FewerOrders(me, [Asleep EXCEPT !.at = "tick"])
  BY DEF FewerOrders, Asleep
<1>2. FewerOrders(me, Onward(me))
  BY DEF FewerOrders, Onward, TickerState
<1>3. ASSUME NEW o \in me.orders, NEW ok \in BOOLEAN, NEW t \in Slot
      PROVE  FewerOrders(me, Dispatched(me, o, ok, t))
  BY DEF FewerOrders, Dispatched, TickerState
<1>4. ASSUME NEW o \in me.orders
      PROVE  FewerOrders(me, [me EXCEPT !.at = "insert", !.order = {o}])
  BY DEF FewerOrders, TickerState
<1>. QED
  BY <1>1, <1>2, <1>3, <1>4

\* A step of p that reads no rows.
LEMMA StepsHaveFewer ==
  ASSUME SchedulerInv, NEW p \in Process,
         \/ TakeLead(p) \/ Dispatch(p) \/ InsertOrder(p) \/ MarkSchedule(p) \/ ReadEvents(p)
         \/ FinishEvent(p) \/ EndTick(p) \/ StatementRaises(p) \/ TickerDies(p)
  PROVE  FewerOrders(ticker[p], ticker'[p]) /\ \A q \in Process \ {p} : ticker'[q] = ticker[q]
<1>. DEFINE me == ticker[p]
<1>0. me \in TickerState /\ OrdersOK(me)
  BY DEF SchedulerInv, SchedulerTypeOK
<1>1. ASSUME NEW you, Proceeds(p, you), FewerOrders(me, you)
      PROVE  FewerOrders(me, ticker'[p]) /\ \A q \in Process \ {p} : ticker'[q] = ticker[q]
  BY <1>1 DEF Proceeds, SchedulerInv, SchedulerTypeOK
<1>2. CASE Dispatch(p) \/ InsertOrder(p)
  <2>1. PICK o \in me.orders, t \in Slot, ok \in BOOLEAN :
          \/ Proceeds(p, Dispatched(me, o, ok, t))
          \/ Proceeds(p, [me EXCEPT !.at = "insert", !.order = {o}])
    <3>1. CASE Dispatch(p)
      <4>1. PICK o \in me.orders, t \in Coming :
              \/ Proceeds(p, Dispatched(me, o, FALSE, t))
              \/ Proceeds(p, Dispatched(me, o, SameRequest(o), t))
              \/ Proceeds(p, Dispatched(me, o, TRUE, t))
              \/ Proceeds(p, [me EXCEPT !.at = "insert", !.order = {o}])
        BY <3>1 DEF Dispatch
      <4>2. t \in Slot /\ SameRequest(o) \in BOOLEAN
        BY DEF Coming, SameRequest
      <4>. QED
        BY <4>1, <4>2
    <3>2. CASE InsertOrder(p)
      <4>1. PICK o \in me.order, t \in Coming :
              \/ Proceeds(p, Dispatched(me, o, TRUE, t))
              \/ Proceeds(p, Dispatched(me, o, o.asks \in WorkflowCommand /\ SameRequest(o), t))
        BY <3>2 DEF InsertOrder
      <4>2. t \in Slot /\ (o.asks \in WorkflowCommand /\ SameRequest(o)) \in BOOLEAN
        BY DEF Coming, SameRequest
      <4>3. o \in me.orders
        BY <1>0, <3>2 DEF InsertOrder, OrdersOK
      <4>. QED
        BY <4>1, <4>2, <4>3
    <3>. QED
      BY <1>2, <3>1, <3>2
  <2>. QED
    BY <1>0, <1>1, <2>1, OutcomesHaveFewer
<1>3. CASE TakeLead(p) \/ MarkSchedule(p) \/ EndTick(p) \/ TickerDies(p)
  <2>1. \/ Proceeds(p, Asleep) \/ Proceeds(p, [Asleep EXCEPT !.at = "tick"])
        \/ Proceeds(p, Onward(me))
    BY <1>3 DEF TakeLead, MarkSchedule, EndTick, TickerDies, Leave
  <2>. QED
    BY <1>0, <1>1, <2>1, OutcomesHaveFewer
<1>4. CASE ReadEvents(p)
  <2>1. FewerOrders(me, [me EXCEPT !.at = "events", !.events = {e \in Event : event[e] = "pending"}])
    BY <1>0 DEF FewerOrders, TickerState
  <2>. QED
    BY <1>1, <1>4, <2>1 DEF ReadEvents
<1>5. CASE FinishEvent(p)
  <2>1. FewerOrders(me, [me EXCEPT !.at = "events", !.current = {}, !.failed = FALSE])
    BY <1>0 DEF FewerOrders, TickerState
  <2>. QED
    BY <1>1, <1>5, <2>1 DEF FinishEvent
<1>6. CASE StatementRaises(p)
  <2>. DEFINE once == [me EXCEPT !.failed = TRUE]
              later(t) == [me EXCEPT !.failed = TRUE, !.next = t]
              lost(e) == [me EXCEPT !.at = "finish", !.failed = TRUE,
                                    !.events = @ \ {e}, !.current = {e}]
  <2>1. \/ Proceeds(p, Asleep) \/ Proceeds(p, once) \/ Proceeds(p, Onward(me))
        \/ \E t \in Coming : Proceeds(p, later(t))
        \/ \E e \in me.events : Proceeds(p, lost(e))
    BY <1>6 DEF StatementRaises, Leave
  <2>2. /\ FewerOrders(me, once)
        /\ \A t : FewerOrders(me, later(t))
        /\ \A e : FewerOrders(me, lost(e))
    BY <1>0 DEF FewerOrders, TickerState
  <2>. HIDE DEF once, later, lost
  <2>. QED
    BY <1>0, <1>1, <2>1, <2>2, OutcomesHaveFewer
<1>. QED
  BY <1>2, <1>3, <1>4, <1>5, <1>6

\* The steps that read rows take what these ask for.
LEMMA ReadsAreFresh ==
  ASSUME SchedulerInv, NEW p \in Process, ReadSchedules(p) \/ NextEvent(p), Fresh(ticker[p])
  PROVE  Fresh(ticker'[p]) /\ \A q \in Process \ {p} : ticker'[q] = ticker[q]
<1>. DEFINE me == ticker[p]
<1>0. me \in TickerState /\ OrdersOK(me)
  BY DEF SchedulerInv, SchedulerTypeOK
<1>1. ASSUME NEW you, Proceeds(p, you), Fresh(you)
      PROVE  Fresh(ticker'[p]) /\ \A q \in Process \ {p} : ticker'[q] = ticker[q]
  BY <1>1 DEF Proceeds, SchedulerInv, SchedulerTypeOK
<1>2. CASE ReadSchedules(p)
  <2>. DEFINE due == {s \in Schedule : IsDue(s)}
              found == {[key |-> <<s, schedule[s].slot>>, asks |-> schedule[s].asks] : s \in due}
              you == [me EXCEPT !.at = IF due = {} THEN "inbox" ELSE "schedules",
                                !.orders = found]
  <2>1. Proceeds(p, you) /\ me.at = "tick"
    BY <1>2 DEF ReadSchedules
  <2>2. \A o \in found : o.asks = AsksOf(o.key)
    BY DEF AsksOf, SchedulerInv, SchedulerTypeOK, ScheduleRow
  <2>3. you.orders = found /\ you.order = {}
    BY <1>0, <2>1 DEF TickerState, OrdersOK
  <2>. HIDE DEF you, found
  <2>. QED
    BY <1>1, <2>1, <2>2, <2>3 DEF Fresh
<1>3. CASE NextEvent(p)
  <2>. DEFINE rules(e) == {r \in Rule : e \in rule[r].selects}
              found(e) == {[key |-> <<e, r>>, asks |-> rule[r].asks] : r \in rules(e)}
              you(e) == [me EXCEPT !.at = IF rules(e) = {} THEN "finish" ELSE "rules",
                                   !.orders = found(e), !.events = @ \ {e}, !.current = {e}]
              last == [me EXCEPT !.at = "runs"]
  <2>1. me.at = "events" /\ (Proceeds(p, last) \/ \E e \in me.events : Proceeds(p, you(e)))
    BY <1>3 DEF NextEvent
  <2>2. last.orders = {} /\ last.order = {}
    BY <1>0, <2>1 DEF TickerState, OrdersOK
  <2>3. ASSUME NEW e \in me.events PROVE Fresh(you(e))
    <3>1. you(e).orders = found(e) /\ you(e).order = {}
      BY <1>0, <2>1 DEF TickerState, OrdersOK
    <3>2. e \notin Schedule
      BY <1>0, SchedulerAssumption DEF TickerState
    <3>3. \A o \in found(e) : o.asks = AsksOf(o.key)
      BY <3>2 DEF AsksOf
    <3>. HIDE DEF you, found
    <3>. QED
      BY <3>1, <3>3 DEF Fresh
  <2>. HIDE DEF you, last
  <2>. QED
    BY <1>1, <2>1, <2>2, <2>3 DEF Fresh
<1>. QED
  BY <1>2, <1>3

\* Whatever is created is asked for by an order of a tick.
LEMMA CreatedByOrder ==
  ASSUME SchedulerInv, [SchedulerNext]_schedulerVars
  PROVE  \/ UNCHANGED dispatched
         \/ \E p \in Process : \E o \in ticker[p].orders : CreateOrder(o)
<1>1. ASSUME NEW p \in Process, Dispatch(p)
      PROVE  UNCHANGED dispatched \/ \E o \in ticker[p].orders : CreateOrder(o)
  BY <1>1 DEF Dispatch
<1>2. ASSUME NEW p \in Process, InsertOrder(p)
      PROVE  UNCHANGED dispatched \/ \E o \in ticker[p].orders : CreateOrder(o)
  <2>1. ticker[p].order \subseteq ticker[p].orders
    BY <1>2 DEF InsertOrder, SchedulerInv, OrdersOK
  <2>. QED
    BY <1>2, <2>1 DEF InsertOrder
<1>. QED
  BY <1>1, <1>2 DEF SchedulerNext, schedulerVars, TickerStep, TimePasses, LeaseLapses,
     EditSchedule, EditRule, EmitEvent, TakeLead, StatementRaises, TickerDies, ReadSchedules,
     MarkSchedule, ReadEvents, NextEvent, FinishEvent, EndTick

\* Only an edit changes what a row asks for.
LEMMA AsksStay ==
  ASSUME SchedulerInv, [SchedulerNext]_schedulerVars, edits' = 0
  PROVE  edits = 0 /\ \A k \in Occurrence : AsksOf(k)' = AsksOf(k)
<1>1. edits \in Nat
  BY SchedulerAssumption DEF SchedulerInv, SchedulerTypeOK
<1>2. edits' = edits \/ edits' = edits + 1
  BY DEF SchedulerNext, schedulerVars, TickerStep, TimePasses, LeaseLapses,
     EditSchedule, EditRule, EmitEvent, TakeLead, StatementRaises, TickerDies, ReadSchedules,
     Dispatch, InsertOrder, MarkSchedule, ReadEvents, NextEvent, FinishEvent, EndTick
<1>0. edits' # edits + 1
  BY <1>1
<1>3. \A s \in Schedule : ~ EditSchedule(s)
  BY <1>0 DEF EditSchedule
<1>4. \A r \in Rule : ~ EditRule(r)
  BY <1>0 DEF EditRule
<1>5. rule' = rule
  BY <1>4 DEF SchedulerNext, schedulerVars, TickerStep, TimePasses, LeaseLapses,
     EditSchedule, EmitEvent, TakeLead, StatementRaises, TickerDies, ReadSchedules,
     Dispatch, InsertOrder, MarkSchedule, ReadEvents, NextEvent, FinishEvent, EndTick
<1>6. ASSUME NEW p \in Process, MarkSchedule(p), NEW s \in Schedule
      PROVE  schedule'[s].asks = schedule[s].asks
  <2>1. schedule[s] \in ScheduleRow /\ ticker[p] \in TickerState
    BY DEF SchedulerInv, SchedulerTypeOK
  <2>2. PICK o \in ticker[p].order :
          schedule' = [schedule EXCEPT ![o.key[1]] =
                          [@ EXCEPT !.slot = ticker[p].next, !.failed = ticker[p].failed]]
    BY <1>6 DEF MarkSchedule
  <2>. QED
    BY <2>1, <2>2 DEF SchedulerInv, SchedulerTypeOK, ScheduleRow
<1>7. \A s \in Schedule : schedule'[s].asks = schedule[s].asks
  <2>1. schedule' = schedule \/ \E p \in Process : MarkSchedule(p)
    BY <1>3 DEF SchedulerNext, schedulerVars, TickerStep, TimePasses, LeaseLapses,
     EditRule, EmitEvent, TakeLead, StatementRaises, TickerDies, ReadSchedules,
     Dispatch, InsertOrder, ReadEvents, NextEvent, FinishEvent, EndTick
  <2>. QED
    BY <1>6, <2>1
<1>8. ASSUME NEW k \in Occurrence PROVE AsksOf(k)' = AsksOf(k)
  BY <1>5, <1>7 DEF AsksOf
<1>. QED
  BY <1>0, <1>2, <1>8

LEMMA UneditedKeeps ==
  ASSUME SchedulerInv, [SchedulerNext]_schedulerVars, Unedited
  PROVE  Unedited'
<1>. SUFFICES ASSUME edits' = 0
              PROVE  /\ \A p \in Process : Fresh(ticker[p])'
                     /\ \A k \in Occurrence : \A t \in Table :
                           dispatched'[<<k, t>>] # <<>> => t = TableOf(k)'
  BY DEF Unedited
<1>1. edits = 0 /\ \A k \in Occurrence : AsksOf(k)' = AsksOf(k)
  BY AsksStay
<1>2. \A k \in Occurrence : TableOf(k)' = TableOf(k)
  BY <1>1 DEF TableOf
<1>3. \A p \in Process : Fresh(ticker[p]) /\ ticker[p] \in TickerState
  BY <1>1 DEF Unedited, SchedulerInv, SchedulerTypeOK
<1>4. ASSUME NEW p \in Process PROVE Fresh(ticker'[p])
  <2>1. \/ ticker' = ticker
        \/ \E q \in Process :
             /\ FewerOrders(ticker[q], ticker'[q]) \/ Fresh(ticker'[q])
             /\ \A o \in Process \ {q} : ticker'[o] = ticker[o]
    <3>1. ASSUME NEW q \in Process,
                 \/ TakeLead(q) \/ Dispatch(q) \/ InsertOrder(q) \/ MarkSchedule(q)
                 \/ ReadEvents(q) \/ FinishEvent(q) \/ EndTick(q) \/ StatementRaises(q)
                 \/ TickerDies(q)
          PROVE  /\ FewerOrders(ticker[q], ticker'[q])
                 /\ \A o \in Process \ {q} : ticker'[o] = ticker[o]
      BY <3>1, StepsHaveFewer
    <3>2. ASSUME NEW q \in Process, ReadSchedules(q) \/ NextEvent(q)
          PROVE  Fresh(ticker'[q]) /\ \A o \in Process \ {q} : ticker'[o] = ticker[o]
      BY <1>3, <3>2, ReadsAreFresh
    <3>3. \/ ticker' = ticker
          \/ \E q \in Process : TakeLead(q) \/ TickerStep(q) \/ StatementRaises(q) \/ TickerDies(q)
      BY DEF SchedulerNext, schedulerVars, TimePasses, LeaseLapses, EditSchedule, EditRule,
         EmitEvent
    <3>. QED
      BY <3>1, <3>2, <3>3 DEF TickerStep
  <2>. QED
    BY <1>3, <2>1 DEF FewerOrders, Fresh
<1>5. ASSUME NEW p \in Process PROVE Fresh(ticker[p])'
  <2>1. ticker'[p] \in TickerState
    BY SchedulerNextTyped DEF SchedulerInv, SchedulerTypeOK
  <2>2. \A o \in ticker'[p].orders \union ticker'[p].order : o.key \in Occurrence
    BY <2>1 DEF TickerState, Order
  <2>. QED
    BY <1>1, <1>4, <2>2 DEF Fresh
<1>6. ASSUME NEW k \in Occurrence, NEW t \in Table, dispatched'[<<k, t>>] # <<>>
      PROVE  t = TableOf(k)
  <2>1. CASE dispatched[<<k, t>>] # <<>>
    BY <1>1, <2>1 DEF Unedited
  <2>2. CASE dispatched[<<k, t>>] = <<>>
    <3>1. PICK p \in Process : \E o \in ticker[p].orders : CreateOrder(o)
      BY <1>6, <2>2, CreatedByOrder
    <3>2. PICK o \in ticker[p].orders : CreateOrder(o)
      BY <3>1
    <3>3. <<k, t>> = Entry(o)
      BY <1>6, <2>2, <3>2 DEF CreateOrder, SchedulerInv, SchedulerTypeOK
    <3>4. o.asks = AsksOf(o.key)
      BY <1>3 DEF Fresh
    <3>. QED
      BY <3>3, <3>4 DEF Entry, TableOf
  <2>. QED
    BY <2>1, <2>2
<1>. QED
  BY <1>2, <1>5, <1>6

LEMMA UneditedStart == SchedulerInit => Unedited
<1>. SUFFICES ASSUME SchedulerInit PROVE Unedited
  OBVIOUS
<1>1. \A p \in Process : ticker[p] = Asleep
  BY DEF SchedulerInit
<1>2. \A k \in Occurrence : \A t \in Table : dispatched[<<k, t>>] = <<>>
  BY DEF SchedulerInit
<1>. QED
  BY <1>1, <1>2 DEF Unedited, Fresh, Asleep

\* However many ticks overlap, with whatever stale rows, a slot of a schedule and a rule
\* for an event are dispatched once at most, and none before its time; both as a task and
\* as a run only if something has been edited (tick, _dispatch).
THEOREM EveryOccurrenceIsSingle == SchedulerSpec => []OccurrencesAreSingle
<1>1. SchedulerInv /\ Unedited => OccurrencesAreSingle
  <2>. SUFFICES ASSUME SchedulerInv, Unedited, NEW k \in Occurrence
                PROVE  /\ \A t \in Table : Len(dispatched[<<k, t>>]) <= 1
                       /\ edits = 0 => \E t \in Table : dispatched[<<k, t>>] = <<>>
                       /\ WasDispatched(k) => Timely(k)
    BY DEF OccurrencesAreSingle, Timely
  <2>1. Singles
    BY DEF SchedulerInv
  <2>2. WasDispatched(k) => Done(k, dispatched)
    BY DEF WasDispatched, Done
  <2>3. ASSUME edits = 0 PROVE \E t \in Table : dispatched[<<k, t>>] = <<>>
    <3>1. "task" \in Table /\ "run" \in Table /\ "task" # "run"
      BY DEF Table
    <3>. QED
      BY <2>3, <3>1 DEF Unedited
  <2>. QED
    BY <2>1, <2>2, <2>3 DEF Singles
<1>2. SchedulerInit => SchedulerInv /\ Unedited
  BY SchedulerStart, UneditedStart
<1>3. SchedulerInv /\ Unedited /\ [SchedulerNext]_schedulerVars => (SchedulerInv /\ Unedited)'
  BY SchedulerNextKeeps, UneditedKeeps
<1>. QED
  BY <1>1, <1>2, <1>3, PTL DEF SchedulerSpec
=============================================================================
