------------------------------ MODULE TaskQueue ------------------------------
(***************************************************************************)
(* The durable task queue of zworkforce: the rows of table tasks2 and      *)
(* approvals2 (db_tasks.py, db.py), the worker threads that claim and      *)
(* execute them (engine.py) and the API handlers that submit, decide,      *)
(* cancel and retry them.                                                  *)
(*                                                                         *)
(* One step of a worker or of a handler is one database statement or one   *)
(* transaction: the code opens an autocommit connection per statement, so  *)
(* whatever it reads may be stale by the time it writes.  No write of      *)
(* update_task is conditional on the status or on the lease owner.         *)
(***************************************************************************)
EXTENDS Integers, FiniteSets

CONSTANTS
    Tasks,         \* ids of the rows that may be created
    Request,       \* Request[t]: the submission that creates row t
    Workers,       \* worker threads; a crashed one comes back with its id
    SlowWorkers,   \* workers that may outlive their lease (stalled heartbeat)
    Clients,       \* handler threads of the API servers
    Ops,           \* the handlers clients call
    Actors,        \* authenticated principals
    Agent,         \* the principal "agent:<id>" of delegated submissions
    NoTask, NoWorker,
    Backend,       \* "sqlite" or "postgres"
    MaxTurns,      \* agent.max_iterations
    MaxCalls,      \* bound on the tool calls of one answer, after the first
    MaxDepth,      \* settings.max_delegation_depth
    MaxSubagents,  \* agent.max_subagents
    MaxCrashes,    \* bound on worker crashes
    MaxRetries     \* bound on manual retries of one task

ASSUME ConstantsAssumption ==
    /\ Request \in [Tasks -> [priority : Int, budget : Nat \ {0},
                              required : 0..3, mutating : BOOLEAN]]
    /\ \A t \in Tasks : Request[t].required > 0 => Request[t].mutating
    /\ SlowWorkers \subseteq Workers
    /\ Ops \subseteq {"approve", "reject", "cancel", "retry"}
    /\ IsFiniteSet(Actors)
    /\ Agent \notin Actors
    /\ NoTask \notin Tasks
    /\ NoWorker \notin Workers
    /\ Backend \in {"sqlite", "postgres"}
    /\ MaxTurns \in Nat \ {0}
    /\ {MaxCalls, MaxDepth, MaxSubagents, MaxCrashes, MaxRetries} \subseteq Nat

VARIABLES
    task,     \* task[t]: the row of t, with its approvals
    worker,   \* worker[w]: the locals of worker_loop and _execute_claimed
    client,   \* client[c]: the locals of a handler between two statements
    crashes   \* crashes so far

vars == <<task, worker, client, crashes>>

-----------------------------------------------------------------------------
(***************************************************************************)
(* Rows.                                                                   *)
(***************************************************************************)
Terminal == {"succeeded", "failed", "canceled", "dead_letter"}
Status == {"none", "waiting_approval", "queued", "running"} \union Terminal

\* "expired": lease_expires_at lies in the past and nobody swept the row yet.
\* due: run_after <= now.  round and touched are history: the manual retries
\* of the row, and whether a mutating tool has ever run for it.
Row == [status : Status, attempt : Nat, cancel : BOOLEAN, due : BOOLEAN,
        owner : Workers \union {NoWorker}, lease : {"none", "live", "expired"},
        creator : Actors \union {Agent}, depth : Nat, approved : BOOLEAN,
        votes : [Actors -> {"none", "approve", "reject"}],
        round : Nat, touched : BOOLEAN]

NoRow == [status |-> "none", attempt |-> 0, cancel |-> FALSE, due |-> TRUE,
          owner |-> NoWorker, lease |-> "none", creator |-> Agent, depth |-> 0,
          approved |-> FALSE, votes |-> [a \in Actors |-> "none"],
          round |-> 0, touched |-> FALSE]

Budget(t) == Request[t].budget
Required(t) == Request[t].required
Approvers(t) == {a \in Actors : task[t].votes[a] = "approve"}

\* The row after a write of update_task that sets a status and clears the lease.
Unleased(row, status) ==
    [row EXCEPT !.status = status, !.owner = NoWorker, !.lease = "none"]

\* The row create_task inserts for the submission of t.
NewRow(t, actor, depth) ==
    [NoRow EXCEPT !.status = IF Required(t) > 0 THEN "waiting_approval" ELSE "queued",
                  !.creator = actor, !.depth = depth]

\* Defect, for the mutants that show what the properties catch: an attempt handed
\* back when its lease expires.
RetriedRefunding(row, t, attempt, due) ==
    IF attempt >= Budget(t) THEN Unleased(row, "dead_letter")
                            ELSE [Unleased(row, "queued") EXCEPT !.due = due,
                                                                 !.attempt = attempt - 1]

\* The row after a failure of the attempt numbered attempt: dead-lettered when
\* the budget is spent, else queued, due at once or after the retry delay.
Retried(row, t, attempt, due) ==
    IF attempt >= Budget(t) THEN Unleased(row, "dead_letter")
                            ELSE [Unleased(row, "queued") EXCEPT !.due = due]

\* The row after a manual retry.
Reopened(row) ==
    [Unleased(row, "queued") EXCEPT !.attempt = 0, !.cancel = FALSE,
                                    !.due = TRUE, !.round = row.round + 1]

-----------------------------------------------------------------------------
(***************************************************************************)
(* Workers.                                                                *)
(***************************************************************************)
Executing == {"claimed", "turn", "cancel", "chat", "finish", "tools", "tool",
              "mutate", "provider_error", "release", "error", "fail"}

\* round and attempt are those of the claim; seen is the attempt of the row last
\* read; calls: tool calls of the answer already done; beating: the heartbeat
\* thread runs; found: rows of an unfinished sweep.
Local == [pc : Executing \union {"idle"}, task : Tasks \union {NoTask},
          round : Nat, attempt : Nat, seen : Nat, turn : 0..MaxTurns,
          calls : 0..MaxCalls, kids : 0..MaxSubagents, beating : BOOLEAN,
          found : SUBSET (Tasks \X Nat)]

Idle == [pc |-> "idle", task |-> NoTask, round |-> 0, attempt |-> 0, seen |-> 0,
         turn |-> 0, calls |-> 0, kids |-> 0, beating |-> FALSE, found |-> {}]

Goto(w, pc) == worker' = [worker EXCEPT ![w].pc = pc]
Done(w) == worker' = [worker EXCEPT ![w] = Idle]

\* Defect: turns are not counted, so that the loop has no end.
NextTurnUncounted(w, kids) ==
    worker' = [worker EXCEPT ![w].pc = "turn", ![w].calls = 0, ![w].kids = kids]

\* The turn ends without an answer: the next one begins, or the for loop is
\* exhausted and raises.
NextTurn(w, kids) ==
    \/ /\ worker[w].turn < MaxTurns
       /\ worker' = [worker EXCEPT ![w].pc = "turn", ![w].turn = @ + 1,
                                   ![w].calls = 0, ![w].kids = kids]
    \/ /\ worker[w].turn = MaxTurns
       /\ worker' = [worker EXCEPT ![w].pc = "error", ![w].kids = kids]

\* A tool call is done: the next one of the answer, or the end of the turn.
AfterCall(w, kids) ==
    \/ NextTurn(w, kids)
    \/ /\ worker[w].calls < MaxCalls
       /\ worker' = [worker EXCEPT ![w].pc = "tools", ![w].calls = @ + 1, ![w].kids = kids]

Works(w, t) == worker[w].task = t

\* Defect: only rows nobody ever claimed are looked for.
ClaimableFresh(t) == /\ task[t].status = "queued"
                     /\ ~task[t].cancel
                     /\ task[t].due
                     /\ task[t].attempt = 0

Claimable(t) == /\ task[t].status = "queued"
                /\ ~task[t].cancel
                /\ task[t].due

\* claim_next_task: the most urgent claimable row is leased to w, or
\* dead-lettered when its budget is already spent.  On PostgreSQL, SKIP LOCKED
\* passes over rows another transaction happens to have locked.
Claim(w, t) ==
    /\ worker[w] = Idle
    /\ Claimable(t)
    /\ \/ \A u \in Tasks : Claimable(u) => Request[u].priority <= Request[t].priority
       \/ Backend = "postgres"
    /\ LET n == task[t].attempt + 1
       IN  IF n > Budget(t)
           THEN /\ task' = [task EXCEPT ![t].status = "dead_letter"]
                /\ UNCHANGED worker
           ELSE /\ task' = [task EXCEPT ![t].status = "running", ![t].attempt = n,
                                        ![t].owner = w, ![t].lease = "live"]
                /\ worker' = [worker EXCEPT ![w] =
                                 [Idle EXCEPT !.pc = "claimed", !.task = t,
                                              !.round = task[t].round, !.attempt = n]]
    /\ UNCHANGED <<client, crashes>>

\* requeue_expired_leases, its SELECT: the expired rows with their attempts.
Sweep(w) ==
    LET expired == {t \in Tasks : task[t].status = "running" /\ task[t].lease = "expired"}
    IN  /\ worker[w] = Idle
        /\ expired # {}
        /\ worker' = [worker EXCEPT ![w].found = {<<t, task[t].attempt>> : t \in expired}]
        /\ UNCHANGED <<task, client, crashes>>

\* requeue_expired_leases, one UPDATE of its loop: WHERE id=? and nothing else.
Requeue(w, t, attempt) ==
    /\ <<t, attempt>> \in worker[w].found
    /\ task' = [task EXCEPT ![t] = Retried(@, t, attempt, TRUE)]
    /\ worker' = [worker EXCEPT ![w].found = @ \ {<<t, attempt>>}]
    /\ UNCHANGED <<client, crashes>>

\* The agent exists and is within its budget: the heartbeat thread starts.
Begin(w) ==
    /\ worker[w].pc = "claimed"
    /\ worker' = [worker EXCEPT ![w].pc = "turn", ![w].turn = 1, ![w].beating = TRUE]
    /\ UNCHANGED <<task, client, crashes>>

\* One beat of _heartbeat_loop: extends the lease of a row still running and
\* still owned, else the thread returns and never beats again.
Heartbeat(w) ==
    /\ worker[w].beating
    /\ LET t == worker[w].task
       IN  IF task[t].status = "running" /\ task[t].owner = w
           THEN /\ task' = [task EXCEPT ![t].lease = "live"]
                /\ UNCHANGED worker
           ELSE /\ worker' = [worker EXCEPT ![w].beating = FALSE]
                /\ UNCHANGED task
    /\ UNCHANGED <<client, crashes>>

\* The read of cancel_requested at the top of a turn, and before a tool call.
ReadTurn(w) ==
    /\ worker[w].pc = "turn"
    /\ Goto(w, IF task[worker[w].task].cancel THEN "cancel" ELSE "chat")
    /\ UNCHANGED <<task, client, crashes>>

ReadTool(w) ==
    /\ worker[w].pc = "tools"
    /\ LET row == task[worker[w].task]
           mayMutate == /\ Request[worker[w].task].mutating
                        /\ Required(worker[w].task) > 0 => row.approved
       IN  Goto(w, IF row.cancel THEN "cancel" ELSE IF mayMutate THEN "mutate" ELSE "tool")
    /\ UNCHANGED <<task, client, crashes>>

\* provider.chat: an answer, tool calls, an empty answer (the tier escalates and
\* the next turn begins), a provider failure, or a spent budget or cost limit.
ProviderChat(w) ==
    /\ worker[w].pc = "chat"
    /\ \/ \E pc \in {"finish", "tools", "provider_error", "error"} : Goto(w, pc)
       \/ NextTurn(w, worker[w].kids)
    /\ UNCHANGED <<task, client, crashes>>

\* A tool call that leaves the queue alone, or is refused; the doom-loop
\* detector may stop the run.
PlainTool(w) ==
    /\ worker[w].pc \in {"tool", "mutate"}
    /\ AfterCall(w, worker[w].kids) \/ Goto(w, "error")
    /\ UNCHANGED <<task, client, crashes>>

\* A mutating tool runs; its failure may be the one that stops the run.
MutatingTool(w) ==
    /\ worker[w].pc = "mutate"
    /\ task' = [task EXCEPT ![worker[w].task].touched = TRUE]
    /\ AfterCall(w, worker[w].kids) \/ Goto(w, "error")
    /\ UNCHANGED <<client, crashes>>

\* agent_delegate: submits a child task one level deeper.
Delegate(w, child) ==
    LET depth == task[worker[w].task].depth
    IN  /\ worker[w].pc \in {"tool", "mutate"}
        /\ worker[w].kids < MaxSubagents
        /\ depth < MaxDepth
        /\ task[child].status = "none"
        /\ task' = [task EXCEPT ![child] = NewRow(child, Agent, depth + 1)]
        /\ AfterCall(w, worker[w].kids + 1)
        /\ UNCHANGED <<client, crashes>>

\* The success write, and the canceled write of a worker that saw the request.
Finish(w) ==
    /\ worker[w].pc = "finish"
    /\ task' = [task EXCEPT ![worker[w].task] = Unleased(@, "succeeded")]
    /\ Done(w)
    /\ UNCHANGED <<client, crashes>>

WriteCanceled(w) ==
    /\ worker[w].pc = "cancel"
    /\ task' = [task EXCEPT ![worker[w].task] = Unleased(@, "canceled")]
    /\ Done(w)
    /\ UNCHANGED <<client, crashes>>

\* except ProviderError: the row is read again, then released or failed.
ReadProviderError(w) ==
    /\ worker[w].pc = "provider_error"
    /\ LET row == task[worker[w].task]
       IN  \E next \in IF row.cancel THEN {"cancel"} ELSE {"release", "fail"} :
               worker' = [worker EXCEPT ![w].pc = next,
                                        ![w].seen = IF next = "release" THEN row.attempt ELSE 0]
    /\ UNCHANGED <<task, client, crashes>>

\* Defect: the write restores the attempt the handler read.
ReleaseRestoring(w) ==
    /\ worker[w].pc = "release"
    /\ task' = [task EXCEPT ![worker[w].task] =
                   [Retried(@, worker[w].task, worker[w].seen, FALSE)
                    EXCEPT !.attempt = worker[w].seen]]
    /\ Done(w)
    /\ UNCHANGED <<client, crashes>>

\* release_for_retry, decided by the attempt the handler read.
Release(w) ==
    /\ worker[w].pc = "release"
    /\ task' = [task EXCEPT ![worker[w].task] =
                   Retried(@, worker[w].task, worker[w].seen, FALSE)]
    /\ Done(w)
    /\ UNCHANGED <<client, crashes>>

\* except RuntimeError and the like: the row is read again, then failed.
ReadError(w) ==
    /\ worker[w].pc = "error"
    /\ Goto(w, IF task[worker[w].task].cancel THEN "cancel" ELSE "fail")
    /\ UNCHANGED <<task, client, crashes>>

\* _fail_terminal of a row read without a cancel request; from "claimed", the
\* agent is gone or its budget spent.
Fail(w) ==
    /\ worker[w].pc \in {"claimed", "fail"}
    /\ task' = [task EXCEPT ![worker[w].task] = Unleased(@, "failed")]
    /\ Done(w)
    /\ UNCHANGED <<client, crashes>>

\* The worker dies, in a run or in a sweep, and comes back without its locals.
Crash(w) ==
    /\ crashes < MaxCrashes
    /\ worker[w] # Idle
    /\ crashes' = crashes + 1
    /\ Done(w)
    /\ UNCHANGED <<task, client>>

-----------------------------------------------------------------------------
(***************************************************************************)
(* Time.                                                                   *)
(***************************************************************************)
\* A lease runs out when its owner is gone or stalls: a worker that beats every
\* lease/2 seconds at most never lets it.
LeaseExpires(t) ==
    /\ task[t].lease = "live"
    /\ task[t].owner \in SlowWorkers \/ ~Works(task[t].owner, t)
    /\ task' = [task EXCEPT ![t].lease = "expired"]
    /\ UNCHANGED <<worker, client, crashes>>

\* run_after passes.
RetryDelayPasses(t) ==
    /\ ~task[t].due
    /\ task' = [task EXCEPT ![t].due = TRUE]
    /\ UNCHANGED <<worker, client, crashes>>

-----------------------------------------------------------------------------
(***************************************************************************)
(* Handlers of the API.                                                    *)
(***************************************************************************)
\* op "cancel": the handler read a row not yet running; "flag": a running one.
\* count is the number of approvals an open transaction has counted.
HandlerState ==
    [op : {"idle", "cancel", "flag", "retry", "approve", "reject"},
     step : {"none", "checked", "counted"}, task : Tasks \union {NoTask},
     actor : Actors \union {Agent}, count : Nat]

Free == [op |-> "idle", step |-> "none", task |-> NoTask, actor |-> Agent, count |-> 0]

Return(c) == client' = [client EXCEPT ![c] = Free]
Call(c, op, t) == client' = [client EXCEPT ![c] = [Free EXCEPT !.op = op, !.task = t]]

\* submit and create_task, for a request without an idempotency key.
Submit(t, a) ==
    /\ task[t].status = "none"
    /\ task' = [task EXCEPT ![t] = NewRow(t, a, 0)]
    /\ UNCHANGED <<worker, client, crashes>>

\* Defect, for the mutant: the quorum is compared one approval too high.
DecidedBeyond(row, t, a, decision, n) ==
    LET voted == [row EXCEPT !.votes[a] = decision]
    IN  CASE decision = "reject" -> [voted EXCEPT !.status = "canceled"]
          [] decision = "approve" /\ n > Required(t) ->
                [voted EXCEPT !.status = "queued", !.approved = TRUE, !.due = TRUE]
          [] OTHER -> voted

\* approval_decision once the vote is known: n approvals decide.
Decided(row, t, a, decision, n) ==
    LET voted == [row EXCEPT !.votes[a] = decision]
    IN  CASE decision = "reject" -> [voted EXCEPT !.status = "canceled"]
          [] decision = "approve" /\ n >= Required(t) ->
                [voted EXCEPT !.status = "queued", !.approved = TRUE, !.due = TRUE]
          [] OTHER -> voted

\* The approvals a transaction of a counts when it casts decision.
Tally(t, a, decision) ==
    Cardinality(Approvers(t) \union IF decision = "approve" THEN {a} ELSE {})

\* Defects: the requester may decide; a canceled task may still be decided.
MayDecideOwn(t, a) == task[t].status = "waiting_approval" /\ a \in Actors

MayDecideLate(t, a) == /\ task[t].status \in {"waiting_approval", "canceled"}
                       /\ a # task[t].creator

MayDecide(t, a) == /\ task[t].status = "waiting_approval"
                   /\ a # task[t].creator

\* On SQLite BEGIN IMMEDIATE makes approval_decision one step.
Decide(t, a, decision) ==
    /\ Backend = "sqlite"
    /\ decision \in Ops
    /\ MayDecide(t, a)
    /\ task[t].votes[a] = "none"
    /\ task' = [task EXCEPT ![t] = Decided(@, t, a, decision, Tally(t, a, decision))]
    /\ UNCHANGED <<worker, client, crashes>>

\* On PostgreSQL the same code runs under BEGIN, READ COMMITTED and no row lock:
\* the status is read, the vote inserted and the votes counted, then the row is
\* updated and the transaction commits.
DecideRead(c, t, a, decision) ==
    /\ Backend = "postgres"
    /\ decision \in Ops
    /\ client[c] = Free
    /\ MayDecide(t, a)
    /\ client' = [client EXCEPT ![c] = [Free EXCEPT !.op = decision, !.step = "checked",
                                                    !.task = t, !.actor = a]]
    /\ UNCHANGED <<task, worker, crashes>>

\* UNIQUE(task_id, actor): waits for an open transaction that inserted the same
\* key, and fails if the key is committed.
DecideInsert(c) ==
    LET me == client[c]
    IN  /\ me.step = "checked"
        /\ \A d \in Clients : client[d].step = "counted" =>
               <<client[d].task, client[d].actor>> # <<me.task, me.actor>>
        /\ IF task[me.task].votes[me.actor] # "none"
           THEN Return(c)
           ELSE client' = [client EXCEPT ![c].step = "counted",
                                         ![c].count = Tally(me.task, me.actor, me.op)]
        /\ UNCHANGED <<task, worker, crashes>>

DecideCommit(c) ==
    LET me == client[c]
    IN  /\ me.step = "counted"
        /\ task' = [task EXCEPT ![me.task] = Decided(@, me.task, me.actor, me.op, me.count)]
        /\ Return(c)
        /\ UNCHANGED <<worker, crashes>>

\* Engine.cancel: the status read decides which write follows.
CancelRead(c, t) ==
    /\ "cancel" \in Ops
    /\ client[c] = Free
    /\ task[t].status \notin Terminal \union {"none"}
    /\ Call(c, IF task[t].status = "running" THEN "flag" ELSE "cancel", t)
    /\ UNCHANGED <<task, worker, crashes>>

CancelWrite(c) ==
    LET t == client[c].task
    IN  /\ client[c].op \in {"cancel", "flag"}
        /\ task' = [task EXCEPT ![t] =
                       [IF client[c].op = "cancel" THEN Unleased(@, "canceled") ELSE @
                        EXCEPT !.cancel = TRUE]]
        /\ Return(c)
        /\ UNCHANGED <<worker, crashes>>

\* Engine.retry: a fresh attempt budget for a failed or dead-lettered row.
RetryRead(c, t) ==
    /\ "retry" \in Ops
    /\ client[c] = Free
    /\ task[t].status \in {"failed", "dead_letter"}
    /\ task[t].round < MaxRetries
    /\ Call(c, "retry", t)
    /\ UNCHANGED <<task, worker, crashes>>

RetryWrite(c) ==
    LET t == client[c].task
    IN  /\ client[c].op = "retry"
        /\ task' = [task EXCEPT ![t] = Reopened(@)]
        /\ Return(c)
        /\ UNCHANGED <<worker, crashes>>

-----------------------------------------------------------------------------
Init ==
    /\ task = [t \in Tasks |-> NoRow]
    /\ worker = [w \in Workers |-> Idle]
    /\ client = [c \in Clients |-> Free]
    /\ crashes = 0

\* What one worker thread does when nothing stops it.
Step(w) ==
    \/ \E t \in Tasks : Claim(w, t)
    \/ \E row \in worker[w].found : Requeue(w, row[1], row[2])
    \/ Begin(w) \/ ReadTurn(w) \/ ProviderChat(w)
    \/ ReadTool(w) \/ PlainTool(w) \/ MutatingTool(w)
    \/ \E t \in Tasks : Delegate(w, t)
    \/ Finish(w) \/ WriteCanceled(w)
    \/ ReadProviderError(w) \/ Release(w) \/ ReadError(w) \/ Fail(w)

Handle(c) == DecideInsert(c) \/ DecideCommit(c) \/ CancelWrite(c) \/ RetryWrite(c)

Next ==
    \/ \E w \in Workers : Step(w) \/ Sweep(w) \/ Heartbeat(w) \/ Crash(w)
    \/ \E t \in Tasks : LeaseExpires(t) \/ RetryDelayPasses(t)
    \/ \E t \in Tasks, a \in Actors : Submit(t, a)
    \/ \E t \in Tasks, a \in Actors, d \in {"approve", "reject"} :
           Decide(t, a, d) \/ \E c \in Clients : DecideRead(c, t, a, d)
    \/ \E c \in Clients : \/ Handle(c)
                          \/ \E t \in Tasks : CancelRead(c, t) \/ RetryRead(c, t)

Spec == Init /\ [][Next]_vars

\* Workers and handlers run on; time passes.  Nobody has to submit, decide,
\* cancel or retry, no worker has to crash, and no slow one has to beat.
Fairness ==
    /\ \A w \in Workers : WF_vars(Step(w)) /\ WF_vars(Sweep(w))
    /\ \A c \in Clients : WF_vars(Handle(c))
    /\ \A t \in Tasks : WF_vars(LeaseExpires(t)) /\ WF_vars(RetryDelayPasses(t))

FairSpec == Spec /\ Fairness

-----------------------------------------------------------------------------
(***************************************************************************)
(* Properties.                                                             *)
(***************************************************************************)
TypeOK ==
    /\ task \in [Tasks -> Row]
    /\ worker \in [Workers -> Local]
    /\ client \in [Clients -> HandlerState]
    /\ crashes \in Nat

\* A running row always has an owner and an expiry, so that the sweep can find
\* it if its worker dies: no interleaving of the unconditional writes of
\* workers, sweeps and handlers leaves a row running that nobody can recover.
RunningIsLeased ==
    \A t \in Tasks : task[t].status = "running" =>
        task[t].owner # NoWorker /\ task[t].lease # "none"

Cleared(t) ==
    /\ Cardinality(Approvers(t)) >= Required(t)
    /\ task[t].creator \notin Approvers(t)

\* No row gets past waiting_approval, and no mutating tool runs for it, unless
\* as many principals as the agent requires approved it, none of them the
\* requester: neither a cancel, a retry, a sweep, a stale write nor, on
\* PostgreSQL, a concurrent decision gets around approval_decision.
ApprovalGate ==
    \A t \in Tasks :
        \/ task[t].touched
        \/ task[t].status \notin {"none", "waiting_approval", "canceled"}
        => Cleared(t)

\* A claim is identified by the attempt it was given (and the manual retry it
\* came after): workers that still execute the same row were given different
\* ones, and only the owner of a running row holds the current one.
ClaimsAreDistinct ==
    \A t \in Tasks : \A w \in Workers : Works(w, t) =>
        /\ task[t].status = "running" /\ task[t].owner = w =>
               <<worker[w].round, worker[w].attempt>> = <<task[t].round, task[t].attempt>>
        /\ \A v \in Workers \ {w} : Works(v, t) =>
               <<worker[v].round, worker[v].attempt>> # <<worker[w].round, worker[w].attempt>>

\* A claim can be told apart and recovered: both of these at once.
ClaimsHold == RunningIsLeased /\ ClaimsAreDistinct

\* A row is claimed at most max_attempts times between two manual retries, and
\* it is dead-lettered only once that budget is spent, however stale the attempt
\* count the sweep or the failure handler decided on.
BudgetRespected ==
    \A t \in Tasks :
        /\ task[t].attempt <= Budget(t)
        /\ task[t].status = "dead_letter" /\ task[t].round = 0 =>
               task[t].attempt = Budget(t)

\* A task somebody rejected is canceled and stays so.
RejectedStaysOut ==
    \A t \in Tasks : (\E a \in Actors : task[t].votes[a] = "reject") =>
        task[t].status = "canceled"

\* When no decision is under way, a task still waiting lacks approvals: the
\* approval that completes the quorum is always the one that queues the task.
QuorumIsNoticed ==
    \A t \in Tasks :
        /\ task[t].status = "waiting_approval"
        /\ \A c \in Clients : client[c].task # t
        => Cardinality(Approvers(t)) < Required(t)

\* Every decision counts: a rejection for good, and an approval towards the quorum
\* that queues the task (approval_decision).
DecisionsStand == RejectedStaysOut /\ QuorumIsNoticed

\* The state diagram of the architecture document: a succeeded task is done.
SucceededIsFinal ==
    [][\A t \in Tasks : task[t].status = "succeeded" => task'[t].status = "succeeded"]_vars

\* Nobody works on t, is about to requeue it, or has a request about it in flight.
AtRest(t) ==
    /\ \A w \in Workers : ~Works(w, t) /\ \A row \in worker[w].found : row[1] # t
    /\ \A c \in Clients : client[c].task # t

\* What is true of it, and of a rejection on PostgreSQL: an end is only overridden by
\* those who had come to the task before.  A task that is at rest once it has ended
\* stays as it is, and at rest, until somebody retries it.
EndsAtRestStay ==
    [][\A t \in Tasks : task[t].status \in Terminal /\ AtRest(t) =>
          /\ task'[t].status = task[t].status
          /\ \/ AtRest(t)'
             \/ /\ task[t].status \in {"failed", "dead_letter"}
                /\ \E c \in Clients : client'[c].op = "retry" /\ client'[c].task = t]_vars

\* Within a round the attempt never goes back, whatever stale writes do.
AttemptsGrow ==
    [][\A t \in Tasks :
          \/ task'[t].round > task[t].round
          \/ task'[t].round = task[t].round /\ task'[t].attempt >= task[t].attempt]_vars

\* Attempts are counted: neither beyond the budget, nor short of it, nor back.
AttemptsAreCounted == []BudgetRespected /\ AttemptsGrow

\* Every task that leaves the approval stage ends, for good, in a terminal
\* status: crashes, expired leases, stale writers and retry delays only postpone
\* it.
TasksSettle == <>[](\A t \in Tasks : task[t].status \in Terminal \union {"none", "waiting_approval"})

\* A running task whose lease expired is recovered: it ends in a terminal status.
StaleTasksAreRecovered ==
    \A t \in Tasks : task[t].status = "running" /\ task[t].lease = "expired"
                     ~> task[t].status \in Terminal
=============================================================================
