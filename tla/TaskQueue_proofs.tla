--------------------------- MODULE TaskQueue_proofs ---------------------------
(***************************************************************************)
(* Theorems about TaskQueue, for any tasks, workers, clients and actors.   *)
(***************************************************************************)
EXTENDS TaskQueue, FiniteSetTheorems, TLAPS

(***************************************************************************)
(* Rows and locals.                                                        *)
(***************************************************************************)
LEMMA Bounds ==
    /\ MaxTurns \in Nat \ {0}
    /\ MaxCalls \in Nat /\ MaxSubagents \in Nat /\ MaxDepth \in Nat
    /\ \A t \in Tasks : Budget(t) \in Nat \ {0} /\ Required(t) \in Nat
    /\ NoTask \notin Tasks /\ NoWorker \notin Workers /\ Agent \notin Actors
  BY ConstantsAssumption DEF Budget, Required

LEMMA NoRowType == NoRow \in Row
  BY DEF NoRow, Row, Status

LEMMA IdleType == Idle \in Local
  BY ConstantsAssumption DEF Idle, Local

LEMMA FreeType == Free \in HandlerState
  BY DEF Free, HandlerState

\* The writes that release a row keep everything but status and lease.
LEMMA UnleasedRow ==
    ASSUME NEW row \in Row, NEW status \in Status
    PROVE  Unleased(row, status) \in Row
  BY DEF Unleased, Row

LEMMA RetriedRow ==
    ASSUME NEW row \in Row, NEW t \in Tasks, NEW attempt \in Nat, NEW due \in BOOLEAN
    PROVE  Retried(row, t, attempt, due) \in Row
  <1>1. Unleased(row, "dead_letter") \in Row /\ Unleased(row, "queued") \in Row
    BY UnleasedRow DEF Status, Terminal
  <1>2. [Unleased(row, "queued") EXCEPT !.due = due] \in Row
    BY <1>1 DEF Row
  <1>3. QED
    BY <1>1, <1>2 DEF Retried

LEMMA ClaimedRow ==
    ASSUME NEW row \in Row, NEW w \in Workers, NEW n \in Nat
    PROVE  /\ [row EXCEPT !.status = "running", !.attempt = n,
                          !.owner = w, !.lease = "live"] \in Row
           /\ [row EXCEPT !.status = "dead_letter"] \in Row
  BY DEF Row, Status, Terminal

LEMMA ClaimedLocal ==
    ASSUME NEW t \in Tasks, NEW round \in Nat, NEW n \in Nat
    PROVE  [Idle EXCEPT !.pc = "claimed", !.task = t, !.round = round, !.attempt = n] \in Local
  BY IdleType DEF Local, Executing

LEMMA ReopenedRow ==
    ASSUME NEW row \in Row
    PROVE  Reopened(row) \in Row
  <1>1. Unleased(row, "queued") \in Row
    BY UnleasedRow DEF Status
  <1>2. row.round + 1 \in Nat
    BY DEF Row
  <1>3. \A r \in Row, n \in Nat :
           [r EXCEPT !.attempt = 0, !.cancel = FALSE, !.due = TRUE, !.round = n] \in Row
    BY DEF Row
  <1>4. QED
    BY <1>1, <1>2, <1>3 DEF Reopened

LEMMA NewRowType ==
    ASSUME NEW t \in Tasks, NEW actor \in Actors \union {Agent}, NEW depth \in Nat
    PROVE  NewRow(t, actor, depth) \in Row
  BY NoRowType DEF NewRow, Row, Status

LEMMA DecidedRow ==
    ASSUME NEW row \in Row, NEW t \in Tasks, NEW a \in Actors,
           NEW decision \in {"approve", "reject"}, NEW n \in Nat
    PROVE  Decided(row, t, a, decision, n) \in Row
  <1> DEFINE voted == [row EXCEPT !.votes[a] = decision]
  <1>1. voted \in Row
    BY DEF Row
  <1>2. CASE decision = "reject"
    BY <1>1, <1>2 DEF Decided, Row, Status, Terminal
  <1>3. CASE decision = "approve"
    BY <1>1, <1>3 DEF Decided, Row, Status
  <1>4. QED
    BY <1>2, <1>3

LEMMA ApproversFinite ==
    ASSUME NEW t \in Tasks, NEW decision, NEW a \in Actors
    PROVE  /\ Approvers(t) \subseteq Actors
           /\ IsFiniteSet(Approvers(t))
           /\ Cardinality(Approvers(t)) \in Nat
           /\ Tally(t, a, decision) \in Nat
  <1>1. Approvers(t) \subseteq Actors
    BY DEF Approvers
  <1>2. IsFiniteSet(Approvers(t))
    BY <1>1, ConstantsAssumption, FS_Subset
  <1>3. IsFiniteSet(Approvers(t) \union IF decision = "approve" THEN {a} ELSE {})
    BY <1>1, ConstantsAssumption, FS_Subset
  <1>4. QED
    BY <1>1, <1>2, <1>3, FS_CardinalityType DEF Tally

(***************************************************************************)
(* Type correctness.                                                       *)
(***************************************************************************)
LEMMA TurnLocal ==
    ASSUME NEW l \in Local, NEW pc \in Executing, NEW turn \in 0..MaxTurns,
           NEW calls \in 0..MaxCalls, NEW kids \in 0..MaxSubagents
    PROVE  /\ [l EXCEPT !.pc = pc, !.kids = kids] \in Local
           /\ [l EXCEPT !.pc = pc, !.calls = calls, !.kids = kids] \in Local
           /\ [l EXCEPT !.pc = pc, !.turn = turn, !.calls = calls, !.kids = kids] \in Local
  BY DEF Local

LEMMA NextTurnType ==
    ASSUME NEW w \in Workers, NEW kids \in 0..MaxSubagents,
           worker \in [Workers -> Local], NextTurn(w, kids)
    PROVE  worker' \in [Workers -> Local]
  <1>1. worker[w] \in Local
    OBVIOUS
  <1>2. worker[w].turn \in 0..MaxTurns
    BY <1>1 DEF Local
  <1>3. CASE /\ worker[w].turn < MaxTurns
             /\ worker' = [worker EXCEPT ![w].pc = "turn", ![w].turn = @ + 1,
                                        ![w].calls = 0, ![w].kids = kids]
    <2>1. worker[w].turn + 1 \in 0..MaxTurns /\ 0 \in 0..MaxCalls
      BY <1>2, <1>3, Bounds
    <2>2. [worker[w] EXCEPT !.pc = "turn", !.turn = worker[w].turn + 1,
                            !.calls = 0, !.kids = kids] \in Local
      BY <1>1, <2>1, TurnLocal DEF Executing
    <2>3. QED
      BY <1>3, <2>2
  <1>4. CASE worker' = [worker EXCEPT ![w].pc = "error", ![w].kids = kids]
    <2>1. 0 \in 0..MaxCalls
      BY Bounds
    <2>2. [worker[w] EXCEPT !.pc = "error", !.kids = kids] \in Local
      BY <1>1, <1>2, <2>1, TurnLocal DEF Executing
    <2>3. QED
      BY <1>4, <2>2
  <1>5. QED
    BY <1>3, <1>4 DEF NextTurn

LEMMA AfterCallType ==
    ASSUME NEW w \in Workers, NEW kids \in 0..MaxSubagents,
           worker \in [Workers -> Local], AfterCall(w, kids)
    PROVE  worker' \in [Workers -> Local]
  <1>1. CASE NextTurn(w, kids)
    BY <1>1, NextTurnType
  <1>2. CASE /\ worker[w].calls < MaxCalls
             /\ worker' = [worker EXCEPT ![w].pc = "tools", ![w].calls = @ + 1, ![w].kids = kids]
    <2>1. worker[w] \in Local /\ worker[w].calls \in 0..MaxCalls
      BY DEF Local
    <2>2. worker[w].calls + 1 \in 0..MaxCalls /\ worker[w].turn \in 0..MaxTurns
      BY <1>2, <2>1, Bounds DEF Local
    <2>3. [worker[w] EXCEPT !.pc = "tools", !.calls = worker[w].calls + 1, !.kids = kids] \in Local
      BY <2>1, <2>2, TurnLocal DEF Executing
    <2>4. QED
      BY <1>2, <2>3
  <1>3. QED
    BY <1>1, <1>2 DEF AfterCall

LEMMA GotoType ==
    ASSUME NEW w \in Workers, NEW pc \in Executing,
           worker \in [Workers -> Local], Goto(w, pc)
    PROVE  worker' \in [Workers -> Local]
  BY DEF Goto, Local

LEMMA DoneType ==
    ASSUME NEW w \in Workers, worker \in [Workers -> Local], Done(w)
    PROVE  worker' \in [Workers -> Local]
  BY IdleType DEF Done

\* A worker or a handler in the middle of something knows its task.
LocalsOK ==
    /\ \A w \in Workers : worker[w].pc # "idle" => worker[w].task \in Tasks
    /\ \A c \in Clients :
          /\ client[c].op # "idle" => client[c].task \in Tasks
          /\ client[c].step # "none" =>
                client[c].op \in {"approve", "reject"} /\ client[c].actor \in Actors

LEMMA ClaimType ==
    ASSUME TypeOK, LocalsOK, NEW w \in Workers, NEW t \in Tasks, Claim(w, t)
    PROVE  TypeOK' /\ LocalsOK'
  <1> DEFINE n == task[t].attempt + 1
             l == [Idle EXCEPT !.pc = "claimed", !.task = t,
                               !.round = task[t].round, !.attempt = n]
             dead == [task[t] EXCEPT !.status = "dead_letter"]
             run == [task[t] EXCEPT !.status = "running", !.attempt = n,
                                    !.owner = w, !.lease = "live"]
  <1>0. task[t] \in Row
    BY DEF TypeOK
  <1>2. n \in Nat /\ task[t].round \in Nat
    BY <1>0 DEF Row
  <1>1. dead \in Row /\ run \in Row
    BY <1>0, <1>2, ClaimedRow
  <1>3. l \in Local /\ l.pc = "claimed" /\ l.task = t
    BY <1>2, ClaimedLocal DEF Idle
  <1>4. \/ task' = [task EXCEPT ![t] = dead] /\ worker' = worker
        \/ task' = [task EXCEPT ![t] = run] /\ worker' = [worker EXCEPT ![w] = l]
    BY DEF Claim
  <1>5. client' = client /\ crashes' = crashes
    BY DEF Claim
  <1>6. task' \in [Tasks -> Row] /\ worker' \in [Workers -> Local]
    BY <1>1, <1>3, <1>4 DEF TypeOK
  <1>7. \A v \in Workers : worker'[v].pc # "idle" => worker'[v].task \in Tasks
    BY <1>3, <1>4 DEF TypeOK, LocalsOK
  <1>8. QED
    BY <1>5, <1>6, <1>7 DEF TypeOK, LocalsOK

\* A step of a worker that keeps what identifies its claim.
Moves(w) ==
    /\ \A v \in Workers \ {w} : worker'[v] = worker[v]
    /\ worker'[w].task = worker[w].task
    /\ worker'[w].round = worker[w].round
    /\ worker'[w].attempt = worker[w].attempt
    /\ worker'[w].found = worker[w].found

\* The actions of a worker after its claim.
Runs(w) == \/ Begin(w) \/ ReadTurn(w) \/ ProviderChat(w) \/ ReadTool(w) \/ PlainTool(w)
           \/ MutatingTool(w) \/ (\E t \in Tasks : Delegate(w, t))
           \/ Finish(w) \/ WriteCanceled(w) \/ ReadProviderError(w)
           \/ Release(w) \/ ReadError(w) \/ Fail(w)

LEMMA GotoMoves ==
    ASSUME NEW w \in Workers, NEW pc, worker \in [Workers -> Local], Goto(w, pc)
    PROVE  Moves(w)
  BY DEF Goto, Moves, Local

LEMMA NextTurnMoves ==
    ASSUME NEW w \in Workers, NEW kids, worker \in [Workers -> Local], NextTurn(w, kids)
    PROVE  Moves(w)
  BY DEF NextTurn, Moves, Local

LEMMA AfterCallMoves ==
    ASSUME NEW w \in Workers, NEW kids, worker \in [Workers -> Local], AfterCall(w, kids)
    PROVE  Moves(w)
  <1>1. CASE NextTurn(w, kids)
    BY <1>1, NextTurnMoves
  <1>2. CASE worker' = [worker EXCEPT ![w].pc = "tools", ![w].calls = @ + 1, ![w].kids = kids]
    BY <1>2 DEF Moves, Local
  <1>3. QED
    BY <1>1, <1>2 DEF AfterCall

LEMMA RunMoves ==
    ASSUME TypeOK, NEW w \in Workers, Runs(w)
    PROVE  Moves(w) \/ Done(w)
  <1> USE DEF TypeOK
  <1>1. CASE Begin(w)
    BY <1>1 DEF Begin, Moves, Local
  <1>2. CASE ReadTurn(w) \/ ProviderChat(w) \/ ReadTool(w) \/ PlainTool(w) \/ ReadError(w)
    BY <1>2, GotoMoves, NextTurnMoves, AfterCallMoves DEF ReadTurn, ProviderChat, ReadTool, PlainTool, ReadError
  <1>3. CASE MutatingTool(w) \/ (\E t \in Tasks : Delegate(w, t))
    BY <1>3, GotoMoves, AfterCallMoves DEF MutatingTool, Delegate
  <1>4. CASE ReadProviderError(w)
    BY <1>4 DEF ReadProviderError, Moves, Local
  <1>5. CASE Finish(w) \/ WriteCanceled(w) \/ Release(w) \/ Fail(w)
    BY <1>5 DEF Finish, WriteCanceled, Release, Fail
  <1>6. QED
    BY <1>1, <1>2, <1>3, <1>4, <1>5 DEF Runs

LEMMA WorkerType ==
    ASSUME TypeOK, LocalsOK, NEW w \in Workers, Runs(w)
    PROVE  TypeOK' /\ LocalsOK'
  <1> DEFINE t == worker[w].task
  <1>1. worker[w] \in Local /\ worker[w].pc # "idle"
    BY DEF TypeOK, Runs, Begin, ReadTurn, ProviderChat, ReadTool, PlainTool, MutatingTool, Delegate,
           Finish, WriteCanceled, ReadProviderError, Release, ReadError, Fail
  <1>2. t \in Tasks /\ task[t] \in Row
    BY <1>1 DEF TypeOK, LocalsOK
  <1>3. client' = client /\ crashes' = crashes
    BY DEF Runs, Begin, ReadTurn, ProviderChat, ReadTool, PlainTool, MutatingTool, Delegate,
           Finish, WriteCanceled, ReadProviderError, Release, ReadError, Fail
  <1>4. \A v \in Workers : worker'[v].pc # "idle" => worker'[v].task \in Tasks
    BY RunMoves, <1>2 DEF TypeOK, LocalsOK, Moves, Done, Idle
  <1>5. worker' \in [Workers -> Local]
    <2>1. worker[w].kids \in 0..MaxSubagents
      BY <1>1 DEF Local
    <2>2. CASE Begin(w)
      <3>1. 1 \in 0..MaxTurns
        BY Bounds
      <3>2. [worker[w] EXCEPT !.pc = "turn", !.turn = 1, !.beating = TRUE] \in Local
        BY <1>1, <3>1 DEF Local, Executing
      <3>3. QED
        BY <2>2, <3>2 DEF Begin, TypeOK
    <2>3. CASE ReadTurn(w) \/ ReadTool(w) \/ ReadError(w)
      BY <2>3, GotoType DEF ReadTurn, ReadTool, ReadError, TypeOK, Executing
    <2>4. CASE ProviderChat(w) \/ PlainTool(w)
      BY <2>4, <2>1, GotoType, NextTurnType, AfterCallType DEF ProviderChat, PlainTool, TypeOK, Executing
    <2>5. CASE MutatingTool(w)
      BY <2>5, <2>1, GotoType, AfterCallType DEF MutatingTool, TypeOK, Executing
    <2>6. ASSUME NEW child \in Tasks, Delegate(w, child)
          PROVE  worker' \in [Workers -> Local]
      <3>1. worker[w].kids + 1 \in 0..MaxSubagents
        BY <2>1, <2>6, Bounds DEF Delegate
      <3>2. QED
        BY <2>6, <3>1, AfterCallType DEF Delegate, TypeOK
    <2>7. CASE Finish(w) \/ WriteCanceled(w) \/ Release(w) \/ Fail(w)
      BY <2>7, DoneType DEF Finish, WriteCanceled, Release, Fail, TypeOK
    <2>8. CASE ReadProviderError(w)
      <3>1. task[t].attempt \in Nat
        BY <1>2 DEF Row
      <3>2. \A pc \in Executing, n \in Nat :
               [worker[w] EXCEPT !.pc = pc, !.seen = n] \in Local
        BY <1>1 DEF Local
      <3>3. PICK pc \in Executing, n \in Nat :
               worker' = [worker EXCEPT ![w].pc = pc, ![w].seen = n]
        BY <2>8, <3>1 DEF ReadProviderError, Executing
      <3>4. QED
        BY <3>2, <3>3 DEF TypeOK
    <2>9. QED
      BY <2>2, <2>3, <2>4, <2>5, <2>6, <2>7, <2>8 DEF Runs
  <1>6. task' \in [Tasks -> Row]
    <2>1. CASE task' = task
      BY <2>1 DEF TypeOK
    <2>2. CASE MutatingTool(w)
      <3>1. [task[t] EXCEPT !.touched = TRUE] \in Row
        BY <1>2 DEF Row
      <3>2. QED
        BY <2>2, <3>1 DEF MutatingTool, TypeOK
    <2>3. ASSUME NEW child \in Tasks, Delegate(w, child)
          PROVE  task' \in [Tasks -> Row]
      <3>1. task[t].depth + 1 \in Nat
        BY <1>2 DEF Row
      <3>2. NewRow(child, Agent, task[t].depth + 1) \in Row
        BY <3>1, NewRowType
      <3>3. QED
        BY <2>3, <3>2 DEF Delegate, TypeOK
    <2>4. CASE Finish(w) \/ WriteCanceled(w) \/ Fail(w)
      <3>1. \A status \in Status : Unleased(task[t], status) \in Row
        BY <1>2, UnleasedRow
      <3>2. QED
        BY <2>4, <3>1 DEF Finish, WriteCanceled, Fail, TypeOK, Status, Terminal
    <2>5. CASE Release(w)
      <3>1. worker[w].seen \in Nat
        BY <1>1 DEF Local
      <3>2. Retried(task[t], t, worker[w].seen, FALSE) \in Row
        BY <1>2, <3>1, RetriedRow
      <3>3. QED
        BY <2>5, <3>2 DEF Release, TypeOK
    <2>6. QED
      BY <2>1, <2>2, <2>3, <2>4, <2>5
         DEF Runs, Begin, ReadTurn, ProviderChat, ReadTool, PlainTool, ReadProviderError, ReadError
  <1>7. QED
    BY <1>3, <1>4, <1>5, <1>6 DEF TypeOK, LocalsOK

LEMMA QueueType ==
    ASSUME TypeOK, LocalsOK, NEW w \in Workers,
           \/ Sweep(w) \/ (\E f \in worker[w].found : Requeue(w, f[1], f[2]))
           \/ Heartbeat(w) \/ Crash(w)
    PROVE  TypeOK' /\ LocalsOK'
  <1>1. worker[w] \in Local
    BY DEF TypeOK
  <1>2. CASE Sweep(w)
    <2>1. \A t \in Tasks : task[t].attempt \in Nat
      BY DEF TypeOK, Row
    <2> DEFINE expired == {t \in Tasks : task[t].status = "running" /\ task[t].lease = "expired"}
               f == {<<t, task[t].attempt>> : t \in expired}
    <2>2. f \in SUBSET (Tasks \X Nat) /\ worker' = [worker EXCEPT ![w].found = f]
      BY <1>2, <2>1 DEF Sweep
    <2> HIDE DEF f
    <2>3. [worker[w] EXCEPT !.found = f] \in Local
      BY <1>1, <2>2 DEF Local
    <2>4. QED
      BY <1>1, <1>2, <2>2, <2>3 DEF Sweep, TypeOK, LocalsOK, Local
  <1>3. ASSUME NEW f \in worker[w].found, Requeue(w, f[1], f[2])
        PROVE  TypeOK' /\ LocalsOK'
    <2>1. f[1] \in Tasks /\ f[2] \in Nat
      BY <1>1 DEF Local
    <2>2. Retried(task[f[1]], f[1], f[2], TRUE) \in Row
      BY <2>1, RetriedRow DEF TypeOK
    <2>3. [worker[w] EXCEPT !.found = worker[w].found \ {<<f[1], f[2]>>}] \in Local
      BY <1>1 DEF Local
    <2>4. QED
      BY <1>1, <1>3, <2>2, <2>3 DEF Requeue, TypeOK, LocalsOK, Local
  <1>4. CASE Heartbeat(w)
    <2>1. \A t \in Tasks : [task[t] EXCEPT !.lease = "live"] \in Row
      BY DEF TypeOK, Row
    <2>2. [worker[w] EXCEPT !.beating = FALSE] \in Local
      BY <1>1 DEF Local
    <2>3. \/ worker' = worker
          \/ task' = task /\ worker' = [worker EXCEPT ![w].beating = FALSE]
      BY <1>4 DEF Heartbeat
    <2>4. worker' \in [Workers -> Local]
      BY <2>2, <2>3 DEF TypeOK
    <2>5. \A v \in Workers : worker'[v].pc = worker[v].pc /\ worker'[v].task = worker[v].task
      BY <1>1, <2>3 DEF TypeOK, Local
    <2>6. task' \in [Tasks -> Row]
      BY <1>4, <2>1 DEF Heartbeat, TypeOK
    <2>7. client' = client /\ crashes' = crashes
      BY <1>4 DEF Heartbeat
    <2>8. QED
      BY <2>4, <2>5, <2>6, <2>7 DEF TypeOK, LocalsOK
  <1>5. CASE Crash(w)
    BY <1>5, IdleType DEF Crash, Done, TypeOK, LocalsOK, Idle
  <1>6. QED
    BY <1>2, <1>3, <1>4, <1>5

LEMMA ClockType ==
    ASSUME TypeOK, LocalsOK, NEW t \in Tasks, LeaseExpires(t) \/ RetryDelayPasses(t)
    PROVE  TypeOK' /\ LocalsOK'
  <1>1. /\ [task[t] EXCEPT !.lease = "expired"] \in Row
        /\ [task[t] EXCEPT !.due = TRUE] \in Row
    BY DEF TypeOK, Row
  <1>2. QED
    BY <1>1 DEF LeaseExpires, RetryDelayPasses, TypeOK, LocalsOK

LEMMA SubmitType ==
    ASSUME TypeOK, LocalsOK, NEW t \in Tasks, NEW a \in Actors,
           \/ Submit(t, a)
           \/ \E d \in {"approve", "reject"} : Decide(t, a, d)
    PROVE  TypeOK' /\ LocalsOK'
  <1>1. NewRow(t, a, 0) \in Row
    BY NewRowType
  <1>2. \A d \in {"approve", "reject"} : Decided(task[t], t, a, d, Tally(t, a, d)) \in Row
    BY DecidedRow, ApproversFinite DEF TypeOK
  <1>3. QED
    BY <1>1, <1>2 DEF Submit, Decide, TypeOK, LocalsOK

LEMMA HandlerType ==
    ASSUME TypeOK, LocalsOK, NEW c \in Clients,
           \/ Handle(c)
           \/ \E t \in Tasks : CancelRead(c, t) \/ RetryRead(c, t)
           \/ \E t \in Tasks, a \in Actors, d \in {"approve", "reject"} : DecideRead(c, t, a, d)
    PROVE  TypeOK' /\ LocalsOK'
  <1> DEFINE t == client[c].task
  <1>1. client[c] \in HandlerState /\ worker' = worker /\ crashes' = crashes
    BY DEF TypeOK, Handle, DecideInsert, DecideCommit, CancelWrite, RetryWrite,
           CancelRead, RetryRead, DecideRead
  <1>2. CASE DecideInsert(c)
    <2>1. t \in Tasks /\ client[c].actor \in Actors
      BY <1>1, <1>2 DEF DecideInsert, LocalsOK
    <2>2. Tally(t, client[c].actor, client[c].op) \in Nat
      BY <2>1, ApproversFinite
    <2>3. \A n \in Nat : [client[c] EXCEPT !.step = "counted", !.count = n] \in HandlerState
      BY <1>1 DEF HandlerState
    <2> DEFINE n == Tally(t, client[c].actor, client[c].op)
               counted == [client[c] EXCEPT !.step = "counted", !.count = n]
    <2>4. /\ counted \in HandlerState /\ counted.op = client[c].op
          /\ counted.task = t /\ counted.actor = client[c].actor
      BY <1>1, <2>2, <2>3 DEF HandlerState
    <2>5. client' = [client EXCEPT ![c] = Free] \/ client' = [client EXCEPT ![c] = counted]
      BY <1>2 DEF DecideInsert, Return
    <2>6. task' = task /\ client[c].step = "checked"
      BY <1>2 DEF DecideInsert
    <2> HIDE DEF counted
    <2>7. QED
      BY <1>1, <2>4, <2>5, <2>6, FreeType DEF Free, TypeOK, LocalsOK
  <1>3. CASE DecideCommit(c)
    <2>1. /\ t \in Tasks /\ client[c].actor \in Actors /\ client[c].count \in Nat
          /\ client[c].op \in {"approve", "reject"}
      BY <1>1, <1>3 DEF DecideCommit, LocalsOK, HandlerState
    <2>2. Decided(task[t], t, client[c].actor, client[c].op, client[c].count) \in Row
      BY <2>1, DecidedRow DEF TypeOK
    <2>3. QED
      BY <1>1, <1>3, <2>2, FreeType DEF DecideCommit, Return, Free, TypeOK, LocalsOK
  <1>4. CASE CancelWrite(c)
    <2>1. t \in Tasks /\ task[t] \in Row
      BY <1>1, <1>4 DEF CancelWrite, LocalsOK, TypeOK
    <2>2. Unleased(task[t], "canceled") \in Row
      BY <2>1, UnleasedRow DEF Status, Terminal
    <2>3. \A row \in Row : [row EXCEPT !.cancel = TRUE] \in Row
      BY DEF Row
    <2>4. QED
      BY <1>1, <1>4, <2>1, <2>2, <2>3, FreeType DEF CancelWrite, Return, Free, TypeOK, LocalsOK
  <1>5. CASE RetryWrite(c)
    <2>1. t \in Tasks /\ task[t] \in Row
      BY <1>1, <1>5 DEF RetryWrite, LocalsOK, TypeOK
    <2>2. Reopened(task[t]) \in Row
      BY <2>1, ReopenedRow
    <2>3. QED
      BY <1>1, <1>5, <2>1, <2>2, FreeType DEF RetryWrite, Return, Free, TypeOK, LocalsOK
  <1>6. ASSUME NEW u \in Tasks, CancelRead(c, u) \/ RetryRead(c, u)
        PROVE  TypeOK' /\ LocalsOK'
    <2>1. \A op \in {"cancel", "flag", "retry"} :
             /\ [Free EXCEPT !.op = op, !.task = u] \in HandlerState
             /\ [Free EXCEPT !.op = op, !.task = u].task = u
             /\ [Free EXCEPT !.op = op, !.task = u].step = "none"
      BY DEF Free, HandlerState
    <2>2. QED
      BY <1>1, <1>6, <2>1 DEF CancelRead, RetryRead, Call, TypeOK, LocalsOK
  <1>7. ASSUME NEW u \in Tasks, NEW a \in Actors, NEW d \in {"approve", "reject"},
               DecideRead(c, u, a, d)
        PROVE  TypeOK' /\ LocalsOK'
    <2> DEFINE open == [Free EXCEPT !.op = d, !.step = "checked", !.task = u, !.actor = a]
    <2>1. open \in HandlerState /\ open.op = d /\ open.task = u /\ open.actor = a
      BY DEF Free, HandlerState
    <2>2. QED
      BY <1>1, <1>7, <2>1 DEF DecideRead, TypeOK, LocalsOK
  <1>8. QED
    BY <1>2, <1>3, <1>4, <1>5, <1>6, <1>7 DEF Handle

LEMMA InitType == Init => TypeOK /\ LocalsOK
  BY NoRowType, IdleType, FreeType DEF Init, TypeOK, LocalsOK, Idle, Free

LEMMA NextType ==
    ASSUME TypeOK, LocalsOK, [Next]_vars
    PROVE  TypeOK' /\ LocalsOK'
  <1>1. CASE UNCHANGED vars
    BY <1>1 DEF vars, TypeOK, LocalsOK
  <1>2. CASE Next
    BY <1>2, ClaimType, WorkerType, QueueType, ClockType, SubmitType, HandlerType
       DEF Next, Step, Runs
  <1>3. QED
    BY <1>1, <1>2

\* Rows, locals and handlers stay well-formed; a worker or a handler in the
\* middle of something knows its task.
THEOREM TypeCorrect == Spec => []TypeOK
  <1>1. TypeOK /\ LocalsOK /\ [Next]_vars => TypeOK' /\ LocalsOK'
    BY NextType
  <1>2. QED
    BY <1>1, InitType, PTL DEF Spec
=============================================================================
