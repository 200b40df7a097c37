------------------------ MODULE TaskQueueSafety_proofs ------------------------
(***************************************************************************)
(* The safety properties of TaskQueue as theorems.                         *)
(*                                                                         *)
(* The argument: every step only advances a row (Advances: its round and   *)
(* attempt, its votes and its existence never go back), so that what a     *)
(* worker, a sweep or a handler once learnt about a row it holds on to     *)
(* stays true however stale the rest of its knowledge gets; and what it    *)
(* learnt is enough for its unconditional writes to keep the row fine.     *)
(***************************************************************************)
EXTENDS TaskQueue_proofs

(***************************************************************************)
(* The inductive invariant.                                                *)
(***************************************************************************)
Approve(row) == {a \in Actors : row.votes[a] = "approve"}
Enough(t, row) == Cardinality(Approve(row)) >= Required(t)

RowFine(t, row) ==
    /\ row.status = "none" => row = NoRow
    /\ row.status = "running" => row.owner # NoWorker /\ row.lease # "none"
    /\ row.attempt <= Budget(t)
    /\ row.status = "dead_letter" /\ row.round = 0 => row.attempt = Budget(t)
    /\ row.creator \notin Approve(row)
    /\ row.touched \/ row.status \notin {"none", "waiting_approval", "canceled"}
       => Enough(t, row)

\* What never goes back from row r to row s.
Advances(r, s) ==
    /\ r.status # "none" => s.status # "none" /\ s.creator = r.creator
    /\ r.round < s.round \/ (r.round = s.round /\ r.attempt <= s.attempt)
    /\ \A a \in Actors : r.votes[a] # "none" => s.votes[a] = r.votes[a]

Reached(t, row) == row.status # "none" /\ Enough(t, row)
Behind(l, row) == l.round < row.round \/ (l.round = row.round /\ l.attempt <= row.attempt)
Sees(n, row) == row.round = 0 => n <= row.attempt

\* What the locals l of a worker know of the table tab.
WorkerFine(tab, l) ==
    /\ l.task \in Tasks => Reached(l.task, tab[l.task]) /\ Behind(l, tab[l.task])
    /\ l.pc = "release" => Sees(l.seen, tab[l.task])
    /\ \A f \in l.found : Reached(f[1], tab[f[1]]) /\ Sees(f[2], tab[f[1]])

\* What the locals h of a handler know of the table tab.
ClientFine(tab, h) ==
    /\ h.op # "idle" => tab[h.task].status # "none"
    /\ h.op = "retry" => Enough(h.task, tab[h.task])
    /\ h.step # "none" => Backend = "postgres" /\ h.actor # tab[h.task].creator
    /\ h.step = "counted" =>
          /\ tab[h.task].votes[h.actor] = "none"
          /\ h.op = "approve" => h.count <= Cardinality(Approve(tab[h.task]) \union {h.actor})

RowsOK == \A t \in Tasks : RowFine(t, task[t])
WorkersOK == \A w \in Workers : WorkerFine(task, worker[w])
ClientsOK ==
    /\ \A c \in Clients : ClientFine(task, client[c])
    /\ \A c, d \in Clients :
          c # d /\ client[c].step = "counted" /\ client[d].step = "counted" =>
              <<client[c].task, client[c].actor>> # <<client[d].task, client[d].actor>>

IInv == TypeOK /\ LocalsOK /\ RowsOK /\ WorkersOK /\ ClientsOK /\ ClaimsAreDistinct
(***************************************************************************)
(* Rows: every write leaves a fine row that is no step back.               *)
(***************************************************************************)
\* A row running after the write ran before it, under the same claim.
Held(r, s) ==
    s.status = "running" => /\ r.status = "running" /\ s.owner = r.owner
                            /\ s.attempt = r.attempt /\ s.round = r.round

Sound(t, r, s) == RowFine(t, s) /\ Advances(r, s) /\ Held(r, s)
Good(t, r, s) == Sound(t, r, s) /\ s.votes = r.votes

LEMMA ApproveFinite ==
    ASSUME NEW row
    PROVE  IsFiniteSet(Approve(row)) /\ Cardinality(Approve(row)) \in Nat
  <1>1. Approve(row) \subseteq Actors
    BY DEF Approve
  <1>2. IsFiniteSet(Actors)
    BY ConstantsAssumption
  <1>3. QED
    BY <1>1, <1>2, FS_Subset, FS_CardinalityType

\* A row with the votes, the creator and the counters of a fine one is fine if
\* its new status is.
LEMMA SameVotesGood ==
    ASSUME NEW t \in Tasks, NEW r \in Row, NEW s \in Row, RowFine(t, r),
           s.votes = r.votes, s.creator = r.creator,
           s.attempt = r.attempt, s.round = r.round,
           r.status # "none", s.status # "none",
           s.status = "running" => /\ s.owner # NoWorker /\ s.lease # "none"
                                   /\ r.status = "running" /\ s.owner = r.owner,
           s.status = "dead_letter" /\ s.round = 0 => s.attempt = Budget(t),
           Enough(t, r) \/ (s.touched = r.touched /\ s.status \in {r.status, "canceled"})
    PROVE  Good(t, r, s)
  <1>1. Approve(s) = Approve(r)
    BY DEF Approve
  <1>2. Enough(t, s) <=> Enough(t, r)
    BY <1>1 DEF Enough
  <1>3. r.round \in Nat /\ r.attempt \in Nat
    BY DEF Row
  <1>4. QED
    BY <1>1, <1>2, <1>3 DEF Good, Sound, RowFine, Advances, Held

LEMMA UnleasedGood ==
    ASSUME NEW t \in Tasks, NEW r \in Row, RowFine(t, r), r.status # "none",
           NEW status \in {"queued", "succeeded", "failed", "canceled"},
           Enough(t, r) \/ status = "canceled"
    PROVE  Good(t, r, Unleased(r, status))
  <1> DEFINE s == Unleased(r, status)
  <1>1. s \in Row
    BY UnleasedRow DEF Status, Terminal
  <1>2. /\ s.votes = r.votes /\ s.creator = r.creator /\ s.attempt = r.attempt
        /\ s.round = r.round /\ s.touched = r.touched /\ s.status = status
    BY DEF Unleased, Row
  <1> HIDE DEF s
  <1>3. Good(t, r, s)
    BY <1>1, <1>2, SameVotesGood
  <1>4. QED
    BY <1>3 DEF s

LEMMA RetriedGood ==
    ASSUME NEW t \in Tasks, NEW r \in Row, RowFine(t, r), Reached(t, r),
           NEW n \in Nat, Sees(n, r), NEW due \in BOOLEAN
    PROVE  Good(t, r, Retried(r, t, n, due))
  <1> DEFINE s == Retried(r, t, n, due)
  <1>1. s \in Row
    BY RetriedRow
  <1>2. /\ s.votes = r.votes /\ s.creator = r.creator /\ s.attempt = r.attempt
        /\ s.round = r.round /\ s.touched = r.touched
        /\ s.status = IF n >= Budget(t) THEN "dead_letter" ELSE "queued"
    BY DEF Retried, Unleased, Row
  <1> HIDE DEF s
  <1>3. s.status = "dead_letter" /\ s.round = 0 => s.attempt = Budget(t)
    <2>1. r.attempt <= Budget(t) /\ r.attempt \in Nat /\ Budget(t) \in Nat
      BY Bounds DEF RowFine, Row
    <2>2. QED
      BY <1>2, <2>1 DEF Sees
  <1>4. Good(t, r, s)
    BY <1>1, <1>2, <1>3, SameVotesGood DEF Reached
  <1>5. QED
    BY <1>4 DEF s

LEMMA ReopenedGood ==
    ASSUME NEW t \in Tasks, NEW r \in Row, RowFine(t, r), Reached(t, r)
    PROVE  Good(t, r, Reopened(r))
  <1> DEFINE s == Reopened(r)
  <1>1. /\ s.votes = r.votes /\ s.creator = r.creator /\ s.attempt = 0
        /\ s.round = r.round + 1 /\ s.status = "queued"
    BY DEF Reopened, Unleased, Row
  <1> HIDE DEF s
  <1>2. Approve(s) = Approve(r)
    BY <1>1 DEF Approve
  <1>3. r.round \in Nat /\ Budget(t) \in Nat
    BY Bounds DEF Row
  <1>4. Good(t, r, s)
    BY <1>1, <1>2, <1>3 DEF Good, Sound, RowFine, Advances, Held, Reached, Enough
  <1>5. QED
    BY <1>4 DEF s

LEMMA ClaimedGood ==
    ASSUME NEW t \in Tasks, NEW r \in Row, RowFine(t, r), r.status = "queued",
           NEW w \in Workers
    PROVE  /\ r.attempt + 1 > Budget(t) =>
                  Good(t, r, [r EXCEPT !.status = "dead_letter"])
           /\ r.attempt + 1 <= Budget(t) =>
                  LET u == [r EXCEPT !.status = "running", !.attempt = r.attempt + 1,
                                     !.owner = w, !.lease = "live"]
                  IN  RowFine(t, u) /\ Advances(r, u)
  <1> DEFINE s == [r EXCEPT !.status = "dead_letter"]
             u == [r EXCEPT !.status = "running", !.attempt = r.attempt + 1,
                            !.owner = w, !.lease = "live"]
  <1>1. r.attempt \in Nat /\ r.round \in Nat /\ Budget(t) \in Nat
    BY Bounds DEF Row
  <1>2. Enough(t, r)
    BY DEF RowFine
  <1>3. ASSUME r.attempt + 1 > Budget(t)
        PROVE  Good(t, r, s)
    <2>1. /\ s.votes = r.votes /\ s.creator = r.creator /\ s.attempt = r.attempt
          /\ s.round = r.round /\ s.touched = r.touched /\ s.status = "dead_letter"
          /\ s \in Row
      BY DEF Row, Status, Terminal
    <2> HIDE DEF s
    <2>2. s.attempt = Budget(t)
      BY <1>1, <1>3, <2>1 DEF RowFine
    <2>3. QED
      BY <1>2, <2>1, <2>2, SameVotesGood
  <1>4. ASSUME r.attempt + 1 <= Budget(t)
        PROVE  RowFine(t, u) /\ Advances(r, u)
    <2>1. /\ u.votes = r.votes /\ u.creator = r.creator /\ u.attempt = r.attempt + 1
          /\ u.round = r.round /\ u.touched = r.touched /\ u.status = "running"
          /\ u.owner = w /\ u.lease = "live"
      BY DEF Row
    <2> HIDE DEF u
    <2>2. Approve(u) = Approve(r)
      BY <2>1 DEF Approve
    <2>3. QED
      BY <1>1, <1>2, <1>4, <2>1, <2>2, Bounds DEF Good, Sound, RowFine, Advances, Held, Enough
  <1>5. QED
    BY <1>3, <1>4

LEMMA PatchedGood ==
    ASSUME NEW t \in Tasks, NEW r \in Row, RowFine(t, r), r.status # "none"
    PROVE  /\ Good(t, r, [r EXCEPT !.cancel = TRUE])
           /\ Good(t, r, [r EXCEPT !.due = TRUE])
           /\ Good(t, r, [r EXCEPT !.lease = "live"])
           /\ Good(t, r, [r EXCEPT !.lease = "expired"])
           /\ Enough(t, r) => Good(t, r, [r EXCEPT !.touched = TRUE])
  <1> DEFINE P(s) == /\ s \in Row /\ s.votes = r.votes /\ s.creator = r.creator
                     /\ s.attempt = r.attempt /\ s.round = r.round
                     /\ s.status = r.status /\ s.owner = r.owner
                     /\ s.lease = r.lease \/ s.lease # "none"
  <1>1. ASSUME NEW s, P(s), s.touched = r.touched \/ Enough(t, r)
        PROVE  Good(t, r, s)
    BY <1>1, SameVotesGood DEF RowFine
  <1>2. /\ P([r EXCEPT !.cancel = TRUE]) /\ [r EXCEPT !.cancel = TRUE].touched = r.touched
        /\ P([r EXCEPT !.due = TRUE]) /\ [r EXCEPT !.due = TRUE].touched = r.touched
        /\ P([r EXCEPT !.lease = "live"]) /\ [r EXCEPT !.lease = "live"].touched = r.touched
        /\ P([r EXCEPT !.lease = "expired"]) /\ [r EXCEPT !.lease = "expired"].touched = r.touched
        /\ P([r EXCEPT !.touched = TRUE])
    BY DEF Row
  <1> HIDE DEF P
  <1>3. QED
    BY <1>1, <1>2

LEMMA NewRowGood ==
    ASSUME NEW t \in Tasks, NEW actor \in Actors \union {Agent}, NEW depth \in Nat
    PROVE  Good(t, NoRow, NewRow(t, actor, depth))
  <1> DEFINE s == NewRow(t, actor, depth)
  <1>1. /\ s.votes = NoRow.votes /\ s.attempt = 0 /\ s.round = 0 /\ ~s.touched
        /\ s.creator = actor
        /\ s.status = IF Required(t) > 0 THEN "waiting_approval" ELSE "queued"
        /\ NoRow.status = "none" /\ NoRow.attempt = 0 /\ NoRow.round = 0
        /\ \A a \in Actors : NoRow.votes[a] = "none"
    BY DEF NewRow, NoRow
  <1> HIDE DEF s
  <1>2. Approve(s) = {} /\ Cardinality(Approve(s)) \in Nat
    BY <1>1, ApproveFinite DEF Approve
  <1>3. Good(t, NoRow, s)
    BY <1>1, <1>2, Bounds DEF Good, Sound, RowFine, Advances, Held, Enough
  <1>4. QED
    BY <1>3 DEF s

\* One more vote.
LEMMA DecidedVotes ==
    ASSUME NEW t \in Tasks, NEW r \in Row, NEW a \in Actors,
           NEW decision \in {"approve", "reject"}, NEW n \in Nat,
           NEW s, s = Decided(r, t, a, decision, n)
    PROVE  /\ \A b \in Actors : s.votes[b] = IF b = a THEN decision ELSE r.votes[b]
           /\ s.creator = r.creator /\ s.attempt = r.attempt /\ s.round = r.round
           /\ s.touched = r.touched /\ s.owner = r.owner /\ s.lease = r.lease
           /\ s.status = IF decision = "reject" THEN "canceled"
                         ELSE IF n >= Required(t) THEN "queued" ELSE r.status
  <1> DEFINE voted == [r EXCEPT !.votes[a] = decision]
  <1>1. /\ voted \in Row
        /\ \A b \in Actors : voted.votes[b] = IF b = a THEN decision ELSE r.votes[b]
        /\ voted.creator = r.creator /\ voted.attempt = r.attempt /\ voted.round = r.round
        /\ voted.touched = r.touched /\ voted.owner = r.owner /\ voted.lease = r.lease
        /\ voted.status = r.status
    BY DEF Row
  <1> HIDE DEF voted
  <1>2. s =
           CASE decision = "reject" -> [voted EXCEPT !.status = "canceled"]
             [] decision = "approve" /\ n >= Required(t) ->
                   [voted EXCEPT !.status = "queued", !.approved = TRUE, !.due = TRUE]
             [] OTHER -> voted
    BY DEF Decided, voted
  <1>3. CASE decision = "reject"
    <2>1. s = [voted EXCEPT !.status = "canceled"]
      BY <1>2, <1>3
    <2>2. QED
      BY <1>1, <1>3, <2>1 DEF Row
  <1>4. CASE decision = "approve" /\ n >= Required(t)
    <2>1. s = [voted EXCEPT !.status = "queued", !.approved = TRUE, !.due = TRUE]
      BY <1>2, <1>4
    <2>2. /\ s.votes = voted.votes /\ s.creator = voted.creator
          /\ s.attempt = voted.attempt /\ s.round = voted.round
          /\ s.touched = voted.touched /\ s.owner = voted.owner
          /\ s.lease = voted.lease /\ s.status = "queued"
      BY <1>1, <2>1 DEF Row
    <2>3. QED
      BY <1>1, <1>4, <2>2
  <1>5. CASE decision = "approve" /\ ~(n >= Required(t))
    BY <1>1, <1>2, <1>5
  <1>6. QED
    BY <1>3, <1>4, <1>5

LEMMA DecidedSound ==
    ASSUME NEW t \in Tasks, NEW r \in Row, RowFine(t, r), r.status # "none",
           NEW a \in Actors, r.votes[a] = "none", a # r.creator,
           NEW decision \in {"approve", "reject"}, NEW n \in Nat,
           decision = "approve" => n <= Cardinality(Approve(r) \union {a})
    PROVE  Sound(t, r, Decided(r, t, a, decision, n))
  <1> DEFINE s == Decided(r, t, a, decision, n)
  <1>1. /\ \A b \in Actors : s.votes[b] = IF b = a THEN decision ELSE r.votes[b]
        /\ s.creator = r.creator /\ s.attempt = r.attempt /\ s.round = r.round
        /\ s.touched = r.touched /\ s.owner = r.owner /\ s.lease = r.lease
        /\ s.status = IF decision = "reject" THEN "canceled"
                      ELSE IF n >= Required(t) THEN "queued" ELSE r.status
    <2>1. s = Decided(r, t, a, decision, n)
      OBVIOUS
    <2> HIDE DEF s
    <2>2. QED
      BY <2>1, DecidedVotes
  <1> HIDE DEF s
  <1>3. Approve(s) = Approve(r) \union IF decision = "approve" THEN {a} ELSE {}
    BY <1>1 DEF Approve
  <1>4. Cardinality(Approve(r)) <= Cardinality(Approve(s))
    BY <1>3, ApproveFinite, FS_Subset
  <1>5. /\ Cardinality(Approve(r)) \in Nat /\ Cardinality(Approve(s)) \in Nat
        /\ Required(t) \in Nat
    BY ApproveFinite, Bounds
  <1>6. Enough(t, r) => Enough(t, s)
    BY <1>4, <1>5 DEF Enough
  <1>7. decision = "approve" /\ n >= Required(t) => Enough(t, s)
    BY <1>3, <1>5 DEF Enough
  <1>8. Advances(r, s)
    <2>1. s.status # "none"
      BY <1>1
    <2>2. r.attempt \in Nat
      BY DEF Row
    <2>3. QED
      BY <1>1, <2>1, <2>2 DEF Advances
  <1>9. s.creator \notin Approve(s)
    BY <1>1, <1>3 DEF RowFine
  <1>10. RowFine(t, s) /\ Held(r, s)
    BY <1>1, <1>6, <1>7, <1>9 DEF RowFine, Held
  <1>11. QED
    BY <1>8, <1>10 DEF Sound, s

(***************************************************************************)
(* Every step writes only good rows.                                       *)
(***************************************************************************)
GoodStep == \A t \in Tasks : Good(t, task[t], task'[t])
HeldStep == \A t \in Tasks : Held(task[t], task'[t])
AdvanceStep == \A t \in Tasks : RowFine(t, task'[t]) /\ Advances(task[t], task'[t])

LEMMA UpdateGood ==
    ASSUME TypeOK, RowsOK, NEW t \in Tasks, NEW s, Good(t, task[t], s),
           task' = [task EXCEPT ![t] = s]
    PROVE  GoodStep
  <1>1. ASSUME NEW u \in Tasks PROVE Good(u, task[u], task[u])
    BY DEF TypeOK, RowsOK, Good, Sound, Advances, Held, Row
  <1>2. QED
    BY <1>1 DEF GoodStep, TypeOK

LEMMA UpdateSound ==
    ASSUME TypeOK, RowsOK, NEW t \in Tasks, NEW s, Sound(t, task[t], s),
           task' = [task EXCEPT ![t] = s]
    PROVE  AdvanceStep /\ HeldStep
  <1>1. ASSUME NEW u \in Tasks PROVE Sound(u, task[u], task[u])
    BY DEF TypeOK, RowsOK, Sound, Advances, Held, Row
  <1>2. QED
    BY <1>1 DEF AdvanceStep, HeldStep, Sound, TypeOK

LEMMA StutterGood ==
    ASSUME TypeOK, RowsOK, task' = task
    PROVE  GoodStep
  BY DEF TypeOK, RowsOK, GoodStep, Good, Sound, Advances, Held, Row

LEMMA ClaimGood ==
    ASSUME IInv, NEW w \in Workers, NEW t \in Tasks, Claim(w, t)
    PROVE  AdvanceStep
  <1>1. task[t] \in Row /\ RowFine(t, task[t]) /\ task[t].status = "queued"
    BY DEF IInv, TypeOK, RowsOK, Claim, Claimable
  <1>2. task[t].attempt \in Nat /\ Budget(t) \in Nat
    BY <1>1, Bounds DEF Row
  <1> DEFINE dead == [task[t] EXCEPT !.status = "dead_letter"]
             run == [task[t] EXCEPT !.status = "running", !.attempt = task[t].attempt + 1,
                                    !.owner = w, !.lease = "live"]
  <1>3. \/ task[t].attempt + 1 > Budget(t) /\ task' = [task EXCEPT ![t] = dead]
        \/ ~(task[t].attempt + 1 > Budget(t)) /\ task' = [task EXCEPT ![t] = run]
    BY DEF Claim
  <1>4. /\ task[t].attempt + 1 > Budget(t) => RowFine(t, dead) /\ Advances(task[t], dead)
        /\ task[t].attempt + 1 <= Budget(t) => RowFine(t, run) /\ Advances(task[t], run)
    BY <1>1, ClaimedGood DEF Good, Sound
  <1> HIDE DEF dead, run
  <1>5. \A u \in Tasks : RowFine(u, task[u]) /\ Advances(task[u], task[u])
    BY DEF IInv, TypeOK, RowsOK, Advances, Row
  <1>6. QED
    BY <1>2, <1>3, <1>4, <1>5 DEF AdvanceStep, IInv, TypeOK

LEMMA RunGood ==
    ASSUME IInv, NEW w \in Workers, Runs(w)
    PROVE  GoodStep
  <1> DEFINE t == worker[w].task
  <1>1. worker[w] \in Local /\ worker[w].pc # "idle"
    BY DEF IInv, TypeOK, Runs, Begin, ReadTurn, ProviderChat, ReadTool, PlainTool, MutatingTool, Delegate,
           Finish, WriteCanceled, ReadProviderError, Release, ReadError, Fail
  <1>2. t \in Tasks /\ task[t] \in Row /\ RowFine(t, task[t]) /\ Reached(t, task[t])
    BY <1>1 DEF IInv, TypeOK, LocalsOK, RowsOK, WorkersOK, WorkerFine
  <1>3. CASE task' = task
    BY <1>3, StutterGood DEF IInv
  <1>4. CASE MutatingTool(w)
    <2>1. task' = [task EXCEPT ![t] = [task[t] EXCEPT !.touched = TRUE]]
      BY <1>4 DEF MutatingTool
    <2>2. QED
      BY <1>2, <2>1, PatchedGood, UpdateGood DEF IInv, Reached
  <1>5. ASSUME NEW child \in Tasks, Delegate(w, child)
        PROVE  GoodStep
    <2>1. task[t].depth + 1 \in Nat
      BY <1>2 DEF Row
    <2>2. task[child] = NoRow
      BY <1>5 DEF Delegate, IInv, RowsOK, RowFine
    <2>3. Good(child, task[child], NewRow(child, Agent, task[t].depth + 1))
      BY <2>1, <2>2, NewRowGood
    <2>4. QED
      BY <1>5, <2>3, UpdateGood DEF Delegate, IInv
  <1>6. CASE Finish(w) \/ WriteCanceled(w) \/ Fail(w)
    <2>1. PICK status \in {"succeeded", "canceled", "failed"} :
             task' = [task EXCEPT ![t] = Unleased(task[t], status)]
      BY <1>6 DEF Finish, WriteCanceled, Fail
    <2>2. QED
      BY <1>2, <2>1, UnleasedGood, UpdateGood DEF IInv, Reached
  <1>7. CASE Release(w)
    <2>1. worker[w].seen \in Nat /\ Sees(worker[w].seen, task[t])
      BY <1>1, <1>7 DEF Release, Local, IInv, WorkersOK, WorkerFine
    <2>2. QED
      BY <1>2, <1>7, <2>1, RetriedGood, UpdateGood DEF Release, IInv
  <1>8. QED
    BY <1>3, <1>4, <1>5, <1>6, <1>7
       DEF Runs, Begin, ReadTurn, ProviderChat, ReadTool, PlainTool, ReadProviderError, ReadError

LEMMA QueueGood ==
    ASSUME IInv, NEW w \in Workers,
           \/ Sweep(w) \/ (\E f \in worker[w].found : Requeue(w, f[1], f[2]))
           \/ Heartbeat(w) \/ Crash(w)
    PROVE  GoodStep
  <1>1. CASE task' = task
    BY <1>1, StutterGood DEF IInv
  <1>2. ASSUME NEW f \in worker[w].found, Requeue(w, f[1], f[2])
        PROVE  GoodStep
    <2>1. f[1] \in Tasks /\ f[2] \in Nat
      BY DEF IInv, TypeOK, Local
    <2>2. Reached(f[1], task[f[1]]) /\ Sees(f[2], task[f[1]])
      BY DEF IInv, WorkersOK, WorkerFine
    <2>3. Good(f[1], task[f[1]], Retried(task[f[1]], f[1], f[2], TRUE))
      BY <2>1, <2>2, RetriedGood DEF IInv, TypeOK, RowsOK
    <2>4. QED
      BY <1>2, <2>1, <2>3, UpdateGood DEF Requeue, IInv
  <1>3. CASE Heartbeat(w)
    <2> DEFINE t == worker[w].task
    <2>1. CASE t \in Tasks /\ task' # task
      <3>1. task' = [task EXCEPT ![t] = [task[t] EXCEPT !.lease = "live"]]
            /\ task[t].status = "running"
        BY <1>3, <2>1 DEF Heartbeat
      <3>2. QED
        BY <2>1, <3>1, PatchedGood, UpdateGood DEF IInv, TypeOK, RowsOK
    <2>2. CASE t \notin Tasks
      BY <1>3, <2>2, StutterGood DEF Heartbeat, IInv, TypeOK
    <2>3. QED
      BY <1>1, <2>1, <2>2
  <1>4. QED
    BY <1>1, <1>2, <1>3 DEF Sweep, Crash

LEMMA ClockGood ==
    ASSUME IInv, NEW t \in Tasks, LeaseExpires(t) \/ RetryDelayPasses(t)
    PROVE  GoodStep
  <1>1. task[t] \in Row /\ RowFine(t, task[t])
    BY DEF IInv, TypeOK, RowsOK
  <1>2. task[t].status # "none"
    BY <1>1 DEF LeaseExpires, RetryDelayPasses, RowFine, NoRow
  <1>3. \/ task' = [task EXCEPT ![t] = [task[t] EXCEPT !.lease = "expired"]]
        \/ task' = [task EXCEPT ![t] = [task[t] EXCEPT !.due = TRUE]]
    BY DEF LeaseExpires, RetryDelayPasses
  <1>4. QED
    BY <1>1, <1>2, <1>3, PatchedGood, UpdateGood DEF IInv

LEMMA SubmitGood ==
    ASSUME IInv, NEW t \in Tasks, NEW a \in Actors, Submit(t, a)
    PROVE  GoodStep
  <1>1. task[t] = NoRow
    BY DEF IInv, RowsOK, Submit, RowFine
  <1>2. Good(t, task[t], NewRow(t, a, 0))
    BY <1>1, NewRowGood
  <1>3. QED
    BY <1>2, UpdateGood DEF Submit, IInv

LEMMA DecideSound ==
    ASSUME IInv, NEW t \in Tasks, NEW a \in Actors,
           NEW d \in {"approve", "reject"}, Decide(t, a, d)
    PROVE  AdvanceStep /\ HeldStep
  <1>1. task[t] \in Row /\ RowFine(t, task[t])
    BY DEF IInv, TypeOK, RowsOK
  <1>2. /\ task[t].status # "none" /\ task[t].votes[a] = "none" /\ a # task[t].creator
        /\ task' = [task EXCEPT ![t] = Decided(task[t], t, a, d, Tally(t, a, d))]
    BY DEF Decide, MayDecide
  <1>3. Tally(t, a, d) \in Nat
    BY ApproversFinite
  <1>4. d = "approve" => Tally(t, a, d) <= Cardinality(Approve(task[t]) \union {a})
    BY <1>3 DEF Tally, Approvers, Approve
  <1>5. Sound(t, task[t], Decided(task[t], t, a, d, Tally(t, a, d)))
    BY <1>1, <1>2, <1>3, <1>4, DecidedSound
  <1>6. QED
    BY <1>2, <1>5, UpdateSound DEF IInv

LEMMA CommitSound ==
    ASSUME IInv, NEW c \in Clients, DecideCommit(c)
    PROVE  AdvanceStep /\ HeldStep
  <1> DEFINE t == client[c].task
  <1>1. client[c] \in HandlerState /\ ClientFine(task, client[c])
    BY DEF IInv, TypeOK, ClientsOK
  <1>2. /\ client[c].op \in {"approve", "reject"} /\ client[c].actor \in Actors
        /\ client[c].count \in Nat /\ client[c].step = "counted"
    BY <1>1 DEF DecideCommit, IInv, LocalsOK, HandlerState
  <1>3. /\ t \in Tasks /\ task[t] \in Row /\ RowFine(t, task[t])
        /\ task[t].status # "none"
    BY <1>1, <1>2 DEF IInv, TypeOK, LocalsOK, RowsOK, ClientFine
  <1>4. /\ task[t].votes[client[c].actor] = "none" /\ client[c].actor # task[t].creator
        /\ client[c].op = "approve" =>
              client[c].count <= Cardinality(Approve(task[t]) \union {client[c].actor})
    BY <1>1, <1>2 DEF ClientFine
  <1>5. Sound(t, task[t], Decided(task[t], t, client[c].actor, client[c].op, client[c].count))
    BY <1>2, <1>3, <1>4, DecidedSound
  <1>6. QED
    BY <1>2, <1>3, <1>5, UpdateSound DEF DecideCommit, IInv

LEMMA HandlerGood ==
    ASSUME IInv, NEW c \in Clients,
           \/ DecideInsert(c) \/ CancelWrite(c) \/ RetryWrite(c)
           \/ \E t \in Tasks : CancelRead(c, t) \/ RetryRead(c, t)
           \/ \E t \in Tasks, a \in Actors, d \in {"approve", "reject"} : DecideRead(c, t, a, d)
    PROVE  GoodStep
  <1> DEFINE t == client[c].task
  <1>1. client[c] \in HandlerState /\ ClientFine(task, client[c])
    BY DEF IInv, TypeOK, ClientsOK
  <1>2. CASE task' = task
    BY <1>2, StutterGood DEF IInv
  <1>3. ASSUME client[c].op # "idle"
        PROVE  /\ t \in Tasks /\ task[t] \in Row /\ RowFine(t, task[t])
               /\ task[t].status # "none"
    BY <1>1, <1>3 DEF IInv, TypeOK, LocalsOK, RowsOK, ClientFine
  <1>4. CASE CancelWrite(c)
    <2>1. /\ t \in Tasks /\ task[t] \in Row /\ RowFine(t, task[t])
          /\ task[t].status # "none"
      BY <1>3, <1>4 DEF CancelWrite
    <2>2. CASE client[c].op = "flag"
      BY <1>4, <2>1, <2>2, PatchedGood, UpdateGood DEF CancelWrite, IInv
    <2>3. CASE client[c].op = "cancel"
      <3>1. Good(t, task[t], [Unleased(task[t], "canceled") EXCEPT !.cancel = TRUE])
        <4> DEFINE u == Unleased(task[t], "canceled")
                   s == [u EXCEPT !.cancel = TRUE]
        <4>1. /\ u \in Row /\ u.votes = task[t].votes /\ u.creator = task[t].creator
              /\ u.attempt = task[t].attempt /\ u.round = task[t].round
              /\ u.touched = task[t].touched /\ u.status = "canceled"
          BY <2>1, UnleasedRow DEF Unleased, Row, Status, Terminal
        <4> HIDE DEF u
        <4>2. /\ s \in Row /\ s.votes = task[t].votes /\ s.creator = task[t].creator
              /\ s.attempt = task[t].attempt /\ s.round = task[t].round
              /\ s.touched = task[t].touched /\ s.status = "canceled"
          BY <4>1 DEF Row
        <4> HIDE DEF s
        <4>3. Good(t, task[t], s)
          BY <2>1, <4>2, SameVotesGood
        <4>4. QED
          BY <4>3 DEF s, u
      <3>2. QED
        BY <1>4, <2>1, <2>3, <3>1, UpdateGood DEF CancelWrite, IInv
    <2>4. QED
      BY <1>4, <2>2, <2>3 DEF CancelWrite
  <1>5. CASE RetryWrite(c)
    <2>1. /\ t \in Tasks /\ task[t] \in Row /\ RowFine(t, task[t]) /\ Reached(t, task[t])
      BY <1>1, <1>3, <1>5 DEF RetryWrite, ClientFine, Reached
    <2>2. QED
      BY <1>5, <2>1, ReopenedGood, UpdateGood DEF RetryWrite, IInv
  <1>6. QED
    BY <1>2, <1>4, <1>5 DEF DecideInsert, CancelRead, RetryRead, DecideRead

LEMMA NextGood ==
    ASSUME IInv, [Next]_vars
    PROVE  \/ GoodStep
           \/ AdvanceStep /\ \E w \in Workers, t \in Tasks : Claim(w, t)
           \/ /\ AdvanceStep /\ HeldStep
              /\ \E t \in Tasks, a \in Actors, d \in {"approve", "reject"} : Decide(t, a, d)
           \/ AdvanceStep /\ HeldStep /\ \E c \in Clients : DecideCommit(c)
  <1>1. CASE UNCHANGED vars
    BY <1>1, StutterGood DEF IInv, vars
  <1>2. CASE Next
    <2>1. CASE \E w \in Workers : Step(w) \/ Sweep(w) \/ Heartbeat(w) \/ Crash(w)
      BY <2>1, ClaimGood, RunGood, QueueGood DEF Step, Runs
    <2>2. CASE \E t \in Tasks : LeaseExpires(t) \/ RetryDelayPasses(t)
      BY <2>2, ClockGood
    <2>3. CASE \E t \in Tasks, a \in Actors : Submit(t, a)
      BY <2>3, SubmitGood
    <2>4. CASE \E t \in Tasks, a \in Actors, d \in {"approve", "reject"} :
                  Decide(t, a, d) \/ \E c \in Clients : DecideRead(c, t, a, d)
      BY <2>4, DecideSound, HandlerGood
    <2>5. CASE \E c \in Clients : \/ Handle(c)
                                 \/ \E t \in Tasks : CancelRead(c, t) \/ RetryRead(c, t)
      BY <2>5, CommitSound, HandlerGood DEF Handle
    <2>6. QED
      BY <1>2, <2>1, <2>2, <2>3, <2>4, <2>5 DEF Next
  <1>3. QED
    BY <1>1, <1>2

LEMMA NextAdvances ==
    ASSUME IInv, [Next]_vars
    PROVE  AdvanceStep
  <1>1. GoodStep => AdvanceStep
    BY DEF GoodStep, AdvanceStep, Good, Sound
  <1>2. QED
    BY <1>1, NextGood

(***************************************************************************)
(* What was learnt about a row stays true while the row advances.          *)
(***************************************************************************)
LEMMA KnownStable ==
    ASSUME NEW t \in Tasks, NEW r \in Row, NEW s \in Row, Advances(r, s)
    PROVE  /\ Approve(r) \subseteq Approve(s)
           /\ Enough(t, r) => Enough(t, s)
           /\ Reached(t, r) => Reached(t, s)
           /\ \A l \in Local : Behind(l, r) => Behind(l, s)
           /\ \A n \in Nat : Sees(n, r) => Sees(n, s)
  <1>1. /\ r.round \in Nat /\ s.round \in Nat /\ r.attempt \in Nat /\ s.attempt \in Nat
    BY DEF Row
  <1>2. Approve(r) \subseteq Approve(s)
    BY DEF Advances, Approve
  <1>3. Cardinality(Approve(r)) <= Cardinality(Approve(s))
    BY <1>2, ApproveFinite, FS_Subset
  <1>4. Enough(t, r) => Enough(t, s)
    BY <1>3, ApproveFinite, Bounds DEF Enough
  <1>5. \A l \in Local : Behind(l, r) => Behind(l, s)
    BY <1>1 DEF Behind, Advances, Local
  <1>6. \A n \in Nat : Sees(n, r) => Sees(n, s)
    BY <1>1 DEF Sees, Advances
  <1>7. QED
    BY <1>2, <1>4, <1>5, <1>6 DEF Reached, Advances

\* The locals k of a worker that still executes what l did, in a later table.
LEMMA WorkerStable ==
    ASSUME NEW tab \in [Tasks -> Row], NEW tab2 \in [Tasks -> Row],
           \A t \in Tasks : Advances(tab[t], tab2[t]),
           NEW l \in Local, WorkerFine(tab, l),
           NEW k \in Local, k.task = l.task, k.round = l.round, k.attempt = l.attempt,
           k.found \subseteq l.found,
           k.pc = "release" => Sees(k.seen, tab2[k.task])
    PROVE  WorkerFine(tab2, k)
  <1>1. k.task \in Tasks => Reached(k.task, tab2[k.task]) /\ Behind(k, tab2[k.task])
    BY KnownStable DEF WorkerFine, Behind
  <1>2. ASSUME NEW f \in k.found
        PROVE  Reached(f[1], tab2[f[1]]) /\ Sees(f[2], tab2[f[1]])
    <2>1. f[1] \in Tasks /\ f[2] \in Nat
      BY DEF Local
    <2>2. QED
      BY <2>1, KnownStable DEF WorkerFine
  <1>3. QED
    BY <1>1, <1>2 DEF WorkerFine

LEMMA SameWorkerStable ==
    ASSUME NEW tab \in [Tasks -> Row], NEW tab2 \in [Tasks -> Row],
           \A t \in Tasks : Advances(tab[t], tab2[t]),
           NEW l \in Local, WorkerFine(tab, l), l.pc = "release" => l.task \in Tasks
    PROVE  WorkerFine(tab2, l)
  <1>1. l.pc = "release" => Sees(l.seen, tab2[l.task])
    BY KnownStable DEF WorkerFine, Local
  <1>2. QED
    BY <1>1, WorkerStable

LEMMA IdleFine ==
    ASSUME NEW tab
    PROVE  WorkerFine(tab, Idle)
  BY Bounds DEF WorkerFine, Idle

\* Workers that do not act.
LEMMA OthersFine ==
    ASSUME IInv, TypeOK', AdvanceStep, NEW v \in Workers, worker'[v] = worker[v]
    PROVE  WorkerFine(task', worker'[v])
  <1>1. /\ task \in [Tasks -> Row] /\ task' \in [Tasks -> Row] /\ worker[v] \in Local
        /\ WorkerFine(task, worker[v])
        /\ worker[v].pc = "release" => worker[v].task \in Tasks
    BY DEF IInv, TypeOK, LocalsOK, WorkersOK
  <1>2. \A t \in Tasks : Advances(task[t], task'[t])
    BY DEF AdvanceStep
  <1>3. QED
    BY <1>1, <1>2, SameWorkerStable

LEMMA ClaimWorkers ==
    ASSUME IInv, TypeOK', AdvanceStep, NEW w \in Workers, NEW t \in Tasks, Claim(w, t)
    PROVE  WorkersOK'
  <1> DEFINE n == task[t].attempt + 1
             l == [Idle EXCEPT !.pc = "claimed", !.task = t,
                               !.round = task[t].round, !.attempt = n]
             run == [task[t] EXCEPT !.status = "running", !.attempt = n,
                                    !.owner = w, !.lease = "live"]
  <1>1. \/ worker' = worker
        \/ task' = [task EXCEPT ![t] = run] /\ worker' = [worker EXCEPT ![w] = l]
    BY DEF Claim
  <1>2. CASE worker' = worker
    BY <1>2, OthersFine DEF WorkersOK
  <1>3. CASE task' = [task EXCEPT ![t] = run] /\ worker' = [worker EXCEPT ![w] = l]
    <2>1. /\ task[t] \in Row /\ RowFine(t, task[t]) /\ task[t].status = "queued"
          /\ Enough(t, task[t])
      BY DEF IInv, TypeOK, RowsOK, RowFine, Claim, Claimable
    <2>2. task[t].attempt \in Nat /\ task[t].round \in Nat /\ task'[t] \in Row
      BY <2>1 DEF Row, TypeOK
    <2>3. Advances(task[t], task'[t])
      BY DEF AdvanceStep
    <2>4. Reached(t, task'[t])
      BY <2>1, <2>2, <2>3, KnownStable DEF Reached
    <2>5. /\ l.task = t /\ l.round = task[t].round /\ l.attempt = n
          /\ l.pc = "claimed" /\ l.found = {}
      BY DEF Idle
    <2>6. task'[t].round = task[t].round /\ task'[t].attempt = n
      BY <1>3, <2>1 DEF IInv, TypeOK, Row
    <2>7. worker'[w] = l
      BY <1>3 DEF IInv, TypeOK
    <2> HIDE DEF l, n
    <2>8. WorkerFine(task', worker'[w])
      BY <2>2, <2>4, <2>5, <2>6, <2>7 DEF WorkerFine, Behind, n
    <2>9. \A v \in Workers \ {w} : worker'[v] = worker[v]
      BY <1>3 DEF IInv, TypeOK
    <2>10. QED
      BY <2>8, <2>9, OthersFine DEF WorkersOK
  <1>4. QED
    BY <1>1, <1>2, <1>3

\* Only a provider error leads to release_for_retry, with the attempt just read.
LEMMA RunReleases ==
    ASSUME TypeOK, NEW w \in Workers, Runs(w), worker'[w].pc = "release"
    PROVE  task' = task /\ worker'[w].seen = task[worker[w].task].attempt
  <1>1. worker[w] \in Local
    BY DEF TypeOK
  <1>2. ASSUME NEW pc, Goto(w, pc) PROVE worker'[w].pc = pc
    BY <1>1, <1>2 DEF Goto, TypeOK, Local
  <1>3. ASSUME NEW kids, NextTurn(w, kids) PROVE worker'[w].pc \in {"turn", "error"}
    BY <1>1, <1>3 DEF NextTurn, TypeOK, Local
  <1>4. ASSUME NEW kids, AfterCall(w, kids) PROVE worker'[w].pc \in {"turn", "tools", "error"}
    BY <1>1, <1>3, <1>4 DEF AfterCall, TypeOK, Local
  <1>5. ~Done(w)
    BY DEF Done, Idle, TypeOK
  <1>6. ~Begin(w)
    BY <1>1 DEF Begin, TypeOK, Local
  <1>7. ~(ReadTurn(w) \/ ReadTool(w) \/ ReadError(w))
    BY <1>2 DEF ReadTurn, ReadTool, ReadError
  <1>8. ~(ProviderChat(w) \/ PlainTool(w) \/ MutatingTool(w) \/ (\E t \in Tasks : Delegate(w, t)))
    BY <1>2, <1>3, <1>4 DEF ProviderChat, PlainTool, MutatingTool, Delegate
  <1>9. ReadProviderError(w)
    BY <1>5, <1>6, <1>7, <1>8 DEF Runs, Finish, WriteCanceled, Release, Fail
  <1>10. QED
    BY <1>1, <1>9 DEF ReadProviderError, TypeOK, Local

LEMMA RunWorkers ==
    ASSUME IInv, TypeOK', AdvanceStep, NEW w \in Workers, Runs(w)
    PROVE  WorkersOK'
  <1>1. CASE Done(w)
    <2>1. worker'[w] = Idle /\ \A v \in Workers \ {w} : worker'[v] = worker[v]
      BY <1>1 DEF Done, IInv, TypeOK
    <2>2. QED
      BY <2>1, IdleFine, OthersFine DEF WorkersOK
  <1>2. CASE Moves(w)
    <2>1. \A v \in Workers \ {w} : worker'[v] = worker[v]
      BY <1>2 DEF Moves
    <2>2. /\ task \in [Tasks -> Row] /\ task' \in [Tasks -> Row]
          /\ worker[w] \in Local /\ worker'[w] \in Local /\ WorkerFine(task, worker[w])
          /\ \A t \in Tasks : Advances(task[t], task'[t])
      BY DEF IInv, TypeOK, WorkersOK, AdvanceStep
    <2>3. worker'[w].pc = "release" => Sees(worker'[w].seen, task'[worker'[w].task])
      <3>1. SUFFICES ASSUME worker'[w].pc = "release"
                     PROVE  Sees(worker'[w].seen, task'[worker'[w].task])
        OBVIOUS
      <3>2. task' = task /\ worker'[w].seen = task[worker[w].task].attempt
        BY <3>1, RunReleases DEF IInv
      <3>3. worker[w].pc # "idle"
        BY DEF Runs, Begin, ReadTurn, ProviderChat, ReadTool, PlainTool, MutatingTool, Delegate,
               Finish, WriteCanceled, ReadProviderError, Release, ReadError, Fail
      <3>4. worker[w].task \in Tasks /\ task[worker[w].task] \in Row
        BY <2>2, <3>3 DEF IInv, LocalsOK
      <3>5. worker'[w].task = worker[w].task
        BY <1>2 DEF Moves
      <3>6. QED
        BY <3>2, <3>4, <3>5 DEF Sees, Row
    <2>4. WorkerFine(task', worker'[w])
      BY <1>2, <2>2, <2>3, WorkerStable DEF Moves
    <2>5. QED
      BY <2>1, <2>4, OthersFine DEF WorkersOK
  <1>3. QED
    BY <1>1, <1>2, RunMoves DEF IInv

LEMMA QueueWorkers ==
    ASSUME IInv, TypeOK', AdvanceStep, NEW w \in Workers,
           \/ Sweep(w) \/ (\E f \in worker[w].found : Requeue(w, f[1], f[2]))
           \/ Heartbeat(w) \/ Crash(w)
    PROVE  WorkersOK'
  <1>1. /\ task \in [Tasks -> Row] /\ task' \in [Tasks -> Row]
        /\ worker[w] \in Local /\ worker'[w] \in Local /\ WorkerFine(task, worker[w])
        /\ \A t \in Tasks : Advances(task[t], task'[t])
        /\ worker[w].pc = "release" => worker[w].task \in Tasks
    BY DEF IInv, TypeOK, LocalsOK, WorkersOK, AdvanceStep
  <1>2. \A v \in Workers \ {w} : worker'[v] = worker[v]
    BY DEF Sweep, Requeue, Heartbeat, Crash, Done, IInv, TypeOK
  <1>3. WorkerFine(task', worker[w])
    BY <1>1, SameWorkerStable
  <1>4. CASE Crash(w)
    <2>1. worker'[w] = Idle
      BY <1>4 DEF Crash, Done, IInv, TypeOK
    <2>2. QED
      BY <1>2, <2>1, IdleFine, OthersFine DEF WorkersOK
  <1>5. CASE Sweep(w)
    <2> DEFINE expired == {t \in Tasks : task[t].status = "running" /\ task[t].lease = "expired"}
               f == {<<t, task[t].attempt>> : t \in expired}
    <2>1. worker[w] = Idle /\ task' = task /\ worker' = [worker EXCEPT ![w].found = f]
      BY <1>5 DEF Sweep
    <2>2. worker'[w].pc = "idle" /\ worker'[w].task = NoTask /\ worker'[w].found = f
      BY <1>1, <2>1 DEF Idle, IInv, TypeOK
    <2>3. ASSUME NEW e \in f
          PROVE  Reached(e[1], task'[e[1]]) /\ Sees(e[2], task'[e[1]])
      <3>1. PICK t \in Tasks : task[t].status = "running" /\ e = <<t, task[t].attempt>>
        BY DEF f
      <3>2. RowFine(t, task[t]) /\ task[t] \in Row
        BY DEF IInv, TypeOK, RowsOK
      <3>3. QED
        BY <2>1, <3>1, <3>2 DEF RowFine, Reached, Sees, Row
    <2> HIDE DEF f
    <2>4. WorkerFine(task', worker'[w])
      BY <2>2, <2>3, Bounds DEF WorkerFine
    <2>5. QED
      BY <1>2, <2>4, OthersFine DEF WorkersOK
  <1>6. CASE (\E f \in worker[w].found : Requeue(w, f[1], f[2])) \/ Heartbeat(w)
    <2>1. /\ worker'[w].pc = worker[w].pc /\ worker'[w].task = worker[w].task
          /\ worker'[w].round = worker[w].round /\ worker'[w].attempt = worker[w].attempt
          /\ worker'[w].seen = worker[w].seen
          /\ worker'[w].found \subseteq worker[w].found
      <3>1. CASE Heartbeat(w)
        BY <1>1, <3>1 DEF Heartbeat, IInv, TypeOK, Local
      <3>2. ASSUME NEW f \in worker[w].found, Requeue(w, f[1], f[2])
            PROVE  worker' = [worker EXCEPT ![w].found = worker[w].found \ {<<f[1], f[2]>>}]
        BY <3>2 DEF Requeue
      <3>3. CASE \E f \in worker[w].found : Requeue(w, f[1], f[2])
        BY <1>1, <3>2, <3>3 DEF IInv, TypeOK, Local
      <3>4. QED
        BY <1>6, <3>1, <3>3
    <2>2. worker'[w].pc = "release" => Sees(worker'[w].seen, task'[worker'[w].task])
      BY <1>3, <2>1 DEF WorkerFine
    <2>3. WorkerFine(task', worker'[w])
      BY <1>1, <2>1, <2>2, WorkerStable
    <2>4. QED
      BY <1>2, <2>3, OthersFine DEF WorkersOK
  <1>7. QED
    BY <1>4, <1>5, <1>6

LEMMA WorkersStayOK ==
    ASSUME IInv, [Next]_vars, TypeOK', AdvanceStep
    PROVE  WorkersOK'
  <1>1. CASE worker' = worker
    BY <1>1, OthersFine DEF WorkersOK
  <1>2. ASSUME NEW w \in Workers, Step(w) \/ Sweep(w) \/ Heartbeat(w) \/ Crash(w)
        PROVE  WorkersOK'
    BY <1>2, ClaimWorkers, RunWorkers, QueueWorkers DEF Step, Runs
  <1>3. QED
    BY <1>1, <1>2
       DEF Next, LeaseExpires, RetryDelayPasses, Submit, Decide, Handle, DecideRead,
           DecideInsert, DecideCommit, CancelRead, CancelWrite, RetryRead, RetryWrite, vars

(***************************************************************************)
(* Claims.                                                                 *)
(***************************************************************************)
SameClaim(l, k) == k.task = l.task /\ k.round = l.round /\ k.attempt = l.attempt

\* Only a claim gives a worker another task, round or attempt.
KeepsClaims == \A w \in Workers : worker'[w].task \in Tasks => SameClaim(worker[w], worker'[w])

LEMMA NoClaimKeeps ==
    ASSUME IInv, [Next]_vars, ~ \E w \in Workers, t \in Tasks : Claim(w, t)
    PROVE  KeepsClaims
  <1>1. CASE worker' = worker
    BY <1>1 DEF KeepsClaims, SameClaim
  <1>2. ASSUME NEW w \in Workers, Done(w)
        PROVE  KeepsClaims
    BY <1>2, Bounds DEF KeepsClaims, SameClaim, Done, Idle, IInv, TypeOK
  <1>3. ASSUME NEW w \in Workers, Runs(w)
        PROVE  KeepsClaims
    BY <1>2, <1>3, RunMoves DEF KeepsClaims, SameClaim, Moves, IInv
  <1>4. ASSUME NEW w \in Workers,
               \/ Sweep(w) \/ (\E f \in worker[w].found : Requeue(w, f[1], f[2])) \/ Heartbeat(w)
        PROVE  KeepsClaims
    <2>1. worker[w] \in Local
      BY DEF IInv, TypeOK
    <2>2. \/ worker' = worker
          \/ worker' = [worker EXCEPT ![w].beating = FALSE]
          \/ \E f : worker' = [worker EXCEPT ![w].found = f]
      BY <1>4 DEF Sweep, Requeue, Heartbeat
    <2>3. \A v \in Workers : SameClaim(worker[v], worker'[v])
      BY <2>1, <2>2 DEF SameClaim, IInv, TypeOK, Local
    <2>4. QED
      BY <2>3 DEF KeepsClaims
  <1>5. ASSUME NEW w \in Workers, Step(w) \/ Sweep(w) \/ Heartbeat(w) \/ Crash(w)
        PROVE  KeepsClaims
    BY <1>2, <1>3, <1>4, <1>5 DEF Step, Runs, Crash
  <1>6. QED
    BY <1>1, <1>5
       DEF Next, LeaseExpires, RetryDelayPasses, Submit, Decide, Handle, DecideRead,
           DecideInsert, DecideCommit, CancelRead, CancelWrite, RetryRead, RetryWrite, vars

LEMMA ClaimsStayDistinct ==
    ASSUME IInv, [Next]_vars
    PROVE  ClaimsAreDistinct'
  <1>1. CASE ~ \E w \in Workers, t \in Tasks : Claim(w, t)
    <2>1. KeepsClaims /\ HeldStep
      BY <1>1, NoClaimKeeps, NextGood DEF GoodStep, HeldStep, Good, Sound
    <2>2. SUFFICES ASSUME NEW t \in Tasks, NEW w \in Workers, worker'[w].task = t
                   PROVE  /\ task'[t].status = "running" /\ task'[t].owner = w =>
                                 <<worker'[w].round, worker'[w].attempt>>
                                    = <<task'[t].round, task'[t].attempt>>
                          /\ \A v \in Workers \ {w} : worker'[v].task = t =>
                                 <<worker'[v].round, worker'[v].attempt>>
                                    # <<worker'[w].round, worker'[w].attempt>>
      BY DEF ClaimsAreDistinct, Works
    <2>3. SameClaim(worker[w], worker'[w])
      BY <2>1, <2>2 DEF KeepsClaims
    <2>4. \A v \in Workers \ {w} : worker'[v].task = t => SameClaim(worker[v], worker'[v])
      BY <2>1 DEF KeepsClaims
    <2>5. Held(task[t], task'[t])
      BY <2>1 DEF HeldStep
    <2>6. QED
      BY <2>2, <2>3, <2>4, <2>5 DEF SameClaim, Held, IInv, ClaimsAreDistinct, Works
  <1>2. ASSUME NEW w \in Workers, NEW t \in Tasks, Claim(w, t)
        PROVE  ClaimsAreDistinct'
    <2> DEFINE n == task[t].attempt + 1
               l == [Idle EXCEPT !.pc = "claimed", !.task = t,
                                 !.round = task[t].round, !.attempt = n]
               dead == [task[t] EXCEPT !.status = "dead_letter"]
               run == [task[t] EXCEPT !.status = "running", !.attempt = n,
                                      !.owner = w, !.lease = "live"]
    <2>1. \/ task' = [task EXCEPT ![t] = dead] /\ worker' = worker
          \/ task' = [task EXCEPT ![t] = run] /\ worker' = [worker EXCEPT ![w] = l]
      BY <1>2 DEF Claim
    <2>2. task[t] \in Row /\ worker[w].task = NoTask
      BY <1>2 DEF Claim, Idle, IInv, TypeOK
    <2>3. task[t].attempt \in Nat /\ task[t].round \in Nat
      BY <2>2 DEF Row
    <2>4. CASE task' = [task EXCEPT ![t] = dead] /\ worker' = worker
      <3>1. dead.status = "dead_letter"
        BY <2>2 DEF Row
      <3>2. QED
        BY <2>4, <3>1 DEF IInv, TypeOK, ClaimsAreDistinct, Works
    <2>5. CASE task' = [task EXCEPT ![t] = run] /\ worker' = [worker EXCEPT ![w] = l]
      <3>1. /\ run.status = "running" /\ run.owner = w
            /\ run.round = task[t].round /\ run.attempt = n
        BY <2>2 DEF Row
      <3>2. l.task = t /\ l.round = task[t].round /\ l.attempt = n
        BY DEF Idle
      <3> HIDE DEF l, run
      <3>3. /\ task'[t] = run /\ \A u \in Tasks \ {t} : task'[u] = task[u]
            /\ worker'[w] = l /\ \A v \in Workers \ {w} : worker'[v] = worker[v]
        BY <2>5 DEF IInv, TypeOK
      <3>4. \A v \in Workers : worker[v].task = t => Behind(worker[v], task[t])
        BY DEF IInv, WorkersOK, WorkerFine
      <3>5. \A v \in Workers : worker[v].round \in Nat /\ worker[v].attempt \in Nat
        BY DEF IInv, TypeOK, Local
      <3>6. \A v \in Workers : worker[v].task = t =>
               <<worker[v].round, worker[v].attempt>> # <<task[t].round, n>>
        BY <2>3, <3>4, <3>5 DEF Behind
      <3> HIDE DEF n
      <3>7. ASSUME NEW u \in Tasks, NEW v \in Workers, worker'[v].task = u
            PROVE  /\ task'[u].status = "running" /\ task'[u].owner = v =>
                          <<worker'[v].round, worker'[v].attempt>>
                             = <<task'[u].round, task'[u].attempt>>
                   /\ \A x \in Workers \ {v} : worker'[x].task = u =>
                          <<worker'[x].round, worker'[x].attempt>>
                             # <<worker'[v].round, worker'[v].attempt>>
        <4>1. CASE v = w
          BY <3>1, <3>2, <3>3, <3>6, <3>7, <4>1
        <4>2. CASE v # w /\ u = t
          BY <3>1, <3>2, <3>3, <3>6, <3>7, <4>2 DEF IInv, ClaimsAreDistinct, Works
        <4>3. CASE v # w /\ u # t
          BY <3>1, <3>2, <3>3, <3>6, <3>7, <4>3 DEF IInv, ClaimsAreDistinct, Works
        <4>4. QED
          BY <4>1, <4>2, <4>3
      <3>8. QED
        BY <3>7 DEF ClaimsAreDistinct, Works
    <2>6. QED
      BY <2>1, <2>4, <2>5
  <1>3. QED
    BY <1>1, <1>2

(***************************************************************************)
(* Handlers.                                                               *)
(***************************************************************************)
LEMMA ClientStable ==
    ASSUME NEW tab \in [Tasks -> Row], NEW tab2 \in [Tasks -> Row],
           \A t \in Tasks : Advances(tab[t], tab2[t]),
           NEW h \in HandlerState, ClientFine(tab, h),
           h.op # "idle" => h.task \in Tasks,
           h.step # "none" => h.op # "idle" /\ h.actor \in Actors,
           h.step = "counted" => tab2[h.task].votes[h.actor] = "none"
    PROVE  ClientFine(tab2, h)
  <1>1. CASE h.op = "idle"
    BY <1>1 DEF ClientFine
  <1>2. CASE h.op # "idle"
    <2>1. /\ h.task \in Tasks /\ tab[h.task] \in Row /\ tab2[h.task] \in Row
          /\ Advances(tab[h.task], tab2[h.task]) /\ tab[h.task].status # "none"
      BY <1>2 DEF ClientFine
    <2>2. /\ tab2[h.task].status # "none" /\ tab2[h.task].creator = tab[h.task].creator
          /\ Approve(tab[h.task]) \subseteq Approve(tab2[h.task])
          /\ Enough(h.task, tab[h.task]) => Enough(h.task, tab2[h.task])
      BY <2>1, KnownStable DEF Advances
    <2> DEFINE old == Approve(tab[h.task]) \union {h.actor}
               new == Approve(tab2[h.task]) \union {h.actor}
    <2>3. Cardinality(old) <= Cardinality(new) /\ Cardinality(old) \in Nat /\ Cardinality(new) \in Nat
      <3>1. IsFiniteSet(new) /\ IsFiniteSet(old)
        BY ApproveFinite, FS_AddElement
      <3>2. QED
        BY <2>2, <3>1, FS_Subset, FS_CardinalityType
    <2>4. h.step = "counted" /\ h.op = "approve" => h.count <= Cardinality(new)
      <3>1. h.count \in Nat
        BY DEF HandlerState
      <3> HIDE DEF new
      <3>2. QED
        BY <2>3, <3>1 DEF ClientFine
    <2>5. QED
      BY <2>2, <2>4 DEF ClientFine
  <1>3. QED
    BY <1>1, <1>2

LEMMA FreeFine ==
    ASSUME NEW tab
    PROVE  ClientFine(tab, Free)
  BY DEF ClientFine, Free

\* Handlers that do not act, while nobody votes.
LEMMA OtherClientsFine ==
    ASSUME IInv, TypeOK', AdvanceStep, NEW c \in Clients, client'[c] = client[c],
           client[c].step = "counted" =>
              task'[client[c].task].votes[client[c].actor] = "none"
    PROVE  ClientFine(task', client'[c])
  <1>1. /\ task \in [Tasks -> Row] /\ task' \in [Tasks -> Row] /\ client[c] \in HandlerState
        /\ ClientFine(task, client[c])
        /\ client[c].op # "idle" => client[c].task \in Tasks
        /\ client[c].step # "none" => client[c].op # "idle" /\ client[c].actor \in Actors
    BY DEF IInv, TypeOK, LocalsOK, ClientsOK
  <1>2. \A t \in Tasks : Advances(task[t], task'[t])
    BY DEF AdvanceStep
  <1>3. QED
    BY <1>1, <1>2, ClientStable

VotesStay == \A t \in Tasks : task'[t].votes = task[t].votes

\* A step in which the locals of the handlers only go back to Free.
LEMMA QuietClients ==
    ASSUME IInv, TypeOK', AdvanceStep, VotesStay \/ Backend = "sqlite",
           \A c \in Clients : client'[c] = client[c] \/ client'[c] = Free
    PROVE  ClientsOK'
  <1>1. ASSUME NEW c \in Clients
        PROVE  ClientFine(task', client'[c])
    <2>1. CASE client'[c] = Free
      BY <2>1, FreeFine
    <2>2. CASE client'[c] = client[c]
      <3>1. client[c].step = "counted" =>
               task'[client[c].task].votes[client[c].actor] = "none"
        BY DEF IInv, LocalsOK, ClientsOK, ClientFine, VotesStay
      <3>2. QED
        BY <2>2, <3>1, OtherClientsFine
    <2>3. QED
      BY <2>1, <2>2
  <1>2. ASSUME NEW c \in Clients, client'[c].step = "counted"
        PROVE  client'[c] = client[c]
    BY <1>2 DEF Free
  <1>3. QED
    BY <1>1, <1>2 DEF IInv, ClientsOK

LEMMA CommitClients ==
    ASSUME IInv, TypeOK', AdvanceStep, NEW c \in Clients, DecideCommit(c)
    PROVE  ClientsOK'
  <1> DEFINE t == client[c].task
             s == Decided(task[t], t, client[c].actor, client[c].op, client[c].count)
  <1>1. /\ client[c].step = "counted" /\ client[c].op \in {"approve", "reject"}
        /\ client[c].actor \in Actors /\ client[c].count \in Nat
        /\ t \in Tasks /\ task[t] \in Row
    BY DEF DecideCommit, IInv, TypeOK, LocalsOK, HandlerState
  <1>2. task'[t] = s /\ \A u \in Tasks \ {t} : task'[u] = task[u]
    BY <1>1 DEF DecideCommit, IInv, TypeOK
  <1>3. client'[c] = Free /\ \A d \in Clients \ {c} : client'[d] = client[d]
    BY DEF DecideCommit, Return, IInv, TypeOK
  <1>4. \A a \in Actors \ {client[c].actor} : s.votes[a] = task[t].votes[a]
    <2>1. s = Decided(task[t], t, client[c].actor, client[c].op, client[c].count)
      OBVIOUS
    <2> HIDE DEF s
    <2>2. QED
      BY <1>1, <2>1, DecidedVotes
  <1> HIDE DEF s
  <1>5. ASSUME NEW d \in Clients \ {c}
        PROVE  ClientFine(task', client'[d])
    <2>1. client[d].step = "counted" => task'[client[d].task].votes[client[d].actor] = "none"
      <3>1. SUFFICES ASSUME client[d].step = "counted"
                     PROVE  task'[client[d].task].votes[client[d].actor] = "none"
        OBVIOUS
      <3>2. client[d].task \in Tasks /\ client[d].actor \in Actors
        BY <3>1 DEF IInv, LocalsOK
      <3>3. task[client[d].task].votes[client[d].actor] = "none"
        BY <3>1 DEF IInv, ClientsOK, ClientFine
      <3>4. <<client[d].task, client[d].actor>> # <<t, client[c].actor>>
        BY <1>1, <3>1 DEF IInv, ClientsOK
      <3>5. CASE client[d].task = t
        BY <1>2, <1>4, <3>2, <3>3, <3>4, <3>5
      <3>6. CASE client[d].task # t
        BY <1>2, <3>2, <3>3, <3>6
      <3>7. QED
        BY <3>5, <3>6
    <2>2. QED
      BY <1>3, <2>1, OtherClientsFine
  <1>6. \A d \in Clients : client'[d].step = "counted" => client'[d] = client[d]
    BY <1>3 DEF Free
  <1>7. QED
    BY <1>3, <1>5, <1>6, FreeFine DEF IInv, ClientsOK

\* The steps that read something for a handler.
LEMMA ReadClients ==
    ASSUME IInv, TypeOK', AdvanceStep, NEW c \in Clients,
           \/ DecideInsert(c)
           \/ \E t \in Tasks : CancelRead(c, t) \/ RetryRead(c, t)
           \/ \E t \in Tasks, a \in Actors, d \in {"approve", "reject"} : DecideRead(c, t, a, d)
    PROVE  ClientsOK'
  <1>1. task' = task /\ VotesStay
    BY DEF DecideInsert, CancelRead, RetryRead, DecideRead, VotesStay
  <1>2. \A d \in Clients \ {c} : client'[d] = client[d]
    BY DEF DecideInsert, Return, CancelRead, RetryRead, Call, DecideRead, IInv, TypeOK
  <1>3. \A d \in Clients \ {c} : ClientFine(task', client'[d])
    BY <1>1, <1>2, OtherClientsFine DEF IInv, ClientsOK, ClientFine
  <1>4. ASSUME ClientFine(task', client'[c]), client'[c].step # "counted"
        PROVE  ClientsOK'
    BY <1>2, <1>3, <1>4 DEF IInv, ClientsOK
  <1>5. CASE DecideInsert(c) /\ client'[c] = Free
    BY <1>4, <1>5, FreeFine DEF Free
  <1>6. CASE DecideInsert(c) /\ client'[c] # Free
    <2> DEFINE me == client[c]
               n == Tally(me.task, me.actor, me.op)
    <2>1. /\ me \in HandlerState /\ ClientFine(task, me) /\ me.step = "checked"
          /\ me.op \in {"approve", "reject"} /\ me.task \in Tasks /\ me.actor \in Actors
      BY <1>6 DEF DecideInsert, IInv, TypeOK, LocalsOK, ClientsOK
    <2>2. /\ task[me.task].votes[me.actor] = "none"
          /\ client' = [client EXCEPT ![c].step = "counted", ![c].count = n]
          /\ \A d \in Clients : client[d].step = "counted" =>
                <<client[d].task, client[d].actor>> # <<me.task, me.actor>>
      BY <1>6 DEF DecideInsert, Return, IInv, TypeOK
    <2>3. /\ client'[c].op = me.op /\ client'[c].task = me.task
          /\ client'[c].actor = me.actor /\ client'[c].step = "counted"
          /\ client'[c].count = n
      BY <2>1, <2>2 DEF IInv, TypeOK, HandlerState
    <2>4. n \in Nat
      BY <2>1, ApproversFinite
    <2>5. me.op = "approve" => n <= Cardinality(Approve(task[me.task]) \union {me.actor})
      BY <2>4 DEF Tally, Approvers, Approve
    <2> HIDE DEF n
    <2>6. ClientFine(task', client'[c])
      BY <1>1, <2>1, <2>2, <2>3, <2>5 DEF ClientFine
    <2>7. \A d \in Clients \ {c} : client'[d].step = "counted" =>
             <<client'[d].task, client'[d].actor>> # <<client'[c].task, client'[c].actor>>
      BY <1>2, <2>2, <2>3
    <2>8. \A d, e \in Clients \ {c} :
             d # e /\ client'[d].step = "counted" /\ client'[e].step = "counted" =>
                <<client'[d].task, client'[d].actor>> # <<client'[e].task, client'[e].actor>>
      BY <1>2 DEF IInv, ClientsOK
    <2>9. QED
      BY <1>3, <2>6, <2>7, <2>8 DEF ClientsOK
  <1>7. ASSUME NEW t \in Tasks, CancelRead(c, t) \/ RetryRead(c, t)
        PROVE  ClientsOK'
    <2>1. PICK op \in {"cancel", "flag", "retry"} :
             /\ client' = [client EXCEPT ![c] = [Free EXCEPT !.op = op, !.task = t]]
             /\ op = "retry" => task[t].status \in {"failed", "dead_letter"}
      BY <1>7 DEF CancelRead, RetryRead, Call
    <2>2. /\ client'[c].op = op /\ client'[c].task = t /\ client'[c].step = "none"
      BY <2>1 DEF Free, IInv, TypeOK
    <2>3. task[t].status # "none" /\ RowFine(t, task[t])
      BY <1>7 DEF CancelRead, RetryRead, IInv, RowsOK
    <2>4. ClientFine(task', client'[c])
      BY <1>1, <2>1, <2>2, <2>3 DEF ClientFine, RowFine
    <2>5. QED
      BY <1>4, <2>2, <2>4
  <1>8. ASSUME NEW t \in Tasks, NEW a \in Actors, NEW d \in {"approve", "reject"},
               DecideRead(c, t, a, d)
        PROVE  ClientsOK'
    <2>1. /\ client'[c].op = d /\ client'[c].task = t /\ client'[c].step = "checked"
          /\ client'[c].actor = a
      BY <1>8 DEF DecideRead, Free, IInv, TypeOK
    <2>2. ClientFine(task', client'[c])
      BY <1>1, <1>8, <2>1 DEF DecideRead, MayDecide, ClientFine
    <2>3. QED
      BY <1>4, <2>1, <2>2
  <1>9. QED
    BY <1>5, <1>6, <1>7, <1>8

LEMMA ClientsStayOK ==
    ASSUME IInv, [Next]_vars, TypeOK'
    PROVE  ClientsOK'
  <1>1. AdvanceStep
    BY NextAdvances
  <1>2. GoodStep => VotesStay
    BY DEF GoodStep, Good, VotesStay
  <1>3. ASSUME VotesStay, client' = client
        PROVE  ClientsOK'
    BY <1>1, <1>3, QuietClients
  <1>4. CASE UNCHANGED vars
    BY <1>3, <1>4 DEF vars, VotesStay
  <1>5. ASSUME NEW w \in Workers, Step(w) \/ Sweep(w) \/ Heartbeat(w) \/ Crash(w)
        PROVE  ClientsOK'
    <2>1. client' = client
      BY <1>5 DEF Step, Claim, Requeue, Begin, ReadTurn, ProviderChat, ReadTool, PlainTool, MutatingTool,
                  Delegate, Finish, WriteCanceled, ReadProviderError, Release, ReadError, Fail,
                  Sweep, Heartbeat, Crash
    <2>2. CASE \E t \in Tasks : Claim(w, t)
      <3>1. VotesStay
        BY <2>2 DEF Claim, VotesStay, IInv, TypeOK, Row
      <3>2. QED
        BY <1>3, <2>1, <3>1
    <2>3. CASE GoodStep
      BY <1>2, <1>3, <2>1, <2>3
    <2>4. QED
      BY <1>5, <2>2, <2>3, RunGood, QueueGood DEF Step, Runs
  <1>6. ASSUME NEW t \in Tasks, LeaseExpires(t) \/ RetryDelayPasses(t)
        PROVE  ClientsOK'
    BY <1>2, <1>3, <1>6, ClockGood DEF LeaseExpires, RetryDelayPasses
  <1>7. ASSUME NEW t \in Tasks, NEW a \in Actors, Submit(t, a)
        PROVE  ClientsOK'
    BY <1>2, <1>3, <1>7, SubmitGood DEF Submit
  <1>8. ASSUME NEW t \in Tasks, NEW a \in Actors, NEW d \in {"approve", "reject"}, Decide(t, a, d)
        PROVE  ClientsOK'
    BY <1>1, <1>8, QuietClients DEF Decide
  <1>9. ASSUME NEW c \in Clients,
               \/ Handle(c)
               \/ \E t \in Tasks : CancelRead(c, t) \/ RetryRead(c, t)
               \/ \E t \in Tasks, a \in Actors, d \in {"approve", "reject"} : DecideRead(c, t, a, d)
        PROVE  ClientsOK'
    <2>1. CASE CancelWrite(c) \/ RetryWrite(c)
      <3>1. GoodStep
        BY <2>1, HandlerGood
      <3>2. \A d \in Clients : client'[d] = client[d] \/ client'[d] = Free
        BY <2>1 DEF CancelWrite, RetryWrite, Return, IInv, TypeOK
      <3>3. QED
        BY <1>1, <1>2, <3>1, <3>2, QuietClients
    <2>2. QED
      BY <1>1, <1>9, <2>1, CommitClients, ReadClients DEF Handle
  <1>10. CASE Next
    BY <1>5, <1>6, <1>7, <1>8, <1>9, <1>10 DEF Next
  <1>11. QED
    BY <1>4, <1>10

(***************************************************************************)
(* The inductive invariant holds.                                          *)
(***************************************************************************)
LEMMA InitIInv == Init => IInv
  <1> SUFFICES ASSUME Init PROVE IInv
    OBVIOUS
  <1>1. TypeOK /\ LocalsOK
    BY InitType
  <1>2. RowsOK
    <2>1. Approve(NoRow) = {} /\ NoRow.status = "none" /\ NoRow.attempt = 0 /\ ~NoRow.touched
      BY DEF Approve, NoRow
    <2>2. QED
      BY <2>1, Bounds DEF Init, RowsOK, RowFine
  <1>3. WorkersOK
    BY IdleFine DEF Init, WorkersOK
  <1>4. ClientsOK
    BY FreeFine DEF Init, ClientsOK, Free
  <1>5. ClaimsAreDistinct
    BY Bounds DEF Init, ClaimsAreDistinct, Works, Idle
  <1>6. QED
    BY <1>1, <1>2, <1>3, <1>4, <1>5 DEF IInv

LEMMA NextIInv == IInv /\ [Next]_vars => IInv'
  <1> SUFFICES ASSUME IInv, [Next]_vars PROVE IInv'
    OBVIOUS
  <1>1. TypeOK' /\ LocalsOK'
    BY NextType DEF IInv
  <1>2. AdvanceStep
    BY NextAdvances
  <1>3. RowsOK'
    BY <1>2 DEF AdvanceStep, RowsOK
  <1>4. QED
    BY <1>1, <1>2, <1>3, WorkersStayOK, ClientsStayOK, ClaimsStayDistinct DEF IInv

\* The inductive invariant of the queue: what a row, a worker and a half-done handler
\* may know of each other.
THEOREM Invariance == Spec => []IInv
  BY InitIInv, NextIInv, PTL DEF Spec

\* No interleaving of stale writes leaves a running row that nobody can recover.
THEOREM RunningRowsAreLeased == Spec => []RunningIsLeased
  <1>1. IInv => RunningIsLeased
    BY DEF IInv, RowsOK, RowFine, RunningIsLeased
  <1>2. QED
    BY <1>1, Invariance, PTL

\* Nobody gets around the approval gate, on either backend.
THEOREM NobodyBypassesApproval == Spec => []ApprovalGate
  <1>1. IInv => ApprovalGate
    BY DEF IInv, RowsOK, RowFine, Enough, Approve, Approvers, ApprovalGate, Cleared
  <1>2. QED
    BY <1>1, Invariance, PTL

\* No two workers execute a row under the same claim.
THEOREM ClaimsStayApart == Spec => []ClaimsAreDistinct
  BY Invariance, PTL DEF IInv

\* Whoever works on a row, its claim can be recovered and told apart.
THEOREM ClaimsAlwaysHold == Spec => []ClaimsHold
  BY RunningRowsAreLeased, ClaimsStayApart, PTL DEF ClaimsHold

\* The attempt budget is neither exceeded nor cut short.
THEOREM AttemptsStayInBudget == Spec => []BudgetRespected
  <1>1. IInv => BudgetRespected
    BY DEF IInv, RowsOK, RowFine, BudgetRespected
  <1>2. QED
    BY <1>1, Invariance, PTL

\* Stale writes never take an attempt back.
THEOREM AttemptsNeverGoBack == Spec => AttemptsGrow
  <1>1. IInv /\ [Next]_vars =>
           [\A t \in Tasks :
              \/ task'[t].round > task[t].round
              \/ task'[t].round = task[t].round /\ task'[t].attempt >= task[t].attempt]_vars
    <2> SUFFICES ASSUME IInv, [Next]_vars, NEW t \in Tasks
                 PROVE  \/ task'[t].round > task[t].round
                        \/ task'[t].round = task[t].round /\ task'[t].attempt >= task[t].attempt
      OBVIOUS
    <2>1. Advances(task[t], task'[t]) /\ task[t] \in Row
      BY NextAdvances DEF AdvanceStep, IInv, TypeOK
    <2>2. TypeOK'
      BY NextType DEF IInv
    <2>3. task'[t] \in Row
      BY <2>2 DEF TypeOK
    <2>4. QED
      BY <2>1, <2>3 DEF Advances, Row
  <1>2. QED
    BY <1>1, Invariance, PTL DEF Spec, AttemptsGrow

\* Both of these, for any workers, stale sweeps and manual retries.
THEOREM AttemptsAreAlwaysCounted == Spec => AttemptsAreCounted
  BY AttemptsStayInBudget, AttemptsNeverGoBack DEF AttemptsAreCounted

(***************************************************************************)
(* Ends.  No write of a worker or of a handler is conditional, so that all *)
(* that protects an end is that nobody is at the task any more; and nobody *)
(* comes to a task that has ended, but to retry it.                        *)
(***************************************************************************)
\* t keeps its status, and none of them comes to it.
StaysAtRest(t) == task'[t].status = task[t].status /\ AtRest(t)'

LEMMA SameRest ==
    ASSUME NEW t \in Tasks, AtRest(t), task'[t].status = task[t].status,
           \A w \in Workers : /\ worker'[w].task \in {worker[w].task, NoTask}
                              /\ worker'[w].found \subseteq worker[w].found,
           client' = client
    PROVE  StaysAtRest(t)
  BY ConstantsAssumption DEF StaysAtRest, AtRest, Works

\* A row other than t is written.
LEMMA OtherRow ==
    ASSUME TypeOK, NEW t \in Tasks, NEW u \in Tasks, u # t, NEW s,
           task' = [task EXCEPT ![u] = s]
    PROVE  task'[t].status = task[t].status
  BY DEF TypeOK

LEMMA RunnersAreBusy ==
    ASSUME NEW w \in Workers, Runs(w)
    PROVE  worker[w].pc # "idle"
  BY DEF Runs, Begin, ReadTurn, ProviderChat, ReadTool, PlainTool, MutatingTool, Delegate,
         Finish, WriteCanceled, ReadProviderError, Release, ReadError, Fail

LEMMA WorkerRest ==
    ASSUME IInv, NEW t \in Tasks, task[t].status \in Terminal, AtRest(t),
           NEW w \in Workers, Step(w) \/ Sweep(w) \/ Heartbeat(w) \/ Crash(w)
    PROVE  StaysAtRest(t)
  <1> USE DEF IInv
  <1>1. worker \in [Workers -> Local] /\ task \in [Tasks -> Row]
    BY DEF TypeOK
  <1>2. worker[w].task # t /\ \A row \in worker[w].found : row[1] # t
    BY DEF AtRest, Works
  <1>3. ASSUME NEW u \in Tasks, Claim(w, u) PROVE StaysAtRest(t)
    <2>1. u # t
      BY <1>3 DEF Claim, Claimable, Terminal
    <2>2. worker'[w].task \in {NoTask, u} /\ worker'[w].found \subseteq worker[w].found
      <3>1. worker[w].task = NoTask /\ worker[w].found = {}
        BY <1>3 DEF Claim, Idle
      <3>2. CASE worker' = worker
        BY <3>1, <3>2
      <3>3. CASE worker' = [worker EXCEPT ![w] =
                              [Idle EXCEPT !.pc = "claimed", !.task = u,
                                           !.round = task[u].round,
                                           !.attempt = task[u].attempt + 1]]
        BY <1>1, <3>1, <3>3 DEF Idle
      <3>4. QED
        BY <1>3, <3>2, <3>3 DEF Claim
    <2>3. \A v \in Workers \ {w} : worker'[v] = worker[v]
      BY <1>1, <1>3 DEF Claim
    <2>4. task'[t].status = task[t].status
      BY <1>1, <1>3, <2>1 DEF Claim
    <2>5. client' = client
      BY <1>3 DEF Claim
    <2>6. QED
      BY <2>1, <2>2, <2>3, <2>4, <2>5, ConstantsAssumption DEF StaysAtRest, AtRest, Works
  <1>4. ASSUME NEW f \in worker[w].found, Requeue(w, f[1], f[2]) PROVE StaysAtRest(t)
    <2>1. f[1] # t
      BY <1>2
    <2>2. task'[t].status = task[t].status
      BY <1>1, <1>4, <2>1 DEF Requeue
    <2>3. \A v \in Workers : /\ worker'[v].task = worker[v].task
                             /\ worker'[v].found \subseteq worker[v].found
      BY <1>1, <1>4 DEF Requeue, Local
    <2>4. QED
      BY <1>4, <2>2, <2>3, SameRest DEF Requeue
  <1>5. ASSUME Runs(w) PROVE StaysAtRest(t)
    <2>1. worker[w].task \in Tasks
      BY <1>5, RunnersAreBusy DEF LocalsOK
    <2>2. \A v \in Workers : /\ worker'[v].task \in {worker[v].task, NoTask}
                             /\ worker'[v].found \subseteq worker[v].found
      BY <1>1, <1>5, RunMoves DEF Moves, Done, Idle
    <2>3. task' = task \/ \E u \in Tasks \ {t} : \E s : task' = [task EXCEPT ![u] = s]
      <3>1. ASSUME NEW child \in Tasks, Delegate(w, child)
            PROVE  \E u \in Tasks \ {t} : \E s : task' = [task EXCEPT ![u] = s]
        BY <3>1 DEF Delegate, Terminal
      <3>2. CASE MutatingTool(w)
        <4>1. task' = [task EXCEPT ![worker[w].task] =
                          [task[worker[w].task] EXCEPT !.touched = TRUE]]
          BY <3>2 DEF MutatingTool
        <4>2. QED
          BY <1>2, <2>1, <4>1
      <3>3. CASE Finish(w) \/ WriteCanceled(w) \/ Release(w) \/ Fail(w)
        BY <1>2, <2>1, <3>3 DEF Finish, WriteCanceled, Release, Fail
      <3>4. QED
        BY <1>5, <3>1, <3>2, <3>3
           DEF Runs, Begin, ReadTurn, ProviderChat, ReadTool, PlainTool, ReadProviderError, ReadError
    <2>4. task'[t].status = task[t].status
      BY <2>3, OtherRow
    <2>5. client' = client
      BY <1>5 DEF Runs, Begin, ReadTurn, ProviderChat, ReadTool, PlainTool, MutatingTool, Delegate,
                  Finish, WriteCanceled, ReadProviderError, Release, ReadError, Fail
    <2>6. QED
      BY <2>2, <2>4, <2>5, SameRest
  <1>6. CASE Sweep(w)
    <2>1. \A row \in worker'[w].found : row[1] # t
      BY <1>1, <1>6 DEF Sweep, Terminal
    <2>2. \A v \in Workers : /\ worker'[v].task = worker[v].task
                             /\ v # w => worker'[v].found = worker[v].found
      BY <1>1, <1>6 DEF Sweep, Local
    <2>3. QED
      BY <1>6, <2>1, <2>2 DEF Sweep, StaysAtRest, AtRest, Works
  <1>7. CASE Heartbeat(w)
    <2>1. task'[t].status = task[t].status
      BY <1>1, <1>2, <1>7 DEF Heartbeat
    <2>2. \A v \in Workers : /\ worker'[v].task = worker[v].task
                             /\ worker'[v].found = worker[v].found
      BY <1>1, <1>7 DEF Heartbeat, Local
    <2>3. QED
      BY <1>7, <2>1, <2>2, SameRest DEF Heartbeat
  <1>8. CASE Crash(w)
    BY <1>1, <1>8, SameRest DEF Crash, Done, Idle
  <1>9. QED
    BY <1>3, <1>4, <1>5, <1>6, <1>7, <1>8 DEF Step, Runs

LEMMA ClientRest ==
    ASSUME IInv, NEW t \in Tasks, task[t].status \in Terminal, AtRest(t),
           NEW c \in Clients,
           \/ Handle(c)
           \/ \E u \in Tasks : \/ CancelRead(c, u) \/ RetryRead(c, u)
                               \/ \E a \in Actors, d \in {"approve", "reject"} :
                                      DecideRead(c, u, a, d)
    PROVE  \/ StaysAtRest(t)
           \/ /\ task'[t].status = task[t].status
              /\ task[t].status \in {"failed", "dead_letter"}
              /\ client'[c].op = "retry" /\ client'[c].task = t
  <1> USE DEF IInv
  <1>1. client \in [Clients -> HandlerState] /\ task \in [Tasks -> Row]
    BY DEF TypeOK
  <1>2. client[c].task # t
    BY DEF AtRest
  <1>3. ASSUME task'[t].status = task[t].status, worker' = worker,
               \A d \in Clients \ {c} : client'[d] = client[d],
               client'[c].task # t
        PROVE  StaysAtRest(t)
    BY <1>3 DEF StaysAtRest, AtRest, Works
  <1>4. ASSUME Handle(c) PROVE StaysAtRest(t)
    <2>1. client[c].task \in Tasks
      BY <1>1, <1>4 DEF Handle, DecideInsert, DecideCommit, CancelWrite, RetryWrite, LocalsOK
    <2>2. task' = task \/ \E s : task' = [task EXCEPT ![client[c].task] = s]
      BY <1>4 DEF Handle, DecideInsert, DecideCommit, CancelWrite, RetryWrite
    <2>3. task'[t].status = task[t].status
      BY <1>2, <2>1, <2>2, OtherRow
    <2>4. /\ \A d \in Clients \ {c} : client'[d] = client[d]
          /\ client'[c].task \in {client[c].task, NoTask}
      BY <1>1, <1>4 DEF Handle, DecideInsert, DecideCommit, CancelWrite, RetryWrite,
                        Return, Free, HandlerState
    <2>5. worker' = worker
      BY <1>4 DEF Handle, DecideInsert, DecideCommit, CancelWrite, RetryWrite
    <2>6. QED
      BY <1>2, <1>3, <2>3, <2>4, <2>5, ConstantsAssumption
  <1>5. ASSUME NEW u \in Tasks, CancelRead(c, u) PROVE StaysAtRest(t)
    BY <1>1, <1>3, <1>5 DEF CancelRead, Call, Free
  <1>6. ASSUME NEW u \in Tasks, NEW a \in Actors, NEW d \in {"approve", "reject"},
               DecideRead(c, u, a, d)
        PROVE  StaysAtRest(t)
    BY <1>1, <1>3, <1>6 DEF DecideRead, MayDecide, Free, Terminal
  <1>7. ASSUME NEW u \in Tasks, RetryRead(c, u)
        PROVE  \/ StaysAtRest(t)
               \/ /\ task'[t].status = task[t].status
                  /\ task[t].status \in {"failed", "dead_letter"}
                  /\ client'[c].op = "retry" /\ client'[c].task = t
    BY <1>1, <1>3, <1>7 DEF RetryRead, Call, Free
  <1>8. QED
    BY <1>4, <1>5, <1>6, <1>7

\* What is left of SucceededIsFinal, and of RejectedStaysOut on PostgreSQL: a task
\* that has ended and that nobody is at any more stays as it ended, until a retry.
THEOREM EndsStayAtRest == Spec => EndsAtRestStay
  <1>1. IInv /\ [Next]_vars =>
           [\A t \in Tasks : task[t].status \in Terminal /\ AtRest(t) =>
              /\ task'[t].status = task[t].status
              /\ \/ AtRest(t)'
                 \/ /\ task[t].status \in {"failed", "dead_letter"}
                    /\ \E c \in Clients : client'[c].op = "retry" /\ client'[c].task = t]_vars
    <2> SUFFICES ASSUME IInv, Next, NEW t \in Tasks, task[t].status \in Terminal, AtRest(t)
                 PROVE  /\ task'[t].status = task[t].status
                        /\ \/ AtRest(t)'
                           \/ /\ task[t].status \in {"failed", "dead_letter"}
                              /\ \E c \in Clients : client'[c].op = "retry" /\ client'[c].task = t
      OBVIOUS
    <2>1. CASE \E w \in Workers : Step(w) \/ Sweep(w) \/ Heartbeat(w) \/ Crash(w)
      BY <2>1, WorkerRest DEF StaysAtRest
    <2>2. ASSUME worker' = worker, client' = client,
                 NEW u \in Tasks, NEW s, task' = [task EXCEPT ![u] = s],
                 u = t => s.status = task[t].status
          PROVE  StaysAtRest(t)
      <3>1. task'[t].status = task[t].status
        BY <2>2 DEF IInv, TypeOK
      <3>2. QED
        BY <2>2, <3>1, SameRest
    <2>3. ASSUME NEW u \in Tasks, LeaseExpires(u) \/ RetryDelayPasses(u)
          PROVE  StaysAtRest(t)
      <3>1. PICK s \in {[task[u] EXCEPT !.lease = "expired"], [task[u] EXCEPT !.due = TRUE]} :
               task' = [task EXCEPT ![u] = s]
        BY <2>3 DEF LeaseExpires, RetryDelayPasses
      <3>2. s.status = task[u].status
        BY <3>1 DEF IInv, TypeOK, Row
      <3>3. QED
        BY <2>2, <2>3, <3>1, <3>2 DEF LeaseExpires, RetryDelayPasses
    <2>4. ASSUME NEW u \in Tasks, NEW a \in Actors, Submit(u, a) PROVE StaysAtRest(t)
      BY <2>2, <2>4 DEF Submit, Terminal
    <2>5. ASSUME NEW u \in Tasks, NEW a \in Actors, NEW d \in {"approve", "reject"},
                 Decide(u, a, d)
          PROVE  StaysAtRest(t)
      BY <2>2, <2>5 DEF Decide, MayDecide, Terminal
    <2>6. QED
      BY <2>1, <2>3, <2>4, <2>5, ClientRest DEF Next, StaysAtRest
  <1>2. QED
    BY <1>1, Invariance, PTL DEF Spec, EndsAtRestStay

(***************************************************************************)
(* On SQLite a decision is one step, so that what it decides stays decided. *)
(* A row still waiting lacks approvals and was rejected by nobody; a row    *)
(* somebody rejected is canceled and, short of approvals, out of reach of   *)
(* every worker, sweep and retry, whose rows all had theirs.                *)
(***************************************************************************)
Rejected(row) == \E a \in Actors : row.votes[a] = "reject"

Decisive(t, row) ==
    /\ row.status = "waiting_approval" => ~Enough(t, row) /\ ~Rejected(row)
    /\ Rejected(row) => row.status = "canceled" /\ ~Enough(t, row)

GatesOK == \A t \in Tasks : Decisive(t, task[t])

\* Only a submission makes a row wait.
WaitsFrom(t, r, s) ==
    s.status = "waiting_approval" =>
        r.status = "waiting_approval" \/ (r.status = "none" /\ Required(t) > 0)

LEMMA WritesDoNotWait ==
    ASSUME NEW t \in Tasks, NEW r \in Row
    PROVE  /\ \A status \in {"succeeded", "failed", "canceled"} :
                  WaitsFrom(t, r, Unleased(r, status))
           /\ \A n \in Nat, due \in BOOLEAN : WaitsFrom(t, r, Retried(r, t, n, due))
           /\ WaitsFrom(t, r, Reopened(r))
           /\ WaitsFrom(t, r, [Unleased(r, "canceled") EXCEPT !.cancel = TRUE])
  BY DEF WaitsFrom, Unleased, Retried, Reopened, Row

LEMMA NewRowWaits ==
    ASSUME NEW t \in Tasks, NEW actor, NEW depth
    PROVE  WaitsFrom(t, NoRow, NewRow(t, actor, depth))
  BY DEF WaitsFrom, NewRow, NoRow

WaitStep == \A t \in Tasks : WaitsFrom(t, task[t], task'[t])

LEMMA UpdateWaits ==
    ASSUME TypeOK, NEW t \in Tasks, NEW s, WaitsFrom(t, task[t], s),
           task' = [task EXCEPT ![t] = s]
    PROVE  WaitStep
  BY DEF WaitStep, WaitsFrom, TypeOK

LEMMA WorkerWaits ==
    ASSUME IInv, NEW w \in Workers,
           \/ \E t \in Tasks : Claim(w, t)
           \/ Runs(w) \/ Sweep(w) \/ Heartbeat(w) \/ Crash(w)
           \/ \E f \in worker[w].found : Requeue(w, f[1], f[2])
    PROVE  WaitStep
  <1> DEFINE t == worker[w].task
  <1>1. TypeOK
    BY DEF IInv
  <1>2. CASE task' = task
    BY <1>2 DEF WaitStep, WaitsFrom
  <1>3. ASSUME Runs(w)
        PROVE  t \in Tasks /\ task[t] \in Row
    BY <1>1, <1>3, RunnersAreBusy DEF IInv, TypeOK, LocalsOK
  <1>4. ASSUME NEW u \in Tasks, Claim(w, u)
        PROVE  WaitStep
    <2>1. \A v \in Tasks : task[v] \in Row
      BY <1>1 DEF TypeOK
    <2>2. CASE task' = [task EXCEPT ![u].status = "dead_letter"]
      BY <1>1, <2>1, <2>2 DEF WaitStep, WaitsFrom, TypeOK, Row
    <2>3. CASE task' = [task EXCEPT ![u].status = "running", ![u].attempt = task[u].attempt + 1,
                                    ![u].owner = w, ![u].lease = "live"]
      BY <1>1, <2>1, <2>3 DEF WaitStep, WaitsFrom, TypeOK, Row
    <2>4. QED
      BY <1>4, <2>2, <2>3 DEF Claim
  <1>5. CASE MutatingTool(w)
    <2>1. WaitsFrom(t, task[t], [task[t] EXCEPT !.touched = TRUE])
      BY <1>3, <1>5 DEF WaitsFrom, Row, Runs
    <2>2. QED
      BY <1>1, <1>3, <1>5, <2>1, UpdateWaits DEF MutatingTool, Runs
  <1>6. ASSUME NEW child \in Tasks, Delegate(w, child)
        PROVE  WaitStep
    <2>1. task[child] = NoRow
      BY <1>6 DEF Delegate, IInv, RowsOK, RowFine
    <2>2. QED
      BY <1>1, <1>6, <2>1, NewRowWaits, UpdateWaits DEF Delegate
  <1>7. CASE Finish(w) \/ WriteCanceled(w) \/ Fail(w)
    <2>1. PICK status \in {"succeeded", "canceled", "failed"} :
             task' = [task EXCEPT ![t] = Unleased(task[t], status)]
      BY <1>7 DEF Finish, WriteCanceled, Fail
    <2>2. WaitsFrom(t, task[t], Unleased(task[t], status))
      BY <1>3, <1>7, WritesDoNotWait DEF Runs
    <2>3. QED
      BY <1>1, <1>3, <1>7, <2>1, <2>2, UpdateWaits DEF Runs
  <1>8. CASE Release(w)
    <2>1. worker[w].seen \in Nat /\ FALSE \in BOOLEAN
      BY <1>1 DEF TypeOK, Local
    <2>2. WaitsFrom(t, task[t], Retried(task[t], t, worker[w].seen, FALSE))
      BY <1>3, <1>8, <2>1, WritesDoNotWait DEF Runs
    <2>3. QED
      BY <1>1, <1>3, <1>8, <2>2, UpdateWaits DEF Release, Runs
  <1>9. ASSUME NEW f \in worker[w].found, Requeue(w, f[1], f[2])
        PROVE  WaitStep
    <2>1. f[1] \in Tasks /\ f[2] \in Nat /\ task[f[1]] \in Row /\ TRUE \in BOOLEAN
      BY <1>1 DEF TypeOK, Local
    <2>2. WaitsFrom(f[1], task[f[1]], Retried(task[f[1]], f[1], f[2], TRUE))
      BY <2>1, WritesDoNotWait
    <2>3. QED
      BY <1>1, <1>9, <2>1, <2>2, UpdateWaits DEF Requeue
  <1>10. CASE Heartbeat(w)
    BY <1>1, <1>10 DEF Heartbeat, WaitStep, WaitsFrom, TypeOK, Row
  <1>11. QED
    BY <1>2, <1>4, <1>5, <1>6, <1>7, <1>8, <1>9, <1>10
       DEF Runs, Begin, ReadTurn, ProviderChat, ReadTool, PlainTool, ReadProviderError, ReadError,
           Sweep, Crash

LEMMA OthersWait ==
    ASSUME IInv,
           \/ \E t \in Tasks : LeaseExpires(t) \/ RetryDelayPasses(t)
           \/ \E t \in Tasks, a \in Actors : Submit(t, a)
           \/ \E c \in Clients : \/ DecideInsert(c) \/ CancelWrite(c) \/ RetryWrite(c)
                                 \/ \E t \in Tasks : CancelRead(c, t) \/ RetryRead(c, t)
    PROVE  WaitStep
  <1>1. TypeOK
    BY DEF IInv
  <1>2. CASE task' = task
    BY <1>2 DEF WaitStep, WaitsFrom
  <1>3. ASSUME NEW t \in Tasks, LeaseExpires(t) \/ RetryDelayPasses(t)
        PROVE  WaitStep
    <2>1. task[t] \in Row
      BY <1>1 DEF TypeOK
    <2>2. PICK s \in {[task[t] EXCEPT !.lease = "expired"], [task[t] EXCEPT !.due = TRUE]} :
             task' = [task EXCEPT ![t] = s]
      BY <1>3 DEF LeaseExpires, RetryDelayPasses
    <2>3. WaitsFrom(t, task[t], s)
      BY <2>1, <2>2 DEF WaitsFrom, Row
    <2>4. QED
      BY <1>1, <2>2, <2>3, UpdateWaits
  <1>4. ASSUME NEW t \in Tasks, NEW a \in Actors, Submit(t, a)
        PROVE  WaitStep
    <2>1. task[t] = NoRow
      BY <1>4 DEF Submit, IInv, RowsOK, RowFine
    <2>2. QED
      BY <1>1, <1>4, <2>1, NewRowWaits, UpdateWaits DEF Submit
  <1>5. ASSUME NEW c \in Clients, CancelWrite(c) \/ RetryWrite(c)
        PROVE  WaitStep
    <2> DEFINE t == client[c].task
    <2>1. t \in Tasks /\ task[t] \in Row
      <3>1. client[c].op # "idle"
        BY <1>5 DEF CancelWrite, RetryWrite
      <3>2. QED
        BY <1>1, <3>1 DEF IInv, LocalsOK, TypeOK
    <2>2. WaitsFrom(t, task[t], [task[t] EXCEPT !.cancel = TRUE])
      BY <2>1 DEF WaitsFrom, Row
    <2>3. \/ task' = [task EXCEPT ![t] = [task[t] EXCEPT !.cancel = TRUE]]
          \/ task' = [task EXCEPT ![t] = [Unleased(task[t], "canceled") EXCEPT !.cancel = TRUE]]
          \/ task' = [task EXCEPT ![t] = Reopened(task[t])]
      BY <1>5 DEF CancelWrite, RetryWrite
    <2>4. QED
      BY <1>1, <2>1, <2>2, <2>3, WritesDoNotWait, UpdateWaits
  <1>6. QED
    BY <1>2, <1>3, <1>4, <1>5 DEF DecideInsert, CancelRead, RetryRead

\* A write that casts no vote.
LEMMA QuietDecisive ==
    ASSUME NEW t \in Tasks, NEW r, NEW s, RowFine(t, r), RowFine(t, s), Advances(r, s),
           s.votes = r.votes, WaitsFrom(t, r, s), Decisive(t, r)
    PROVE  Decisive(t, s)
  <1>1. Enough(t, s) <=> Enough(t, r)
    BY DEF Enough, Approve
  <1>2. Rejected(s) <=> Rejected(r)
    BY DEF Rejected
  <1>3. ASSUME r.status = "none", Required(t) > 0
        PROVE  ~Enough(t, r) /\ ~Rejected(r)
    <2>1. \A a \in Actors : r.votes[a] = "none"
      BY <1>3 DEF RowFine, NoRow
    <2>2. Approve(r) = {}
      BY <2>1 DEF Approve
    <2>3. QED
      BY <1>3, <2>1, <2>2, FS_EmptySet, Bounds DEF Enough, Rejected
  <1>4. s.status = "waiting_approval" => ~Enough(t, s) /\ ~Rejected(s)
    BY <1>1, <1>2, <1>3 DEF WaitsFrom, Decisive
  <1>5. Rejected(s) => s.status = "canceled" /\ ~Enough(t, s)
    <2>1. Rejected(r) => r.status = "canceled" /\ ~Enough(t, r)
      BY DEF Decisive
    <2>2. ~Enough(t, s) => s.status \in {"none", "waiting_approval", "canceled"}
      BY DEF RowFine
    <2>3. r.status = "canceled" => s.status \notin {"none", "waiting_approval"}
      BY DEF Advances, WaitsFrom
    <2>4. QED
      BY <1>1, <1>2, <2>1, <2>2, <2>3
  <1>6. QED
    BY <1>4, <1>5 DEF Decisive

\* A decision on a row that waits.
LEMMA DecidedDecisive ==
    ASSUME NEW t \in Tasks, NEW r \in Row, r.status = "waiting_approval", Decisive(t, r),
           NEW a \in Actors, r.votes[a] = "none", NEW d \in {"approve", "reject"},
           NEW n \in Nat, d = "approve" => n = Cardinality(Approve(r) \union {a})
    PROVE  Decisive(t, Decided(r, t, a, d, n))
  <1> DEFINE s == Decided(r, t, a, d, n)
  <1>1. /\ \A b \in Actors : s.votes[b] = IF b = a THEN d ELSE r.votes[b]
        /\ s.status = IF d = "reject" THEN "canceled"
                      ELSE IF n >= Required(t) THEN "queued" ELSE r.status
    BY DecidedVotes
  <1> HIDE DEF s
  <1>2. ~Enough(t, r) /\ ~Rejected(r)
    BY DEF Decisive
  <1>3. CASE d = "reject"
    <2>1. Approve(s) = Approve(r)
      BY <1>1, <1>3 DEF Approve
    <2>2. QED
      BY <1>1, <1>2, <1>3, <2>1 DEF Decisive, Enough, s
  <1>4. CASE d = "approve"
    <2>1. Approve(s) = Approve(r) \union {a} /\ ~Rejected(s)
      BY <1>1, <1>2, <1>4 DEF Approve, Rejected
    <2>2. s.status = "waiting_approval" => ~(n >= Required(t))
      BY <1>1, <1>4
    <2>3. QED
      BY <1>4, <2>1, <2>2 DEF Decisive, Enough, s
  <1>5. QED
    BY <1>3, <1>4

LEMMA NextGates ==
    ASSUME IInv, [Next]_vars, Backend = "sqlite", GatesOK
    PROVE  GatesOK'
  <1>1. AdvanceStep
    BY NextAdvances
  <1>2. \A t \in Tasks : task[t] \in Row /\ RowFine(t, task[t]) /\ Decisive(t, task[t])
    BY DEF IInv, TypeOK, RowsOK, GatesOK
  <1>3. ASSUME WaitStep, \A t \in Tasks : task'[t].votes = task[t].votes
        PROVE  GatesOK'
    BY <1>1, <1>2, <1>3, QuietDecisive DEF AdvanceStep, WaitStep, GatesOK
  <1>4. ASSUME GoodStep, WaitStep PROVE GatesOK'
    BY <1>3, <1>4 DEF GoodStep, Good
  <1>5. CASE UNCHANGED vars
    BY <1>5 DEF vars, GatesOK, Decisive, Enough, Approve, Rejected
  <1>6. ASSUME NEW w \in Workers, NEW t \in Tasks, Claim(w, t)
        PROVE  GatesOK'
    <2>1. WaitStep
      BY <1>6, WorkerWaits
    <2>2. \A u \in Tasks : task'[u].votes = task[u].votes
      <3>1. PICK s \in {[task[t] EXCEPT !.status = "dead_letter"],
                        [task[t] EXCEPT !.status = "running", !.attempt = task[t].attempt + 1,
                                        !.owner = w, !.lease = "live"]} :
               task' = [task EXCEPT ![t] = s]
        BY <1>6 DEF Claim
      <3>2. s.votes = task[t].votes
        BY <1>2, <3>1 DEF Row
      <3>3. QED
        BY <3>1, <3>2 DEF IInv, TypeOK
    <2>3. QED
      BY <1>3, <2>1, <2>2
  <1>7. ASSUME NEW w \in Workers,
               \/ Runs(w) \/ Sweep(w) \/ Heartbeat(w) \/ Crash(w)
               \/ \E f \in worker[w].found : Requeue(w, f[1], f[2])
        PROVE  GatesOK'
    BY <1>4, <1>7, WorkerWaits, RunGood, QueueGood
  <1>8. CASE \/ \E t \in Tasks : LeaseExpires(t) \/ RetryDelayPasses(t)
             \/ \E t \in Tasks, a \in Actors : Submit(t, a)
             \/ \E c \in Clients : \/ DecideInsert(c) \/ CancelWrite(c) \/ RetryWrite(c)
                                   \/ \E t \in Tasks : CancelRead(c, t) \/ RetryRead(c, t)
    BY <1>4, <1>8, OthersWait, ClockGood, SubmitGood, HandlerGood
  <1>9. ASSUME NEW t \in Tasks, NEW a \in Actors, NEW d \in {"approve", "reject"}, Decide(t, a, d)
        PROVE  GatesOK'
    <2>1. /\ task[t].status = "waiting_approval" /\ task[t].votes[a] = "none"
          /\ task' = [task EXCEPT ![t] = Decided(task[t], t, a, d, Tally(t, a, d))]
      BY <1>9 DEF Decide, MayDecide
    <2>2. Tally(t, a, d) \in Nat
      BY ApproversFinite
    <2>3. d = "approve" => Tally(t, a, d) = Cardinality(Approve(task[t]) \union {a})
      BY DEF Tally, Approvers, Approve
    <2>4. Decisive(t, Decided(task[t], t, a, d, Tally(t, a, d)))
      BY <1>2, <2>1, <2>2, <2>3, DecidedDecisive
    <2>5. \A u \in Tasks : task'[u] = IF u = t THEN Decided(task[t], t, a, d, Tally(t, a, d))
                                              ELSE task[u]
      BY <2>1 DEF IInv, TypeOK
    <2>6. \A u \in Tasks : Decisive(u, task'[u])
      BY <1>2, <2>4, <2>5
    <2>7. QED
      BY <2>6 DEF GatesOK
  <1>10. ~ \E c \in Clients : DecideCommit(c) \/ \E t \in Tasks, a \in Actors,
                                  d \in {"approve", "reject"} : DecideRead(c, t, a, d)
    <2>1. \A c \in Clients : client[c].step = "none"
      <3>1. \A c \in Clients : ClientFine(task, client[c]) /\ client[c] \in HandlerState
        BY DEF IInv, ClientsOK, TypeOK
      <3>2. QED
        BY <3>1 DEF ClientFine
    <2>2. QED
      BY <2>1 DEF DecideCommit, DecideRead
  <1>11. QED
    BY <1>5, <1>6, <1>7, <1>8, <1>9, <1>10 DEF Next, Step, Runs, Handle

\* On SQLite, one invariant of the gate behind the two theorems that follow.
THEOREM GatesInvariance ==
    ASSUME Backend = "sqlite"
    PROVE  Spec => []GatesOK
  <1>1. Init => GatesOK
    <2>1. \A t \in Tasks : Decisive(t, NoRow)
      BY DEF Decisive, NoRow, Rejected
    <2>2. QED
      BY <2>1 DEF Init, GatesOK
  <1>2. IInv /\ GatesOK /\ [Next]_vars => GatesOK'
    BY NextGates
  <1>3. QED
    BY <1>1, <1>2, Invariance, PTL DEF Spec

\* On SQLite a task somebody rejected is canceled and stays so: no stale write of a
\* worker, a sweep, a cancel or a retry brings it back.
THEOREM RejectionIsFinal ==
    ASSUME Backend = "sqlite"
    PROVE  Spec => []RejectedStaysOut
  <1>1. GatesOK => RejectedStaysOut
    BY DEF GatesOK, Decisive, Rejected, RejectedStaysOut
  <1>2. QED
    BY <1>1, GatesInvariance, PTL

\* On SQLite the approval that completes the quorum is the one that queues the task.
THEOREM QuorumIsNeverMissed ==
    ASSUME Backend = "sqlite"
    PROVE  Spec => []QuorumIsNoticed
  <1>1. IInv /\ GatesOK => QuorumIsNoticed
    <2> SUFFICES ASSUME IInv, GatesOK, NEW t \in Tasks, task[t].status = "waiting_approval"
                 PROVE  Cardinality(Approvers(t)) < Required(t)
      BY DEF QuorumIsNoticed
    <2>1. ~Enough(t, task[t])
      BY DEF GatesOK, Decisive
    <2>2. Approvers(t) = Approve(task[t])
      BY DEF Approvers, Approve
    <2>3. Cardinality(Approve(task[t])) \in Nat /\ Required(t) \in Nat
      BY ApproveFinite, Bounds
    <2>4. QED
      BY <2>1, <2>2, <2>3 DEF Enough
  <1>2. QED
    BY <1>1, GatesInvariance, Invariance, PTL

\* On SQLite every decision counts, the rejection for good and the approval towards the
\* quorum (approval_decision).
THEOREM DecisionsAlwaysStand ==
    ASSUME Backend = "sqlite"
    PROVE  Spec => []DecisionsStand
  <1>1. RejectedStaysOut /\ QuorumIsNoticed => DecisionsStand
    BY DEF DecisionsStand
  <1>2. QED
    BY <1>1, RejectionIsFinal, QuorumIsNeverMissed, PTL

=============================================================================
