--------------------------- MODULE Workflow_proofs ---------------------------
(***************************************************************************)
(* Proofs about Workflow: its type invariant, that prompts are complete,   *)
(* and that a run implements the abstract DAG run.                         *)
(*                                                                         *)
(* The argument: what a tick once read stays true in the only sense that   *)
(* matters, namely that a step it saw succeed or fail has a task that did, *)
(* because that history only grows.  So stale copies and overlapping       *)
(* writes are harmless to the order of the steps and to the verdict.       *)
(***************************************************************************)
EXTENDS Workflow, TLAPS

\* The statuses of rows are backed by the histories of the tasks ts.
Backed(ts, rows) ==
    \A s \in Steps : /\ rows[s].status = "succeeded" => ts[s].won
                     /\ rows[s].status = "failed" => ts[s].lost

\* What a tick at a run knows of the tables rn and tk.
AtRun(rn, tk, me) ==
    /\ \A r \in me.todo : rn[r] # "none"
    /\ me.run \in Runs
    /\ rn[me.run] # "none"
    /\ Backed(tk[me.run], me.seen)

\* The steps left may be submitted.
LeftReady(me) ==
    \A s \in me.left : me.seen[s].status = "pending" /\ Deps[s] \subseteq Succeeded(me.seen)

LocalFine(rn, tk, me) ==
    /\ \A r \in me.todo : rn[r] # "none"
    /\ me.pc \notin {"idle", "load"} => AtRun(rn, tk, me)
    /\ me.pc = "record" =>
          \A s \in Steps : First(s, me.left) =>
              /\ me.found = "succeeded" => tk[me.run][s].won
              /\ me.found = "failed" => tk[me.run][s].lost
    /\ me.pc = "lose" => Failed(me.seen) # {}
    /\ me.pc \in {"submit", "insert", "link"} => LeftReady(me)
    /\ me.pc = "win" => \A s \in Steps : tk[me.run][s].won

RowsOK == \A r \in Runs : Backed(task[r], step[r])
TicksOK == \A l \in Tickers : LocalFine(run, task, tick[l])
TasksOK == \A r \in Runs, s \in Steps : task[r][s].status = "none" => task[r][s] = NoTask

\* A task that has ended is in its own history.
HistoryOK ==
    \A r \in Runs, s \in Steps : /\ task[r][s].status = "succeeded" => task[r][s].won
                                 /\ task[r][s].status = "failed" => task[r][s].lost

IInv == TypeOK /\ RowsOK /\ TicksOK /\ TasksOK /\ HistoryOK /\ PromptsAreComplete

RunTable == [Runs -> {"none", "running"} \union Ended]
TaskTable == [Runs -> [Steps -> Task]]

-----------------------------------------------------------------------------
(***************************************************************************)
(* Locals.                                                                 *)
(***************************************************************************)
LEMMA IdleFine ==
  ASSUME NEW rn, NEW tk
  PROVE  Idle \in Local /\ LocalFine(rn, tk, Idle)
BY ConstantsAssumption DEF Idle, Local, LocalFine, NewSteps, StepRow, Ended

LEMMA NextRunFine ==
  ASSUME NEW rn, NEW tk, NEW me \in Local, LocalFine(rn, tk, me)
  PROVE  NextRun(me) \in Local /\ LocalFine(rn, tk, NextRun(me))
<1>1. CASE me.todo = {}
  BY <1>1, IdleFine DEF NextRun
<1>2. CASE me.todo # {}
  <2> DEFINE n == [Idle EXCEPT !.pc = "load", !.todo = me.todo]
  <2>1. NextRun(me) = n
    BY <1>2 DEF NextRun
  <2>2. me.todo \in SUBSET Runs
    BY DEF Local
  <2>3. n \in Local
    BY <2>2, IdleFine DEF Local
  <2>4. n.pc = "load" /\ n.todo = me.todo
    BY DEF Idle
  <2>5. LocalFine(rn, tk, n)
    BY <2>4 DEF LocalFine
  <2> QED
    BY <2>1, <2>3, <2>5
<1> QED
  BY <1>1, <1>2

LEMMA SubmittingFine ==
  ASSUME NEW rn, NEW tk, NEW me \in Local, AtRun(rn, tk, me), LeftReady(me)
  PROVE  Submitting(me) \in Local /\ LocalFine(rn, tk, Submitting(me))
<1> DEFINE n == Submitting(me)
<1>1. n \in Local /\ n.pc \in {"check", "submit"}
  BY DEF Submitting, Local
<1>2. /\ n.todo = me.todo /\ n.run = me.run /\ n.seen = me.seen /\ n.left = me.left
  BY DEF Submitting, Local
<1>3. AtRun(rn, tk, n) /\ LeftReady(n)
  BY <1>2 DEF AtRun, LeftReady
<1> QED
  BY <1>1, <1>3 DEF LocalFine, AtRun

LEMMA PollingFine ==
  ASSUME NEW rn, NEW tk, NEW me \in Local, AtRun(rn, tk, me)
  PROVE  Polling(me) \in Local /\ LocalFine(rn, tk, Polling(me))
<1>1. CASE me.left # {}
  <2> DEFINE n == [me EXCEPT !.pc = "poll"]
  <2>1. Polling(me) = n
    BY <1>1 DEF Polling
  <2>2. n \in Local /\ n.pc = "poll"
    BY DEF Local
  <2>3. n.todo = me.todo /\ n.run = me.run /\ n.seen = me.seen
    BY DEF Local
  <2> QED
    BY <2>1, <2>2, <2>3 DEF LocalFine, AtRun
<1>2. CASE me.left = {} /\ Failed(me.seen) # {}
  <2> DEFINE n == [me EXCEPT !.pc = "lose"]
  <2>1. Polling(me) = n
    BY <1>2 DEF Polling
  <2>2. n \in Local /\ n.pc = "lose"
    BY DEF Local
  <2>3. n.todo = me.todo /\ n.run = me.run /\ n.seen = me.seen
    BY DEF Local
  <2> QED
    BY <1>2, <2>1, <2>2, <2>3 DEF LocalFine, AtRun
<1>3. CASE me.left = {} /\ Failed(me.seen) = {}
  <2> DEFINE n == [me EXCEPT !.left = Ready(me.seen)]
  <2>1. Polling(me) = Submitting(n)
    BY <1>3 DEF Polling
  <2>2. n \in Local
    BY DEF Local, Ready
  <2>3. n.todo = me.todo /\ n.run = me.run /\ n.seen = me.seen /\ n.left = Ready(me.seen)
    BY DEF Local
  <2>4. AtRun(rn, tk, n)
    BY <2>3 DEF AtRun
  <2>5. LeftReady(n)
    BY <2>3 DEF LeftReady, Ready
  <2> QED
    BY <2>1, <2>2, <2>4, <2>5, SubmittingFine
<1> QED
  BY <1>1, <1>2, <1>3

\* The tables only grow in what the ticks know of them.
Grows(rn, tk, rn2, tk2) ==
    /\ \A r \in Runs : rn[r] # "none" => rn2[r] # "none"
    /\ \A r \in Runs, s \in Steps : /\ tk[r][s].won => tk2[r][s].won
                                    /\ tk[r][s].lost => tk2[r][s].lost

LEMMA LocalStable ==
  ASSUME NEW rn, NEW tk, NEW rn2, NEW tk2, NEW me \in Local,
         Grows(rn, tk, rn2, tk2), LocalFine(rn, tk, me)
  PROVE  LocalFine(rn2, tk2, me)
<1>1. me.todo \subseteq Runs
  BY DEF Local
<1>2. \A r \in me.todo : rn2[r] # "none"
  BY <1>1 DEF LocalFine, Grows
<1>3. AtRun(rn, tk, me) => AtRun(rn2, tk2, me)
  BY <1>1 DEF AtRun, Backed, Grows
<1>4. me.pc = "record" => me.run \in Runs
  BY DEF LocalFine, AtRun
<1>5. me.pc = "win" => me.run \in Runs
  BY DEF LocalFine, AtRun
<1> QED
  BY <1>2, <1>3, <1>4, <1>5 DEF LocalFine, Grows

-----------------------------------------------------------------------------
(***************************************************************************)
(* Steps of a tick.  Moves(l): tick l takes locals that are fine for the   *)
(* tables as they are after the step, and the others keep theirs.          *)
(***************************************************************************)
Moves(l, rn2, tk2) ==
    \E n \in Local : LocalFine(rn2, tk2, n) /\ tick' = [tick EXCEPT ![l] = n]

LEMMA TicksFollow ==
  ASSUME TypeOK, TicksOK, NEW l \in Tickers, NEW rn2, NEW tk2,
         Moves(l, rn2, tk2), Grows(run, task, rn2, tk2)
  PROVE  /\ tick' \in [Tickers -> Local]
         /\ \A k \in Tickers : LocalFine(rn2, tk2, tick'[k])
<1>1. PICK n \in Local : LocalFine(rn2, tk2, n) /\ tick' = [tick EXCEPT ![l] = n]
  BY DEF Moves
<1>2. tick \in [Tickers -> Local]
  BY DEF TypeOK
<1>3. \A k \in Tickers : tick'[k] = IF k = l THEN n ELSE tick[k]
  BY <1>1, <1>2
<1>4. ASSUME NEW k \in Tickers PROVE LocalFine(rn2, tk2, tick'[k])
  <2>1. tick[k] \in Local /\ LocalFine(run, task, tick[k])
    BY <1>2 DEF TicksOK
  <2>2. LocalFine(rn2, tk2, tick[k])
    BY <2>1, LocalStable
  <2> QED
    BY <1>1, <1>3, <2>2
<1>5. tick' \in [Tickers -> Local]
  BY <1>1, <1>2
<1> QED
  BY <1>4, <1>5

LEMMA SameGrows == Grows(run, task, run, task)
BY DEF Grows

LEMMA IdleMoves ==
  ASSUME NEW l, NEW rn2, NEW tk2, tick' = [tick EXCEPT ![l] = Idle]
  PROVE  Moves(l, rn2, tk2)
BY IdleFine DEF Moves

LEMMA ActiveMoves ==
  ASSUME TypeOK, NEW l \in Tickers, Active(l)
  PROVE  Moves(l, run, task)
<1> DEFINE active == {r \in Runs : run[r] = "running"}
           n == [Idle EXCEPT !.pc = "load", !.todo = active]
<1>1. n \in Local
  BY IdleFine DEF Local
<1>2. n.pc = "load" /\ n.todo = active
  BY DEF Idle
<1>3. LocalFine(run, task, n)
  BY <1>2 DEF LocalFine
<1>4. tick' = [tick EXCEPT ![l] = n]
  BY DEF Active
<1> QED
  BY <1>1, <1>3, <1>4 DEF Moves

LEMMA LoadMoves ==
  ASSUME TypeOK, RowsOK, TicksOK, NEW l \in Tickers, Load(l)
  PROVE  Moves(l, run, task)
<1> DEFINE me == tick[l]
<1>1. PICK r \in Runs : /\ First(r, me.todo)
                        /\ tick' = [tick EXCEPT ![l] =
                              Polling([me EXCEPT !.todo = me.todo \ {r}, !.run = r, !.seen = step[r],
                                                 !.left = Submitted(step[r])])]
  BY DEF Load
<1> DEFINE n == [me EXCEPT !.todo = me.todo \ {r}, !.run = r, !.seen = step[r],
                           !.left = Submitted(step[r])]
<1>2. me \in Local /\ LocalFine(run, task, me) /\ step[r] \in [Steps -> StepRow]
  BY DEF TypeOK, TicksOK
<1>3. n \in Local
  BY <1>2 DEF Local, Submitted
<1>4. n.todo = me.todo \ {r} /\ n.run = r /\ n.seen = step[r]
  BY <1>2 DEF Local
<1>5. r \in me.todo
  BY <1>1 DEF First
<1>6. AtRun(run, task, n)
  BY <1>2, <1>4, <1>5 DEF AtRun, LocalFine, RowsOK
<1>7. Polling(n) \in Local /\ LocalFine(run, task, Polling(n))
  BY <1>3, <1>6, PollingFine
<1>8. tick' = [tick EXCEPT ![l] = Polling(n)]
  BY <1>1
<1> QED
  BY <1>7, <1>8 DEF Moves

LEMMA PollMoves ==
  ASSUME TypeOK, TicksOK, TasksOK, HistoryOK, NEW l \in Tickers, Poll(l)
  PROVE  Moves(l, run, task)
<1> DEFINE me == tick[l]
<1>1. PICK s \in Steps :
          /\ First(s, me.left)
          /\ tick' = [tick EXCEPT ![l] =
                         IF task[me.run][s].status \in Ended
                         THEN [me EXCEPT !.pc = "record", !.found = task[me.run][s].status]
                         ELSE Polling([me EXCEPT !.left = me.left \ {s}])]
  BY DEF Poll
<1>2. me \in Local /\ LocalFine(run, task, me) /\ me.pc = "poll"
  BY DEF TypeOK, TicksOK, Poll
<1>3. AtRun(run, task, me)
  BY <1>2 DEF LocalFine
<1>4. CASE task[me.run][s].status \in Ended
  <2> DEFINE n == [me EXCEPT !.pc = "record", !.found = task[me.run][s].status]
  <2>1. n \in Local
    BY <1>2, <1>4 DEF Local
  <2>2. /\ n.pc = "record" /\ n.found = task[me.run][s].status /\ n.todo = me.todo
        /\ n.run = me.run /\ n.seen = me.seen /\ n.left = me.left
    BY <1>2 DEF Local
  <2>3. AtRun(run, task, n)
    BY <1>3, <2>2 DEF AtRun
  <2>4. me.left \subseteq Steps
    BY <1>2 DEF Local
  <2>5. ASSUME NEW u \in Steps, First(u, me.left) PROVE u = s
    BY <1>1, <2>4, <2>5, ConstantsAssumption DEF First
  <2>6. /\ task[me.run][s].status = "succeeded" => task[me.run][s].won
        /\ task[me.run][s].status = "failed" => task[me.run][s].lost
    <3>1. me.run \in Runs
      BY <1>3 DEF AtRun
    <3> HIDE DEF me, n
    <3> QED
      BY <3>1 DEF HistoryOK
  <2>7. LocalFine(run, task, n)
    <3> HIDE DEF n
    <3> QED
      BY <2>2, <2>3, <2>5, <2>6 DEF LocalFine, AtRun
  <2>8. tick' = [tick EXCEPT ![l] = n]
    BY <1>1, <1>4
  <2> QED
    BY <2>1, <2>7, <2>8 DEF Moves
<1>5. CASE task[me.run][s].status \notin Ended
  <2> DEFINE n == [me EXCEPT !.left = me.left \ {s}]
  <2>1. n \in Local
    BY <1>2 DEF Local
  <2>2. n.todo = me.todo /\ n.run = me.run /\ n.seen = me.seen
    BY <1>2 DEF Local
  <2>3. AtRun(run, task, n)
    BY <1>3, <2>2 DEF AtRun
  <2>4. tick' = [tick EXCEPT ![l] = Polling(n)]
    BY <1>1, <1>5
  <2> QED
    BY <2>1, <2>3, <2>4, PollingFine DEF Moves
<1> QED
  BY <1>4, <1>5

LEMMA CheckMoves ==
  ASSUME TypeOK, RowsOK, TicksOK, NEW l \in Tickers, Check(l)
  PROVE  Moves(l, run, task)
<1> DEFINE me == tick[l]
<1>1. me \in Local /\ LocalFine(run, task, me) /\ me.pc = "check"
  BY DEF TypeOK, TicksOK, Check
<1>2. AtRun(run, task, me)
  BY <1>1 DEF LocalFine
<1>3. CASE Succeeded(step[me.run]) = Steps
  <2> DEFINE n == [me EXCEPT !.pc = "win"]
  <2>1. n \in Local /\ n.pc = "win"
    BY <1>1 DEF Local
  <2>2. n.todo = me.todo /\ n.run = me.run /\ n.seen = me.seen
    BY <1>1 DEF Local
  <2>3. \A s \in Steps : task[me.run][s].won
    BY <1>2, <1>3 DEF Succeeded, RowsOK, Backed, AtRun
  <2>4. LocalFine(run, task, n)
    BY <1>2, <2>1, <2>2, <2>3 DEF LocalFine, AtRun
  <2>5. tick' = [tick EXCEPT ![l] = n]
    BY <1>3 DEF Check
  <2> QED
    BY <2>1, <2>4, <2>5 DEF Moves
<1>4. CASE Succeeded(step[me.run]) # Steps
  <2>1. tick' = [tick EXCEPT ![l] = NextRun(me)]
    BY <1>4 DEF Check
  <2> QED
    BY <1>1, <2>1, NextRunFine DEF Moves
<1> QED
  BY <1>3, <1>4

LEMMA BackedWith ==
  ASSUME NEW ts, NEW rows \in [Steps -> StepRow], Backed(ts, rows), NEW s \in Steps,
         NEW row \in StepRow,
         row.status = "succeeded" => ts[s].won, row.status = "failed" => ts[s].lost
  PROVE  /\ [rows EXCEPT ![s] = row] \in [Steps -> StepRow]
         /\ Backed(ts, [rows EXCEPT ![s] = row])
BY DEF Backed

LEMMA RowsWith ==
  ASSUME TypeOK, RowsOK, NEW r \in Runs, NEW s \in Steps, NEW row \in StepRow,
         row.status = "succeeded" => task[r][s].won, row.status = "failed" => task[r][s].lost,
         step' = [step EXCEPT ![r][s] = row], task' = task
  PROVE  step' \in [Runs -> [Steps -> StepRow]] /\ RowsOK'
<1> DEFINE n == [step[r] EXCEPT ![s] = row]
<1>1. step \in [Runs -> [Steps -> StepRow]]
  BY DEF TypeOK
<1>2. Backed(task[r], step[r]) /\ step[r] \in [Steps -> StepRow]
  BY <1>1 DEF RowsOK
<1>3. n \in [Steps -> StepRow] /\ Backed(task[r], n)
  BY <1>2, BackedWith
<1>4. step' = [step EXCEPT ![r] = n]
  OBVIOUS
<1> HIDE DEF n
<1>5. step' \in [Runs -> [Steps -> StepRow]]
  BY <1>1, <1>3, <1>4
<1>6. ASSUME NEW q \in Runs PROVE Backed(task'[q], step'[q])
  <2>1. step'[q] = IF q = r THEN n ELSE step[q]
    BY <1>1, <1>4
  <2> QED
    BY <1>3, <2>1 DEF RowsOK
<1> QED
  BY <1>5, <1>6 DEF RowsOK

LEMMA RecordMoves ==
  ASSUME TypeOK, RowsOK, TicksOK, NEW l \in Tickers, Record(l)
  PROVE  /\ Moves(l, run, task)
         /\ step' \in [Runs -> [Steps -> StepRow]]
         /\ RowsOK'
<1> DEFINE me == tick[l]
<1>1. PICK s \in Steps :
          /\ First(s, me.left)
          /\ step' = [step EXCEPT ![me.run][s].status = me.found]
          /\ tick' = [tick EXCEPT ![l] =
                         Polling([me EXCEPT !.seen[s].status = me.found,
                                            !.left = me.left \ {s}, !.found = "failed"])]
  BY DEF Record
<1>2. me \in Local /\ LocalFine(run, task, me) /\ me.pc = "record" /\ task' = task
  BY DEF TypeOK, TicksOK, Record
<1>3. AtRun(run, task, me) /\ me.run \in Runs
  BY <1>2 DEF LocalFine, AtRun
<1>4. /\ me.found \in Ended
      /\ me.found = "succeeded" => task[me.run][s].won
      /\ me.found = "failed" => task[me.run][s].lost
  BY <1>1, <1>2 DEF LocalFine, Local
<1>5. me.seen \in [Steps -> StepRow] /\ step[me.run] \in [Steps -> StepRow]
  BY <1>2, <1>3 DEF Local, TypeOK
<1> DEFINE row == [me.seen[s] EXCEPT !.status = me.found]
           old == [step[me.run][s] EXCEPT !.status = me.found]
           rows == [me.seen EXCEPT ![s] = row]
           n == [me EXCEPT !.seen = rows, !.left = me.left \ {s}, !.found = "failed"]
<1>6. row \in StepRow /\ row.status = me.found
  BY <1>4, <1>5 DEF StepRow
<1>7. old \in StepRow /\ old.status = me.found
  BY <1>4, <1>5 DEF StepRow
<1>8. step' = [step EXCEPT ![me.run][s] = old]
  BY <1>1
<1>9. tick' = [tick EXCEPT ![l] = Polling(n)]
  BY <1>1
<1>10. rows \in [Steps -> StepRow] /\ Backed(task[me.run], rows)
  <2>1. Backed(task[me.run], me.seen)
    BY <1>3 DEF AtRun
  <2> HIDE DEF me, row
  <2> QED
    BY <1>4, <1>5, <1>6, <2>1, BackedWith
<1>11. n \in Local /\ n.todo = me.todo /\ n.run = me.run /\ n.seen = rows
  <2> HIDE DEF rows
  <2> QED
    BY <1>2, <1>10 DEF Local, Ended
<1>12. AtRun(run, task, n)
  <2> HIDE DEF n, rows
  <2> QED
    BY <1>3, <1>10, <1>11 DEF AtRun
<1>13. Moves(l, run, task)
  BY <1>9, <1>11, <1>12, PollingFine DEF Moves
<1>14. step' \in [Runs -> [Steps -> StepRow]] /\ RowsOK'
  <2> HIDE DEF me, old
  <2> QED
    BY <1>2, <1>3, <1>4, <1>7, <1>8, RowsWith
<1> QED
  BY <1>13, <1>14

LEMMA FinishMoves ==
  ASSUME TypeOK, TicksOK, NEW l \in Tickers, NEW pc, NEW verdict \in Ended,
         pc \notin {"idle", "load"}, Finish(l, pc, verdict)
  PROVE  /\ tick[l].run \in Runs /\ run[tick[l].run] # "none"
         /\ run' \in RunTable
         /\ Grows(run, task, run', task)
         /\ Moves(l, run', task)
<1> DEFINE me == tick[l]
<1>1. me \in Local /\ LocalFine(run, task, me) /\ me.pc = pc
  BY DEF TypeOK, TicksOK, Finish
<1>2. me.run \in Runs /\ run[me.run] # "none"
  BY <1>1 DEF LocalFine, AtRun
<1>3. run' = [run EXCEPT ![me.run] = verdict] /\ run \in RunTable
  BY DEF Finish, TypeOK, RunTable
<1>4. run' \in RunTable
  BY <1>3 DEF RunTable
<1>5. Grows(run, task, run', task)
  BY <1>3 DEF Grows, RunTable, Ended
<1>6. NextRun(me) \in Local /\ LocalFine(run', task, NextRun(me))
  BY <1>1, <1>5, LocalStable, NextRunFine
<1>7. tick' = [tick EXCEPT ![l] = NextRun(me)]
  BY DEF Finish
<1>8. Moves(l, run', task)
  BY <1>6, <1>7 DEF Moves
<1> QED
  BY <1>2, <1>4, <1>5, <1>8

\* A task changes to row, which keeps what the old row was known for.
Keeps(r, s, row) ==
    /\ row \in Task
    /\ row.status # "none"
    /\ task[r][s].won \/ row.status = "succeeded" => row.won
    /\ task[r][s].lost \/ row.status = "failed" => row.lost
    /\ Mentions[s] \intersect Deps[s] \subseteq row.prompt

LEMMA TaskWith ==
  ASSUME TypeOK, RowsOK, TasksOK, HistoryOK, PromptsAreComplete,
         NEW r \in Runs, NEW s \in Steps, NEW row, Keeps(r, s, row),
         task' = [task EXCEPT ![r][s] = row], step' = step
  PROVE  /\ task' \in TaskTable
         /\ Grows(run, task, run, task')
         /\ RowsOK' /\ TasksOK' /\ HistoryOK' /\ PromptsAreComplete'
<1>1. task \in TaskTable
  BY DEF TypeOK, TaskTable
<1>2. task' \in TaskTable
  BY <1>1 DEF TaskTable, Keeps
<1>3. ASSUME NEW q \in Runs, NEW u \in Steps
      PROVE  task'[q][u] = IF q = r /\ u = s THEN row ELSE task[q][u]
  BY <1>1 DEF TaskTable
<1>4. Grows(run, task, run, task')
  BY <1>3 DEF Grows, Keeps
<1>5. RowsOK'
  BY <1>4 DEF RowsOK, Backed, Grows
<1>6. TasksOK'
  BY <1>3 DEF TasksOK, Keeps
<1>7. HistoryOK'
  BY <1>3 DEF HistoryOK, Keeps
<1>8. PromptsAreComplete'
  BY <1>3 DEF PromptsAreComplete, Keeps
<1> QED
  BY <1>2, <1>4, <1>5, <1>6, <1>7, <1>8

LEMMA CreateKeeps ==
  ASSUME TypeOK, TasksOK, HistoryOK, PromptsAreComplete,
         NEW r \in Runs, NEW s \in Steps, NEW seen \in [Steps -> StepRow],
         Deps[s] \subseteq Succeeded(seen), Create(r, s, seen)
  PROVE  \E row : Keeps(r, s, row) /\ task' = [task EXCEPT ![r][s] = row]
<1>1. task[r][s] \in Task
  BY DEF TypeOK
<1> DEFINE new == [NoTask EXCEPT !.status = "active", !.prompt = Prompt(s, seen)]
<1>2. CASE task[r][s].status = "none"
  <2>1. task' = [task EXCEPT ![r][s] = new]
    BY <1>2 DEF Create
  <2>2. task[r][s] = NoTask
    BY <1>2 DEF TasksOK
  <2>3. new \in Task /\ new.status = "active" /\ new.prompt = Prompt(s, seen)
    BY DEF NoTask, Task, Prompt, Succeeded
  <2>4. Mentions[s] \intersect Deps[s] \subseteq new.prompt
    BY <2>3 DEF Prompt
  <2>5. ~task[r][s].won /\ ~task[r][s].lost
    BY <2>2 DEF NoTask
  <2>6. Keeps(r, s, new)
    <3> HIDE DEF new
    <3> QED
      BY <2>3, <2>4, <2>5 DEF Keeps
  <2> QED
    BY <2>1, <2>6
<1>3. CASE task[r][s].status # "none"
  <2>1. task' = [task EXCEPT ![r][s] = task[r][s]]
    BY <1>3 DEF Create
  <2>2. Keeps(r, s, task[r][s])
    BY <1>1, <1>3 DEF Keeps, HistoryOK, PromptsAreComplete
  <2> QED
    BY <2>1, <2>2
<1> QED
  BY <1>2, <1>3

Submissions == {"submit", "insert", "link"}

LEMMA SubmissionFine ==
  ASSUME NEW rn, NEW tk, NEW me \in Local, LocalFine(rn, tk, me), me.pc \in Submissions,
         NEW pc \in Submissions
  PROVE  [me EXCEPT !.pc = pc] \in Local /\ LocalFine(rn, tk, [me EXCEPT !.pc = pc])
<1> DEFINE n == [me EXCEPT !.pc = pc]
<1>1. n \in Local /\ n.pc = pc
  BY DEF Local, Submissions
<1>2. n.todo = me.todo /\ n.run = me.run /\ n.seen = me.seen /\ n.left = me.left
  BY DEF Local
<1>3. AtRun(rn, tk, me) /\ LeftReady(me)
  BY DEF LocalFine, Submissions
<1>4. AtRun(rn, tk, n) /\ LeftReady(n)
  BY <1>2, <1>3 DEF AtRun, LeftReady
<1> QED
  <2> HIDE DEF n
  <2>1. LocalFine(rn, tk, n)
    BY <1>1, <1>4 DEF LocalFine, AtRun, Submissions
  <2> QED
    BY <1>1, <2>1 DEF n

\* The submission of a step whose dependencies have all succeeded.
Submits(r, s, seen) ==
    /\ run[r] # "none"
    /\ seen \in [Steps -> StepRow]
    /\ Backed(task[r], seen)
    /\ Deps[s] \subseteq Succeeded(seen)
    /\ Create(r, s, seen)

LEMMA SubmitShape ==
  ASSUME TypeOK, TicksOK, NEW l \in Tickers, Submit(l) \/ Insert(l)
  PROVE  /\ \/ task' = task
            \/ \E r \in Runs, s \in Steps, seen \in [Steps -> StepRow] : Submits(r, s, seen)
         /\ Grows(run, task, run, task') => Moves(l, run, task')
         /\ UNCHANGED <<run, step, faults, overturns>>
<1> DEFINE me == tick[l]
<1>1. me \in Local /\ LocalFine(run, task, me) /\ me.pc \in Submissions
  BY DEF TypeOK, TicksOK, Submit, Insert, Submissions
<1>2. AtRun(run, task, me) /\ LeftReady(me)
  BY <1>1 DEF LocalFine, Submissions
<1>3. PICK s \in Steps :
          /\ s \in me.left
          /\ \/ /\ Create(me.run, s, me.seen)
                /\ tick' = [tick EXCEPT ![l].pc = "link"]
             \/ /\ task' = task
                /\ \/ tick' = [tick EXCEPT ![l].pc = "insert"]
                   \/ tick' = [tick EXCEPT ![l] = Idle]
  BY DEF Submit, Insert, First
<1>4. me.run \in Runs /\ me.seen \in [Steps -> StepRow] /\ Deps[s] \subseteq Succeeded(me.seen)
  BY <1>1, <1>2, <1>3 DEF AtRun, LeftReady, Local
<1>5. \/ task' = task
      \/ Submits(me.run, s, me.seen)
  BY <1>2, <1>3, <1>4 DEF Submits, AtRun
<1>6. ASSUME Grows(run, task, run, task') PROVE Moves(l, run, task')
  <2>1. LocalFine(run, task', me)
    BY <1>1, <1>6, LocalStable
  <2>2. ASSUME NEW pc \in Submissions, tick' = [tick EXCEPT ![l].pc = pc]
        PROVE  Moves(l, run, task')
    <3>1. tick' = [tick EXCEPT ![l] = [me EXCEPT !.pc = pc]]
      BY <2>2
    <3> HIDE DEF me
    <3>2. [me EXCEPT !.pc = pc] \in Local /\ LocalFine(run, task', [me EXCEPT !.pc = pc])
      BY <1>1, <2>1, SubmissionFine
    <3> QED
      BY <3>1, <3>2 DEF Moves
  <2>3. CASE tick' = [tick EXCEPT ![l] = Idle]
    BY <2>3, IdleMoves
  <2> QED
    BY <1>3, <2>2, <2>3 DEF Submissions
<1>7. UNCHANGED <<run, step, faults, overturns>>
  BY DEF Submit, Insert
<1> QED
  BY <1>4, <1>5, <1>6, <1>7

LEMMA LinkMoves ==
  ASSUME TypeOK, RowsOK, TicksOK, NEW l \in Tickers, Link(l)
  PROVE  /\ Moves(l, run, task)
         /\ step' \in [Runs -> [Steps -> StepRow]]
         /\ RowsOK'
<1> DEFINE me == tick[l]
           row == [status |-> "submitted", linked |-> TRUE]
<1>1. PICK s \in Steps :
          /\ First(s, me.left)
          /\ step' = [step EXCEPT ![me.run][s] = row]
          /\ tick' = [tick EXCEPT ![l] =
                         Submitting([me EXCEPT !.seen[s] = row, !.left = me.left \ {s}])]
  BY DEF Link
<1>2. me \in Local /\ LocalFine(run, task, me) /\ me.pc = "link" /\ task' = task
  BY DEF TypeOK, TicksOK, Link
<1>3. AtRun(run, task, me) /\ LeftReady(me) /\ me.run \in Runs
  BY <1>2 DEF LocalFine, AtRun
<1>4. me.seen \in [Steps -> StepRow] /\ row \in StepRow /\ row.status = "submitted"
  BY <1>2 DEF Local, StepRow
<1>5. s \in me.left /\ me.left \subseteq Steps
  BY <1>1, <1>2 DEF First, Local
<1> DEFINE rows == [me.seen EXCEPT ![s] = row]
           n == [me EXCEPT !.seen = rows, !.left = me.left \ {s}]
<1> HIDE DEF row
<1>6. tick' = [tick EXCEPT ![l] = Submitting(n)]
  BY <1>1
<1>7. rows \in [Steps -> StepRow] /\ Backed(task[me.run], rows)
  <2>1. Backed(task[me.run], me.seen)
    BY <1>3 DEF AtRun
  <2> HIDE DEF me
  <2> QED
    BY <1>4, <2>1, BackedWith
<1>8. \A u \in Steps : rows[u] = IF u = s THEN row ELSE me.seen[u]
  BY <1>4
<1>9. /\ n \in Local /\ n.todo = me.todo /\ n.run = me.run /\ n.seen = rows
      /\ n.left = me.left \ {s}
  <2> HIDE DEF rows
  <2> QED
    BY <1>2, <1>7 DEF Local
<1>10. AtRun(run, task, n)
  <2> HIDE DEF n, rows
  <2> QED
    BY <1>3, <1>7, <1>9 DEF AtRun
<1>11. Succeeded(me.seen) \subseteq Succeeded(rows)
  <2>1. me.seen[s].status = "pending"
    BY <1>3, <1>5 DEF LeftReady
  <2> HIDE DEF rows
  <2> QED
    BY <1>8, <2>1 DEF Succeeded
<1>12. LeftReady(n)
  <2> HIDE DEF n, rows
  <2> QED
    BY <1>3, <1>5, <1>8, <1>9, <1>11 DEF LeftReady
<1>13. Moves(l, run, task)
  <2> HIDE DEF n
  <2> QED
    BY <1>6, <1>9, <1>10, <1>12, SubmittingFine DEF Moves
<1>14. step' \in [Runs -> [Steps -> StepRow]] /\ RowsOK'
  <2> HIDE DEF me
  <2> QED
    BY <1>1, <1>2, <1>3, <1>4, RowsWith
<1> QED
  BY <1>13, <1>14

-----------------------------------------------------------------------------
(***************************************************************************)
(* The invariant.                                                          *)
(***************************************************************************)
LEMMA InitIInv ==
  ASSUME Init
  PROVE  IInv
<1>1. NewSteps \in [Steps -> StepRow] /\ NoTask \in Task
  BY DEF NewSteps, StepRow, NoTask, Task
<1>2. TypeOK
  BY <1>1, IdleFine DEF Init, TypeOK
<1>3. RowsOK
  BY DEF Init, RowsOK, Backed, NewSteps
<1>4. TicksOK
  BY IdleFine DEF Init, TicksOK
<1>5. TasksOK
  BY DEF Init, TasksOK
<1>6. HistoryOK /\ PromptsAreComplete
  BY DEF Init, HistoryOK, PromptsAreComplete, NoTask
<1> QED
  BY <1>2, <1>3, <1>4, <1>5, <1>6 DEF IInv

\* The parts of the invariant that do not look at the ticks.
Tables ==
    /\ run \in RunTable
    /\ step \in [Runs -> [Steps -> StepRow]]
    /\ task \in TaskTable
    /\ RowsOK /\ TasksOK /\ HistoryOK /\ PromptsAreComplete

LEMMA TablesOK ==
  ASSUME IInv
  PROVE  Tables
BY DEF IInv, Tables, TypeOK, RunTable, TaskTable

\* A step of a tick, and a step of the world around.
LEMMA TickKeeps ==
  ASSUME IInv, NEW l \in Tickers, Moves(l, run', task'), Grows(run, task, run', task'),
         Tables', {faults', overturns'} \subseteq Nat
  PROVE  IInv'
<1>1. /\ tick' \in [Tickers -> Local]
      /\ \A k \in Tickers : LocalFine(run', task', tick'[k])
  BY TicksFollow DEF IInv
<1> QED
  BY <1>1 DEF IInv, Tables, TypeOK, TicksOK, RunTable, TaskTable

LEMMA WorldKeeps ==
  ASSUME IInv, tick' = tick, Grows(run, task, run', task'),
         Tables', {faults', overturns'} \subseteq Nat
  PROVE  IInv'
<1>1. \A k \in Tickers : tick[k] \in Local /\ LocalFine(run, task, tick[k])
  BY DEF IInv, TypeOK, TicksOK
<1>2. \A k \in Tickers : LocalFine(run', task', tick[k])
  BY <1>1, LocalStable
<1> QED
  BY <1>2 DEF IInv, Tables, TypeOK, TicksOK, RunTable, TaskTable

LEMMA SameTables ==
  ASSUME Tables, UNCHANGED <<run, step, task>>
  PROVE  Tables'
BY DEF Tables, RowsOK, TasksOK, HistoryOK, PromptsAreComplete

LEMMA SubmitsKeeps ==
  ASSUME IInv, NEW r \in Runs, NEW s \in Steps, NEW seen, Submits(r, s, seen),
         UNCHANGED <<run, step>>
  PROVE  Tables' /\ Grows(run, task, run, task')
<1>1. PICK row : Keeps(r, s, row) /\ task' = [task EXCEPT ![r][s] = row]
  BY CreateKeeps DEF IInv, Submits
<1> QED
  BY <1>1, TaskWith, TablesOK DEF IInv, Tables

\* A status that a task takes once it has been created.
LEMMA BecomesKeeps ==
  ASSUME IInv, NEW r \in Runs, NEW s \in Steps, NEW status \in Ended \union {"active"},
         task[r][s].status # "none", Becomes(r, s, status), UNCHANGED <<run, step>>
  PROVE  Tables' /\ Grows(run, task, run, task')
<1> DEFINE old == task[r][s]
           row == [status |-> status, prompt |-> old.prompt,
                   won |-> old.won \/ status = "succeeded", lost |-> old.lost \/ status = "failed"]
<1>1. old \in Task /\ Mentions[s] \intersect Deps[s] \subseteq old.prompt
  BY DEF IInv, TypeOK, PromptsAreComplete
<1>2. row \in Task
  BY <1>1 DEF Task, Ended
<1>3. Keeps(r, s, row)
  <2>1. status # "none"
    BY DEF Ended
  <2>2. old.won \/ row.status = "succeeded" => row.won
    OBVIOUS
  <2>3. old.lost \/ row.status = "failed" => row.lost
    OBVIOUS
  <2>4. row.prompt = old.prompt /\ row.status = status
    OBVIOUS
  <2> HIDE DEF row
  <2> QED
    BY <1>1, <1>2, <2>1, <2>2, <2>3, <2>4 DEF Keeps
<1>4. task' = [task EXCEPT ![r][s] = row]
  BY DEF Becomes
<1> HIDE DEF row
<1> QED
  BY <1>3, <1>4, TaskWith, TablesOK DEF IInv, Tables

LEMMA TickIInv ==
  ASSUME IInv, NEW l \in Tickers, Tick(l) \/ Crash(l)
  PROVE  IInv'
<1>1. TypeOK /\ RowsOK /\ TicksOK /\ TasksOK /\ HistoryOK /\ PromptsAreComplete /\ Tables
  BY TablesOK DEF IInv
<1>2. faults \in Nat /\ overturns \in Nat
  BY <1>1 DEF TypeOK
<1>3. CASE Active(l) \/ Load(l) \/ Poll(l) \/ Check(l)
  <2>1. UNCHANGED <<run, step, task, faults, overturns>>
    BY <1>3 DEF Active, Load, Poll, Check
  <2>2. Moves(l, run, task)
    BY <1>1, <1>3, ActiveMoves, LoadMoves, PollMoves, CheckMoves
  <2>3. Tables'
    BY <1>1, <2>1, SameTables
  <2> QED
    BY <1>2, <2>1, <2>2, <2>3, SameGrows, TickKeeps
<1>4. CASE Record(l) \/ Link(l)
  <2>1. UNCHANGED <<run, task, faults, overturns>>
    BY <1>4 DEF Record, Link
  <2>2. /\ Moves(l, run, task)
        /\ step' \in [Runs -> [Steps -> StepRow]]
        /\ RowsOK'
    BY <1>1, <1>4, RecordMoves, LinkMoves
  <2>3. Tables'
    BY <1>1, <2>1, <2>2 DEF Tables, TasksOK, HistoryOK, PromptsAreComplete
  <2> QED
    BY <1>2, <2>1, <2>2, <2>3, SameGrows, TickKeeps
<1>5. ASSUME NEW pc, NEW verdict \in Ended, pc \notin {"idle", "load"}, Finish(l, pc, verdict)
      PROVE  IInv'
  <2>1. UNCHANGED <<step, task, faults, overturns>>
    BY <1>5 DEF Finish
  <2>2. run' \in RunTable /\ Grows(run, task, run', task) /\ Moves(l, run', task)
    BY <1>1, <1>5, FinishMoves
  <2>3. Tables'
    BY <1>1, <2>1, <2>2 DEF Tables, RowsOK, TasksOK, HistoryOK, PromptsAreComplete
  <2> QED
    BY <1>2, <2>1, <2>2, <2>3, TickKeeps
<1>6. CASE Lose(l) \/ Win(l)
  BY <1>5, <1>6 DEF Lose, Win, Ended
<1>7. CASE Submit(l) \/ Insert(l)
  <2>1. /\ \/ task' = task
           \/ \E r \in Runs, s \in Steps, seen \in [Steps -> StepRow] : Submits(r, s, seen)
        /\ Grows(run, task, run, task') => Moves(l, run, task')
        /\ UNCHANGED <<run, step, faults, overturns>>
    BY <1>1, <1>7, SubmitShape
  <2>2. Tables' /\ Grows(run, task, run, task')
    <3>1. CASE task' = task
      BY <1>1, <2>1, <3>1, SameGrows, SameTables
    <3>2. CASE \E r \in Runs, s \in Steps, seen \in [Steps -> StepRow] : Submits(r, s, seen)
      BY <2>1, <3>2, SubmitsKeeps
    <3> QED
      BY <2>1, <3>1, <3>2
  <2> QED
    BY <1>2, <2>1, <2>2, TickKeeps
<1>8. CASE Raise(l) \/ Crash(l)
  <2>1. /\ UNCHANGED <<run, step, task, overturns>>
        /\ faults' \in Nat
        /\ tick' = [tick EXCEPT ![l] = Idle]
    BY <1>2, <1>8 DEF Raise, Crash
  <2>2. Moves(l, run, task)
    BY <2>1, IdleMoves
  <2>3. Tables'
    BY <1>1, <2>1, SameTables
  <2> QED
    BY <1>2, <2>1, <2>2, <2>3, SameGrows, TickKeeps
<1> QED
  BY <1>3, <1>4, <1>6, <1>7, <1>8 DEF Tick

LEMMA NextIInv ==
  ASSUME IInv, [Next]_vars
  PROVE  IInv'
<1>1. TypeOK /\ RowsOK /\ TicksOK /\ TasksOK /\ HistoryOK /\ PromptsAreComplete /\ Tables
  BY TablesOK DEF IInv
<1>2. faults \in Nat /\ overturns \in Nat
  BY <1>1 DEF TypeOK
<1>3. ASSUME NEW r \in Runs, Start(r) PROVE IInv'
  <2>1. /\ run' = [run EXCEPT ![r] = "running"]
        /\ step' = [step EXCEPT ![r] = NewSteps]
        /\ UNCHANGED <<task, tick, faults, overturns>>
    BY <1>3 DEF Start
  <2>2. run' \in RunTable
    BY <1>1, <2>1 DEF Tables, RunTable
  <2>3. NewSteps \in [Steps -> StepRow]
    BY DEF NewSteps, StepRow
  <2>4. step' \in [Runs -> [Steps -> StepRow]]
    BY <1>1, <2>1, <2>3 DEF Tables
  <2>5. RowsOK'
    <3>1. ASSUME NEW q \in Runs PROVE Backed(task[q], step'[q])
      <4>1. step'[q] = IF q = r THEN NewSteps ELSE step[q]
        BY <1>1, <2>1 DEF Tables
      <4> QED
        BY <1>1, <4>1 DEF RowsOK, Backed, NewSteps
    <3> QED
      BY <2>1, <3>1 DEF RowsOK
  <2>6. Tables'
    BY <1>1, <2>1, <2>2, <2>4, <2>5 DEF Tables, TasksOK, HistoryOK, PromptsAreComplete
  <2>7. Grows(run, task, run', task')
    BY <1>1, <2>1 DEF Grows, Tables, RunTable
  <2> QED
    BY <1>2, <2>1, <2>6, <2>7, WorldKeeps
<1>4. ASSUME NEW r \in Runs, NEW s \in Steps, NEW status,
             \/ status \in Ended /\ End(r, s, status)
             \/ status \in Ended \union {"active"} /\ Overturn(r, s, status)
      PROVE  IInv'
  <2>1. /\ status \in Ended \union {"active"}
        /\ task[r][s].status # "none"
        /\ Becomes(r, s, status)
        /\ UNCHANGED <<run, step, tick, faults>>
        /\ overturns' \in Nat
    BY <1>2, <1>4 DEF End, Overturn, Ended
  <2>2. Tables' /\ Grows(run, task, run, task')
    BY <2>1, BecomesKeeps
  <2> QED
    BY <1>2, <2>1, <2>2, WorldKeeps
<1>5. CASE UNCHANGED vars
  BY <1>5 DEF IInv, vars, TypeOK, RowsOK, TicksOK, TasksOK, HistoryOK, PromptsAreComplete
<1> QED
  BY <1>3, <1>4, <1>5, TickIInv DEF Next

\* The invariant: what ticks read is backed by the histories of the tasks.
THEOREM Invariance == Spec => []IInv
BY InitIInv, NextIInv, PTL DEF Spec

\* Rows and locals have their types, of which the statuses of a step are the
\* ones the tick tells apart.
THEOREM TypeCorrect == Spec => []TypeOK
<1>1. IInv => TypeOK
  BY DEF IInv
<1> QED
  BY <1>1, Invariance, PTL

\* A prompt is submitted with the results of all the dependencies it quotes.
THEOREM PromptsComplete == Spec => []PromptsAreComplete
<1>1. IInv => PromptsAreComplete
  BY DEF IInv
<1> QED
  BY <1>1, Invariance, PTL

-----------------------------------------------------------------------------
(***************************************************************************)
(* The refinement.                                                         *)
(***************************************************************************)
LEMMA HistoriesWith ==
  ASSUME task \in TaskTable, NEW r \in Runs, NEW s \in Steps, NEW row,
         task' = [task EXCEPT ![r][s] = row]
  PROVE  /\ row.status # "none" => started' = [started EXCEPT ![r] = started[r] \union {s}]
         /\ row.won => won' = [won EXCEPT ![r] = won[r] \union {s}]
         /\ row.lost => lost' = [lost EXCEPT ![r] = lost[r] \union {s}]
         /\ (row.status = "none" <=> task[r][s].status = "none") => started' = started
         /\ (row.won <=> task[r][s].won) => won' = won
         /\ (row.lost <=> task[r][s].lost) => lost' = lost
<1>1. \A q \in Runs, u \in Steps :
         task'[q][u] = IF q = r /\ u = s THEN row ELSE task[q][u]
  BY DEF TaskTable
<1>2. ASSUME row.status # "none" PROVE started' = [started EXCEPT ![r] = started[r] \union {s}]
  <2>1. ASSUME NEW q \in Runs PROVE started'[q] = IF q = r THEN started[r] \union {s} ELSE started[q]
    BY <1>1, <1>2 DEF started
  <2> QED
    BY <2>1 DEF started
<1>3. ASSUME row.won PROVE won' = [won EXCEPT ![r] = won[r] \union {s}]
  <2>1. ASSUME NEW q \in Runs PROVE won'[q] = IF q = r THEN won[r] \union {s} ELSE won[q]
    BY <1>1, <1>3 DEF won
  <2> QED
    BY <2>1 DEF won
<1>4. ASSUME row.lost PROVE lost' = [lost EXCEPT ![r] = lost[r] \union {s}]
  <2>1. ASSUME NEW q \in Runs PROVE lost'[q] = IF q = r THEN lost[r] \union {s} ELSE lost[q]
    BY <1>1, <1>4 DEF lost
  <2> QED
    BY <2>1 DEF lost
<1>5. (row.status = "none" <=> task[r][s].status = "none") => started' = started
  BY <1>1 DEF started
<1>6. (row.won <=> task[r][s].won) => won' = won
  BY <1>1 DEF won
<1>7. (row.lost <=> task[r][s].lost) => lost' = lost
  BY <1>1 DEF lost
<1> QED
  BY <1>2, <1>3, <1>4, <1>5, <1>6, <1>7

LEMMA HistoriesSame ==
  ASSUME UNCHANGED <<run, task>>
  PROVE  UNCHANGED Dag!vars
BY DEF Dag!vars, started, won, lost

LEMMA SubmitsMaps ==
  ASSUME IInv, NEW r \in Runs, NEW s \in Steps, NEW seen, Submits(r, s, seen), run' = run
  PROVE  [Dag!Next]_(Dag!vars)
<1>1. task \in TaskTable /\ TasksOK
  BY TablesOK DEF IInv, Tables
<1>2. CASE task[r][s].status # "none"
  <2>1. task' = [task EXCEPT ![r][s] = task[r][s]]
    BY <1>2 DEF Submits, Create
  <2>2. task' = task
    BY <1>1, <2>1 DEF TaskTable
  <2> QED
    BY <2>2, HistoriesSame
<1>3. CASE task[r][s].status = "none"
  <2> DEFINE new == [NoTask EXCEPT !.status = "active", !.prompt = Prompt(s, seen)]
  <2>1. task' = [task EXCEPT ![r][s] = new]
    BY <1>3 DEF Submits, Create
  <2>2. new.status = "active" /\ ~new.won /\ ~new.lost
    BY DEF NoTask
  <2>3. task[r][s] = NoTask
    BY <1>1, <1>3 DEF TasksOK
  <2>4. ~task[r][s].won /\ ~task[r][s].lost
    BY <2>3 DEF NoTask
  <2> HIDE DEF new
  <2>5. started' = [started EXCEPT ![r] = started[r] \union {s}] /\ won' = won /\ lost' = lost
    BY <1>1, <2>1, <2>2, <2>4, HistoriesWith
  <2>6. s \notin started[r]
    BY <1>3 DEF started
  <2>7. Deps[s] \subseteq won[r]
    BY ConstantsAssumption DEF Submits, Succeeded, Backed, won
  <2>8. run[r] # "none"
    BY DEF Submits
  <2>9. Dag!StartStep(r, s)
    BY <2>5, <2>6, <2>7, <2>8 DEF Dag!StartStep
  <2> QED
    BY <2>9 DEF Dag!Next
<1> QED
  BY <1>2, <1>3

LEMMA BecomesMaps ==
  ASSUME IInv, NEW r \in Runs, NEW s \in Steps, NEW status \in Ended \union {"active"},
         task[r][s].status # "none", Becomes(r, s, status), run' = run
  PROVE  [Dag!Next]_(Dag!vars)
<1> DEFINE old == task[r][s]
           row == [status |-> status, prompt |-> old.prompt,
                   won |-> old.won \/ status = "succeeded", lost |-> old.lost \/ status = "failed"]
<1>1. task \in TaskTable /\ old \in Task
  BY TablesOK DEF Tables, TaskTable
<1>2. task' = [task EXCEPT ![r][s] = row]
  BY DEF Becomes
<1>3. old.won \in BOOLEAN /\ old.lost \in BOOLEAN
  BY <1>1 DEF Task
<1>4. row.status # "none"
  BY DEF Ended
<1>5. s \in started[r]
  BY DEF started
<1>6. CASE status = "succeeded"
  <2>1. row.won /\ (row.lost <=> old.lost)
    BY <1>3, <1>6
  <2> HIDE DEF row
  <2>2. won' = [won EXCEPT ![r] = won[r] \union {s}] /\ lost' = lost /\ started' = started
    BY <1>1, <1>2, <1>4, <2>1, HistoriesWith
  <2> QED
    BY <1>5, <2>2 DEF Dag!Next, Dag!Win
<1>7. CASE status = "failed"
  <2>1. row.lost /\ (row.won <=> old.won)
    BY <1>3, <1>7
  <2> HIDE DEF row
  <2>2. lost' = [lost EXCEPT ![r] = lost[r] \union {s}] /\ won' = won /\ started' = started
    BY <1>1, <1>2, <1>4, <2>1, HistoriesWith
  <2> QED
    BY <1>5, <2>2 DEF Dag!Next, Dag!Lose
<1>8. CASE status = "active"
  <2>1. (row.lost <=> old.lost) /\ (row.won <=> old.won)
    BY <1>3, <1>8
  <2> HIDE DEF row
  <2>2. lost' = lost /\ won' = won /\ started' = started
    BY <1>1, <1>2, <1>4, <2>1, HistoriesWith
  <2> QED
    BY <2>2 DEF Dag!vars
<1> QED
  BY <1>6, <1>7, <1>8 DEF Ended

LEMMA TickMaps ==
  ASSUME IInv, NEW l \in Tickers, Tick(l) \/ Crash(l)
  PROVE  [Dag!Next]_(Dag!vars)
<1>1. TypeOK /\ TicksOK
  BY DEF IInv
<1> DEFINE me == tick[l]
<1>2. me \in Local /\ LocalFine(run, task, me)
  BY <1>1 DEF TypeOK, TicksOK
<1>3. CASE \/ Active(l) \/ Load(l) \/ Poll(l) \/ Record(l) \/ Link(l) \/ Check(l)
           \/ Raise(l) \/ Crash(l)
  <2>1. UNCHANGED <<run, task>>
    BY <1>3 DEF Active, Load, Poll, Record, Link, Check, Raise, Crash
  <2> QED
    BY <2>1, HistoriesSame
<1>4. CASE Submit(l) \/ Insert(l)
  <2>1. /\ \/ task' = task
           \/ \E r \in Runs, s \in Steps, seen \in [Steps -> StepRow] : Submits(r, s, seen)
        /\ run' = run
    BY <1>1, <1>4, SubmitShape
  <2> QED
    BY <2>1, SubmitsMaps, HistoriesSame
<1>5. CASE Lose(l)
  <2>1. AtRun(run, task, me) /\ Failed(me.seen) # {}
    BY <1>2, <1>5 DEF Lose, Finish, LocalFine
  <2>2. me.run \in Runs /\ lost[me.run] # {}
    BY <2>1 DEF AtRun, Backed, Failed, lost
  <2>3. run' = [run EXCEPT ![me.run] = "failed"] /\ task' = task
    BY <1>5 DEF Lose, Finish
  <2>4. Dag!Fail(me.run)
    BY <2>2, <2>3 DEF Dag!Fail, started, won, lost
  <2> QED
    BY <2>2, <2>4 DEF Dag!Next
<1>6. CASE Win(l)
  <2>1. AtRun(run, task, me) /\ \A s \in Steps : task[me.run][s].won
    BY <1>2, <1>6 DEF Win, Finish, LocalFine
  <2>2. me.run \in Runs /\ won[me.run] = Steps
    BY <2>1 DEF AtRun, won
  <2>3. run' = [run EXCEPT ![me.run] = "succeeded"] /\ task' = task
    BY <1>6 DEF Win, Finish
  <2>4. Dag!Succeed(me.run)
    BY <2>2, <2>3 DEF Dag!Succeed, started, won, lost
  <2> QED
    BY <2>2, <2>4 DEF Dag!Next
<1> QED
  BY <1>3, <1>4, <1>5, <1>6 DEF Tick

\* Every workflow run behaves as the DAG run promises: no step starts before its
\* dependencies succeeded, no verdict is written that was not earned, whatever the
\* overlap of ticks, the crashes and the overturned tasks.
THEOREM DagIsImplemented == Spec => ImplementsDagRun
<1>1. Init => Dag!Init
  BY DEF Init, Dag!Init, started, won, lost, NoTask
<1>2. ASSUME IInv, [Next]_vars
      PROVE  [Dag!Next]_(Dag!vars)
  <2>1. ASSUME NEW r \in Runs, Start(r) PROVE [Dag!Next]_(Dag!vars)
    <3>1. run' = [run EXCEPT ![r] = "running"] /\ task' = task /\ run[r] = "none"
      BY <2>1 DEF Start
    <3>2. Dag!Begin(r)
      BY <3>1 DEF Dag!Begin, started, won, lost
    <3> QED
      BY <3>2 DEF Dag!Next
  <2>2. ASSUME NEW r \in Runs, NEW s \in Steps, NEW status,
               \/ status \in Ended /\ End(r, s, status)
               \/ status \in Ended \union {"active"} /\ Overturn(r, s, status)
        PROVE  [Dag!Next]_(Dag!vars)
    <3>1. /\ status \in Ended \union {"active"}
          /\ task[r][s].status # "none"
          /\ Becomes(r, s, status)
          /\ run' = run
      BY <2>2 DEF End, Overturn, Ended
    <3> QED
      BY <1>2, <3>1, BecomesMaps
  <2>3. CASE UNCHANGED vars
    BY <2>3, HistoriesSame DEF vars
  <2> QED
    BY <1>2, <2>1, <2>2, <2>3, TickMaps DEF Next
<1> QED
  BY <1>1, <1>2, Invariance, PTL DEF Spec, ImplementsDagRun, Dag!Spec
=============================================================================
