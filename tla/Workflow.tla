------------------------------ MODULE Workflow ------------------------------
(***************************************************************************)
(* Workflow runs (workflow.py, db_automation.py): the tick that a          *)
(* scheduler replica or the tick endpoint runs over all active runs.       *)
(*                                                                         *)
(* The leader lease is taken before a tick and never looked at inside it,  *)
(* and no write of a tick names the lease or the status it read: ticks may *)
(* overlap, each with its own copy of the steps.  One action is one call   *)
(* of the repository.  Tasks are those of TaskQueue, seen from outside.    *)
(***************************************************************************)
EXTENDS Integers

CONSTANTS
    Runs,        \* runs, numbered in the order of their creation
    Steps,       \* steps of the definition, numbered in the order of their ids
    Deps,        \* Deps[s]: depends_on of s
    Mentions,    \* Mentions[s]: the steps whose results the prompt of s quotes
    Refused,     \* <<run, step>>: submissions that engine.submit always refuses
    Tickers,     \* threads that run ticks
    NoRun,
    Backend,     \* "sqlite" or "postgres"
    MaxFaults,   \* bound on crashes and passing exceptions
    MaxOverturns \* bound on ended tasks that end otherwise after all

ASSUME ConstantsAssumption ==
    /\ Runs \subseteq Nat
    /\ Steps \subseteq Nat
    /\ Steps # {}
    /\ Deps \in [Steps -> SUBSET Steps]
    /\ Mentions \in [Steps -> SUBSET Steps]
    /\ Refused \subseteq Runs \X Steps
    /\ NoRun \notin Runs
    /\ Backend \in {"sqlite", "postgres"}
    /\ {MaxFaults, MaxOverturns} \subseteq Nat

VARIABLES
    run,      \* run[r]: the status of row r of workflow_runs3
    step,     \* step[r][s]: the row of workflow_steps3
    task,     \* task[r][s]: the task under the key workflow:<run>:<step>
    tick,     \* tick[l]: the locals of the tick of l
    faults, overturns

vars == <<run, step, task, tick, faults, overturns>>

Ended == {"succeeded", "failed"}

\* linked: task_id is set.
StepRow == [status : {"pending", "submitted"} \union Ended, linked : BOOLEAN]

\* "active" stands for waiting_approval, queued and running, "failed" also for
\* dead_letter and canceled.  prompt: the steps whose results its prompt quotes.
\* won and lost are history: it has been succeeded, or failed, at some time.
Task == [status : {"none", "active"} \union Ended, prompt : SUBSET Steps,
         won : BOOLEAN, lost : BOOLEAN]

NoTask == [status |-> "none", prompt |-> {}, won |-> FALSE, lost |-> FALSE]

\* todo: runs the tick has still to visit; seen: its copy of the steps of run;
\* left: steps it has still to visit in the present loop; found: the status it
\* read of the task of the first of them.
Local == [pc : {"idle", "load", "poll", "record", "lose", "submit", "insert",
                "link", "check", "win"},
          todo : SUBSET Runs, run : Runs \union {NoRun},
          seen : [Steps -> StepRow], left : SUBSET Steps, found : Ended]

NewSteps == [s \in Steps |-> [status |-> "pending", linked |-> FALSE]]

Idle == [pc |-> "idle", todo |-> {}, run |-> NoRun, seen |-> NewSteps,
         left |-> {}, found |-> "failed"]

First(x, S) == x \in S /\ \A y \in S : x <= y

-----------------------------------------------------------------------------
(***************************************************************************)
(* What a tick decides from its copy of the steps.                         *)
(***************************************************************************)
Succeeded(seen) == {s \in Steps : seen[s].status = "succeeded"}
Failed(seen) == {s \in Steps : seen[s].status = "failed"}
Submitted(seen) == {s \in Steps : seen[s].status = "submitted" /\ seen[s].linked}

\* Defect: a dependency that was submitted is good enough.
ReadySoon(seen) ==
    {s \in Steps : /\ seen[s].status = "pending" /\ ~seen[s].linked
                   /\ \A d \in Deps[s] : seen[d].status \in {"submitted", "succeeded"}}

Ready(seen) ==
    {s \in Steps : /\ seen[s].status = "pending" /\ ~seen[s].linked
                   /\ Deps[s] \subseteq Succeeded(seen)}

\* _render: the results in the context that the prompt of s asks for.
Prompt(s, seen) == Mentions[s] \intersect Succeeded(seen)

\* The locals once a run is left: the next run, or the end of the tick.
NextRun(me) ==
    IF me.todo = {} THEN Idle ELSE [Idle EXCEPT !.pc = "load", !.todo = me.todo]

\* The locals after a submission: the next ready step, or the final check.
Submitting(me) == [me EXCEPT !.pc = IF me.left = {} THEN "check" ELSE "submit"]

\* The locals after a poll: the next submitted step, or the verdict failed, or
\* the second loop.
Polling(me) ==
    IF me.left # {} THEN [me EXCEPT !.pc = "poll"]
    ELSE IF Failed(me.seen) # {} THEN [me EXCEPT !.pc = "lose"]
    ELSE Submitting([me EXCEPT !.left = Ready(me.seen)])

-----------------------------------------------------------------------------
(***************************************************************************)
(* WorkflowOrchestrator.tick.                                              *)
(***************************************************************************)
Active(l) ==
    LET active == {r \in Runs : run[r] = "running"}
    IN  /\ tick[l] = Idle
        /\ active # {}
        /\ tick' = [tick EXCEPT ![l] = [Idle EXCEPT !.pc = "load", !.todo = active]]
        /\ UNCHANGED <<run, step, task, faults, overturns>>

Load(l) ==
    LET me == tick[l]
    IN  /\ me.pc = "load"
        /\ \E r \in Runs :
              /\ First(r, me.todo)
              /\ tick' = [tick EXCEPT ![l] =
                             Polling([me EXCEPT !.todo = me.todo \ {r}, !.run = r,
                                                !.seen = step[r], !.left = Submitted(step[r])])]
        /\ UNCHANGED <<run, step, task, faults, overturns>>

\* get_task of the first submitted step.
Poll(l) ==
    LET me == tick[l]
    IN  /\ me.pc = "poll"
        /\ \E s \in Steps :
              /\ First(s, me.left)
              /\ LET status == task[me.run][s].status
                 IN  tick' = [tick EXCEPT ![l] =
                                 IF status \in Ended
                                 THEN [me EXCEPT !.pc = "record", !.found = status]
                                 ELSE Polling([me EXCEPT !.left = me.left \ {s}])]
        /\ UNCHANGED <<run, step, task, faults, overturns>>

\* update_workflow_step with the outcome.
Record(l) ==
    LET me == tick[l]
    IN  /\ me.pc = "record"
        /\ \E s \in Steps :
              /\ First(s, me.left)
              /\ step' = [step EXCEPT ![me.run][s].status = me.found]
              /\ tick' = [tick EXCEPT ![l] =
                             Polling([me EXCEPT !.seen[s].status = me.found,
                                                !.left = me.left \ {s}, !.found = "failed"])]
        /\ UNCHANGED <<run, task, faults, overturns>>

\* finish_workflow_run, failed; finish_workflow_run, succeeded.
Finish(l, pc, verdict) ==
    /\ tick[l].pc = pc
    /\ run' = [run EXCEPT ![tick[l].run] = verdict]
    /\ tick' = [tick EXCEPT ![l] = NextRun(@)]
    /\ UNCHANGED <<step, task, faults, overturns>>

Lose(l) == Finish(l, "lose", "failed")
Win(l) == Finish(l, "win", "succeeded")

\* engine.submit raises for ever: the agent is gone, the prompt is empty or too
\* long, or the key was used for a task with another prompt.
Doomed(l) ==
    LET me == tick[l]
    IN  \E s \in Steps :
           /\ First(s, me.left)
           /\ \/ <<me.run, s>> \in Refused
              \/ /\ task[me.run][s].status # "none"
                 /\ task[me.run][s].prompt # Prompt(s, me.seen)

\* Defect: the key is not looked up, a new task replaces the old one.
CreateAnew(r, s, seen) ==
    task' = [task EXCEPT ![r][s] =
                [NoTask EXCEPT !.status = "active", !.prompt = Prompt(s, seen)]]

Create(r, s, seen) ==
    task' = [task EXCEPT ![r][s] =
                IF @.status = "none"
                THEN [NoTask EXCEPT !.status = "active", !.prompt = Prompt(s, seen)]
                ELSE @]

\* engine.submit: the task under the key, or a new one.  On PostgreSQL the new
\* one is inserted in a second step, which finds the key taken if another tick
\* inserted it meanwhile; the exception ends the tick.
Submit(l) ==
    LET me == tick[l]
    IN  /\ me.pc = "submit"
        /\ ~Doomed(l)
        /\ \E s \in Steps :
              /\ First(s, me.left)
              /\ IF Backend = "sqlite" \/ task[me.run][s].status # "none"
                 THEN /\ Create(me.run, s, me.seen)
                      /\ tick' = [tick EXCEPT ![l].pc = "link"]
                 ELSE /\ tick' = [tick EXCEPT ![l].pc = "insert"]
                      /\ UNCHANGED task
        /\ UNCHANGED <<run, step, faults, overturns>>

Insert(l) ==
    LET me == tick[l]
    IN  /\ me.pc = "insert"
        /\ \E s \in Steps :
              /\ First(s, me.left)
              /\ IF task[me.run][s].status = "none"
                 THEN /\ Create(me.run, s, me.seen)
                      /\ tick' = [tick EXCEPT ![l].pc = "link"]
                 ELSE /\ tick' = [tick EXCEPT ![l] = Idle]
                      /\ UNCHANGED task
        /\ UNCHANGED <<run, step, faults, overturns>>

\* Defect: the task is not stored with the step.
LinkLost(l) ==
    LET me == tick[l]
    IN  /\ me.pc = "link"
        /\ \E s \in Steps :
              /\ First(s, me.left)
              /\ step' = [step EXCEPT ![me.run][s].status = "submitted"]
              /\ tick' = [tick EXCEPT ![l] =
                             Submitting([me EXCEPT !.seen[s].status = "submitted", !.left = me.left \ {s}])]
        /\ UNCHANGED <<run, task, faults, overturns>>

\* update_workflow_step with the task.
Link(l) ==
    LET me == tick[l]
        row == [status |-> "submitted", linked |-> TRUE]
    IN  /\ me.pc = "link"
        /\ \E s \in Steps :
              /\ First(s, me.left)
              /\ step' = [step EXCEPT ![me.run][s] = row]
              /\ tick' = [tick EXCEPT ![l] =
                             Submitting([me EXCEPT !.seen[s] = row, !.left = me.left \ {s}])]
        /\ UNCHANGED <<run, task, faults, overturns>>

\* list_workflow_steps again, for the verdict.
Check(l) ==
    /\ tick[l].pc = "check"
    /\ tick' = [tick EXCEPT ![l] = IF Succeeded(step[tick[l].run]) = Steps
                                   THEN [tick[l] EXCEPT !.pc = "win"] ELSE NextRun(tick[l])]
    /\ UNCHANGED <<run, step, task, faults, overturns>>

\* An exception of engine.submit leaves the tick and Scheduler.loop with it; the
\* next tick starts anew.
Raise(l) ==
    /\ tick[l].pc = "submit"
    /\ Doomed(l) \/ faults < MaxFaults
    /\ faults' = IF Doomed(l) THEN faults ELSE faults + 1
    /\ tick' = [tick EXCEPT ![l] = Idle]
    /\ UNCHANGED <<run, step, task, overturns>>

Crash(l) ==
    /\ tick[l] # Idle
    /\ faults < MaxFaults
    /\ faults' = faults + 1
    /\ tick' = [tick EXCEPT ![l] = Idle]
    /\ UNCHANGED <<run, step, task, overturns>>

-----------------------------------------------------------------------------
(***************************************************************************)
(* The world around the ticks.                                             *)
(***************************************************************************)
\* create_workflow_run, one transaction.
Start(r) ==
    /\ run[r] = "none"
    /\ \A q \in Runs : q < r => run[q] # "none"
    /\ run' = [run EXCEPT ![r] = "running"]
    /\ step' = [step EXCEPT ![r] = NewSteps]
    /\ UNCHANGED <<task, tick, faults, overturns>>

Becomes(r, s, status) ==
    task' = [task EXCEPT ![r][s] =
                [status |-> status, prompt |-> @.prompt,
                 won |-> @.won \/ status = "succeeded", lost |-> @.lost \/ status = "failed"]]

\* A task ends (TaskQueue!TasksSettle).
End(r, s, status) ==
    /\ task[r][s].status = "active"
    /\ Becomes(r, s, status)
    /\ UNCHANGED <<run, step, tick, faults, overturns>>

\* An ended task is retried by hand, or overwritten by a stale worker or by a
\* racing cancel.
Overturn(r, s, status) ==
    /\ overturns < MaxOverturns
    /\ task[r][s].status \in Ended \ {status}
    /\ Becomes(r, s, status)
    /\ overturns' = overturns + 1
    /\ UNCHANGED <<run, step, tick, faults>>

-----------------------------------------------------------------------------
Init ==
    /\ run = [r \in Runs |-> "none"]
    /\ step = [r \in Runs |-> NewSteps]
    /\ task = [r \in Runs |-> [s \in Steps |-> NoTask]]
    /\ tick = [l \in Tickers |-> Idle]
    /\ faults = 0
    /\ overturns = 0

Tick(l) ==
    \/ Active(l) \/ Load(l) \/ Poll(l) \/ Record(l) \/ Lose(l)
    \/ Submit(l) \/ Insert(l) \/ Link(l) \/ Check(l) \/ Win(l) \/ Raise(l)

Next ==
    \/ \E l \in Tickers : Tick(l) \/ Crash(l)
    \/ \E r \in Runs : Start(r)
    \/ \E r \in Runs, s \in Steps :
          \/ \E status \in Ended : End(r, s, status)
          \/ \E status \in Ended \union {"active"} : Overturn(r, s, status)

Spec == Init /\ [][Next]_vars

\* The loop of a scheduler replica never ends, and an active task ends.
Fairness ==
    /\ \A l \in Tickers : WF_vars(Tick(l))
    /\ \A r \in Runs, s \in Steps : WF_vars(\E status \in Ended : End(r, s, status))

FairSpec == Spec /\ Fairness

-----------------------------------------------------------------------------
(***************************************************************************)
(* Properties.                                                             *)
(***************************************************************************)
TypeOK ==
    /\ run \in [Runs -> {"none", "running"} \union Ended]
    /\ step \in [Runs -> [Steps -> StepRow]]
    /\ task \in [Runs -> [Steps -> Task]]
    /\ tick \in [Tickers -> Local]
    /\ {faults, overturns} \subseteq Nat

\* A prompt that quotes the results of dependencies is only ever submitted with
\* all of them in place, however the ticks overlap: no task runs on the empty
\* text that _render puts for a result it lacks.
PromptsAreComplete ==
    \A r \in Runs, s \in Steps : task[r][s].status # "none" =>
        Mentions[s] \intersect Deps[s] \subseteq task[r][s].prompt

\* Overlapping ticks, crashes and overturned tasks included, a run implements the
\* abstract DAG run: dependencies first, and no verdict that was not earned.
started == [r \in Runs |-> {s \in Steps : task[r][s].status # "none"}]
won == [r \in Runs |-> {s \in Steps : task[r][s].won}]
lost == [r \in Runs |-> {s \in Steps : task[r][s].lost}]

Dag == INSTANCE DagRun WITH verdict <- run
ImplementsDagRun == Dag!Spec

\* The scheduler "advances workflow runs" (ARCHITECTURE.md): a run none of whose
\* steps is refused gets its verdict.
RunsSettle ==
    \A r \in Runs : (\A s \in Steps : <<r, s>> \notin Refused) =>
        (run[r] = "running" ~> run[r] \in Ended)
=============================================================================
