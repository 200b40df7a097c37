------------------------------- MODULE DagRun -------------------------------
(***************************************************************************)
(* What a workflow run promises (ARCHITECTURE.md, Workflow engine): a step *)
(* starts only after all its dependencies succeeded, and the verdict on    *)
(* the run is earned: success by the success of every step, failure by the *)
(* failure of one.                                                         *)
(***************************************************************************)
CONSTANTS Runs, Steps, Deps

VARIABLES
    verdict,   \* verdict[r]: the status of run r
    started,   \* started[r]: the steps of r that have a task
    won,       \* won[r]: the steps of r whose task succeeded at some time
    lost       \* lost[r]: the steps of r whose task failed at some time

vars == <<verdict, started, won, lost>>

Init ==
    /\ verdict = [r \in Runs |-> "none"]
    /\ started = [r \in Runs |-> {}]
    /\ won = [r \in Runs |-> {}]
    /\ lost = [r \in Runs |-> {}]

Begin(r) ==
    /\ verdict[r] = "none"
    /\ verdict' = [verdict EXCEPT ![r] = "running"]
    /\ UNCHANGED <<started, won, lost>>

StartStep(r, s) ==
    /\ verdict[r] # "none"
    /\ s \notin started[r]
    /\ Deps[s] \subseteq won[r]
    /\ started' = [started EXCEPT ![r] = @ \union {s}]
    /\ UNCHANGED <<verdict, won, lost>>

Win(r, s) ==
    /\ s \in started[r]
    /\ won' = [won EXCEPT ![r] = @ \union {s}]
    /\ UNCHANGED <<verdict, started, lost>>

Lose(r, s) ==
    /\ s \in started[r]
    /\ lost' = [lost EXCEPT ![r] = @ \union {s}]
    /\ UNCHANGED <<verdict, started, won>>

Succeed(r) ==
    /\ won[r] = Steps
    /\ verdict' = [verdict EXCEPT ![r] = "succeeded"]
    /\ UNCHANGED <<started, won, lost>>

Fail(r) ==
    /\ lost[r] # {}
    /\ verdict' = [verdict EXCEPT ![r] = "failed"]
    /\ UNCHANGED <<started, won, lost>>

Next ==
    \E r \in Runs :
        \/ Begin(r) \/ Succeed(r) \/ Fail(r)
        \/ \E s \in Steps : StartStep(r, s) \/ Win(r, s) \/ Lose(r, s)

Spec == Init /\ [][Next]_vars
=============================================================================
