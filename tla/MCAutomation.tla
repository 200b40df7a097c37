---------------------------- MODULE MCAutomation ----------------------------
(***************************************************************************)
(* What the engine does beside its queue, in parts which share no row: a   *)
(* scheduler's tick dispatches schedules and events, and advances workflow *)
(* runs; the turns of executions count failures of providers, and check    *)
(* and spend budgets. A behaviour is one of one part, while the others     *)
(* rest. What dispatches is seen twice, with a slot ahead and with an      *)
(* event ahead; turns are seen twice, with the money and with the health   *)
(* of the providers fixed.                                                 *)
(***************************************************************************)
EXTENDS MCWorkflow, Scheduler, ChatTurn, TLC

\* Two processes and their names; what a schedule or a rule asks for.
CONSTANTS replica, single, replicaName, singleName, prompt, workflow

Names == (replica :> replicaName) @@ (single :> singleName)

\* Every execution counts against every budget.
AllScopes == [e \in Execution |-> Scope]

VARIABLE part

AllAskFor(c) ==
    /\ \A s \in Schedule : schedule[s].asks = c
    /\ \A r \in Rule : rule[r].asks = c

SlotsAhead ==
    /\ clock = 0
    /\ \A s \in Schedule : schedule[s].slot = 1 /\ schedule[s].enabled
    /\ \A e \in Event : event[e] = "processed"
    /\ AllAskFor(workflow)

EventsAhead ==
    /\ clock = Horizon
    /\ \A s \in Schedule : ~ schedule[s].enabled
    /\ \A e \in Event : event[e] = "none"
    /\ AllAskFor(prompt)

AutomationInit ==
    /\ part \in {"schedules", "events", "runs", "circuits", "budgets"}
    /\ Init
    /\ SchedulerInit
    /\ TurnInit
    /\ part # "budgets" => limit = [s \in Scope |-> 1]
    /\ IF part = "events" THEN EventsAhead ELSE SlotsAhead

\* Bounds: an edit or a mishap, and only edits of what is ahead.
Dispatches ==
    /\ part \in {"schedules", "events"} /\ SchedulerNext
    /\ edits' = 0 \/ mishaps' = 0
    /\ part = "schedules" => UNCHANGED rule
    /\ part = "events" => UNCHANGED schedule
    /\ UNCHANGED <<part, vars, turnVars>>

Advances ==
    /\ part = "runs" /\ Next
    /\ UNCHANGED <<part, schedulerVars, turnVars>>

\* Bound: where budgets are spent, no provider is down.
Turns ==
    /\ part \in {"circuits", "budgets"} /\ TurnNext
    /\ part = "circuits" => UNCHANGED <<spent, limit>>
    /\ part = "budgets" => \A e \in Execution : turn'[e].at # "failed"
    /\ UNCHANGED <<part, vars, schedulerVars>>

AutomationNext == Dispatches \/ Advances \/ Turns

\* Fairness, SchedulerFairness and TurnFairness, each in its part.
AutomationFairness ==
    /\ \A l \in Tickers : WF_vars(part = "runs" /\ Tick(l))
    /\ \A r \in Runs, s \in Steps :
          WF_vars(part = "runs" /\ \E status \in Ended : End(r, s, status))
    /\ \A p \in Loop :
          /\ WF_schedulerVars(part \in {"schedules", "events"} /\ TakeLead(p))
          /\ WF_schedulerVars(part \in {"schedules", "events"} /\ TickerStep(p))
    /\ WF_schedulerVars(part \in {"schedules", "events"} /\ LeaseOfNoReplicaLapses)
    /\ \A e \in Execution : WF_turnVars(part = "circuits" /\ TurnStep(e))

AutomationSpec ==
    /\ AutomationInit
    /\ [][AutomationNext]_<<part, vars, schedulerVars, turnVars>>
    /\ AutomationFairness
=============================================================================
