----------------------------- MODULE MCHandlers -----------------------------
(***************************************************************************)
(* The operator session, the render queue, a job of the task gateway, a    *)
(* conversation and the decisions on a task, which share no state, side by *)
(* side: all are written by handlers that read, wait, and then write       *)
(* whatever has happened meanwhile.  A behaviour is one of one of them,    *)
(* while the others rest.                                                  *)
(***************************************************************************)
EXTENDS MCOperator, RenderQueue, PlanTask, Conversation

CONSTANTS gated, runner, handlers, actors, agent, noTask, noRunner

VARIABLES side, task, worker, client, crashes

\* The queue on SQLite, for the decisions: one task that two approvals release,
\* with one attempt and no tools, and the handlers of all operations.
Queue == INSTANCE TaskQueue WITH
    Backend <- "sqlite", Tasks <- {gated},
    Request <- [t \in {gated} |-> [priority |-> 0, budget |-> 1, required |-> 2,
                                   mutating |-> TRUE]],
    Workers <- {runner}, SlowWorkers <- {}, Clients <- handlers,
    Ops <- {"approve", "reject", "cancel", "retry"}, Actors <- actors,
    Agent <- agent, NoTask <- noTask, NoWorker <- noRunner,
    MaxTurns <- 1, MaxCalls <- 0, MaxDepth <- 0, MaxSubagents <- 0,
    MaxCrashes <- 1, MaxRetries <- 1

\* A rejected task is never queued, run or finished, and an approval that
\* completes the quorum is never left waiting: TaskQueue!DecisionsStand, for two
\* approvals of three actors (set_approval, db_tasks.py).
DecisionsStand == Queue!DecisionsStand

queueVars == <<task, worker, client, crashes>>

HandlersInit ==
    /\ side \in {"session", "render", "plan", "chat", "decisions"}
    /\ Init
    /\ RenderInit
    /\ PlanInit
    /\ ChatInit
    /\ Queue!Init

Operating ==
    side = "session" /\ Next /\ UNCHANGED <<side, renderVars, planVars, chatVars, queueVars>>

Rendering ==
    side = "render" /\ RenderNext /\ UNCHANGED <<side, vars, planVars, chatVars, queueVars>>

Planning ==
    side = "plan" /\ PlanNext /\ UNCHANGED <<side, vars, renderVars, chatVars, queueVars>>

Chatting ==
    side = "chat" /\ ChatNext /\ UNCHANGED <<side, vars, renderVars, planVars, queueVars>>

Deciding ==
    side = "decisions" /\ Queue!Next /\ UNCHANGED <<side, vars, renderVars, planVars, chatVars>>

HandlersNext == Operating \/ Rendering \/ Planning \/ Chatting \/ Deciding

HandlersSpec ==
    HandlersInit /\ [][HandlersNext]_<<side, vars, renderVars, planVars, chatVars, queueVars>>
=============================================================================
