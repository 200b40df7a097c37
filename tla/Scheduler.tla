----------------------------- MODULE Scheduler -----------------------------
(***************************************************************************)
(* Schedules and events (scheduler.py, db_automation.py): the tick that    *)
(* dispatches every due slot of a schedule and every rule of a pending     *)
(* event, and the service lease that elects who runs it.                   *)
(*                                                                         *)
(* The lease is taken before a tick and not looked at inside it; it may    *)
(* lapse meanwhile, and processes of one name share it: ticks overlap.  A  *)
(* dispatch is kept single by its key alone, the schedule and its          *)
(* next_run_at, or the event and the rule, and tasks and workflow runs     *)
(* each have keys of their own; rows are then marked whatever has become   *)
(* of them.  The workflow runs that a tick advances at its end are         *)
(* modelled in Workflow; here that part may raise.                         *)
(***************************************************************************)
EXTENDS Naturals, Sequences

CONSTANTS
    Schedule, Event, Rule,
    Command,          \* what a schedule or a rule may ask for: target and payload
    WorkflowCommand,  \* those whose target is a workflow, not an agent
    Loop,             \* replicas that run the loop
    Once,             \* single ticks: POST /scheduler-tick, scheduler --once
    LeaseName,        \* LeaseName[p]: the owner under which p takes the lease
    NoLeader,
    Store,          \* "sqlite" or "postgres"
    Horizon,          \* bound: the last time
    EditBound,        \* bound: edits of schedules and rules
    MishapBound       \* bound: passing errors of the database and deaths

Process == Loop \union Once
Slot == 0..(Horizon + 1)

ASSUME SchedulerAssumption ==
    /\ Schedule \intersect Event = {}
    /\ WorkflowCommand \subseteq Command
    /\ DOMAIN LeaseName = Process
    /\ Store \in {"sqlite", "postgres"}
    /\ {Horizon, EditBound, MishapBound} \subseteq Nat

VARIABLES
    clock,
    schedule,    \* schedule[s]: the row of schedules3
    rule,        \* rule[r]: the row of event_rules3
    event,       \* event[e]: the status of the row of events3
    dispatched,  \* dispatched[<<k, t>>]: what was created in the table t under the key k
    lease,       \* the row "scheduler" of service_leases3
    ticker,      \* ticker[p]: the locals of the tick of p
    edits, mishaps,
    owed         \* history: rules that have selected e ever since it was emitted

schedulerVars == <<clock, schedule, rule, event, dispatched, lease, ticker,
                   edits, mishaps, owed>>

Occurrence == (Schedule \X Slot) \union (Event \X Rule)

\* Where the key has to be unique: idempotency_keys2, or workflow_runs3.
Table == {"task", "run"}

\* slot: next_run_at; failed: last_error is set.
ScheduleRow == [slot : Slot, asks : Command, enabled : BOOLEAN, failed : BOOLEAN]

\* selects: the events with the type and the filter of the rule; none if it is disabled.
RuleRow == [selects : SUBSET Event, asks : Command]

LeaseRow == [holder : {LeaseName[p] : p \in Process} \union {NoLeader}, lapsed : BOOLEAN]

\* A dispatch that a tick has found to be due.
Order == [key : Occurrence, asks : Command]

\* orders: what the present loop has still to dispatch; order: the one in hand;
\* next: schedule_next; events: those still to process; current: the one in hand.
TickerState ==
    [at : {"idle", "tick", "schedules", "insert", "mark", "inbox", "events", "rules",
           "finish", "runs"},
     orders : SUBSET Order, order : SUBSET Order, next : Slot, failed : BOOLEAN,
     events : SUBSET Event, current : SUBSET Event]

Asleep == [at |-> "idle", orders |-> {}, order |-> {}, next |-> 0, failed |-> FALSE,
           events |-> {}, current |-> {}]

\* schedule_next: a time to come, by the interval or the cron expression.
Coming == {t \in Slot : t > clock}

\* Schedules and rules have been set up before; some events found no rule.
SchedulerInit ==
    /\ clock \in 0..Horizon
    /\ schedule \in [Schedule -> [slot : Coming, asks : Command, enabled : BOOLEAN,
                                 failed : {FALSE}]]
    /\ rule \in [Rule -> [selects : {Event}, asks : Command]]
    /\ event \in [Event -> {"none", "processed"}]
    /\ dispatched = [k \in Occurrence \X Table |-> <<>>]
    /\ lease = [holder |-> NoLeader, lapsed |-> FALSE]
    /\ ticker = [p \in Process |-> Asleep]
    /\ edits = 0
    /\ mishaps = 0
    /\ owed = [e \in Event |-> {}]

-----------------------------------------------------------------------------
(* Requests *)

EditSchedule(s) ==
    /\ edits < EditBound
    /\ edits' = edits + 1
    /\ \E t \in Coming, c \in Command, on \in BOOLEAN :
          schedule' = [schedule EXCEPT ![s] = [@ EXCEPT !.slot = t, !.asks = c, !.enabled = on]]
    /\ UNCHANGED <<clock, rule, event, dispatched, lease, ticker, mishaps, owed>>

EditRule(r) ==
    /\ edits < EditBound
    /\ edits' = edits + 1
    /\ \E row \in RuleRow :
          /\ rule' = [rule EXCEPT ![r] = row]
          /\ owed' = [e \in Event |-> IF e \in row.selects THEN owed[e] ELSE owed[e] \ {r}]
    /\ UNCHANGED <<clock, schedule, event, dispatched, lease, ticker, mishaps>>

\* Emitted again with the same dedupe_key, it is the same event.
EmitEvent(e) ==
    /\ event[e] = "none"
    /\ event' = [event EXCEPT ![e] = "pending"]
    /\ owed' = [owed EXCEPT ![e] = {r \in Rule : e \in rule[r].selects}]
    /\ UNCHANGED <<clock, schedule, rule, dispatched, lease, ticker, edits, mishaps>>

-----------------------------------------------------------------------------
(* The lease *)

Proceeds(p, me) == ticker' = [ticker EXCEPT ![p] = me]

\* An error: only a lease that was released can be taken.
MayLeadReleased(p) == lease.holder \in {NoLeader, LeaseName[p]}
MayLead(p) == lease.holder \in {NoLeader, LeaseName[p]} \/ lease.lapsed

\* acquire_service_lease.
TakeLead(p) ==
    /\ ticker[p].at = "idle"
    /\ MayLead(p)
    /\ lease' = [holder |-> LeaseName[p], lapsed |-> FALSE]
    /\ Proceeds(p, [Asleep EXCEPT !.at = "tick"])
    /\ UNCHANGED <<clock, schedule, rule, event, dispatched, edits, mishaps, owed>>

\* release_service_lease, on the way out of the loop; a replica is started anew.
Leave(p) ==
    /\ Proceeds(p, Asleep)
    /\ lease' = IF lease.holder = LeaseName[p]
                  THEN [holder |-> NoLeader, lapsed |-> FALSE] ELSE lease

LeaseLapses ==
    /\ lease.holder # NoLeader /\ ~ lease.lapsed
    /\ lease' = [lease EXCEPT !.lapsed = TRUE]
    /\ UNCHANGED <<clock, schedule, rule, event, dispatched, ticker, edits, mishaps, owed>>

-----------------------------------------------------------------------------
(* A dispatch, of a slot or of a rule *)

\* An error: a rule that fails is passed over.
DispatchedOnward(me, o, ok, t) ==
    IF me.current = {}
    THEN [me EXCEPT !.at = "mark", !.orders = @ \ {o}, !.order = {o},
                    !.next = t, !.failed = ~ ok]
    ELSE IF me.orders \ {o} # {}
    THEN [me EXCEPT !.at = "rules", !.orders = @ \ {o}, !.order = {}]
    ELSE [me EXCEPT !.at = "finish", !.orders = {}, !.order = {}]

\* What the tick does with the outcome: a slot is marked in any case, an event fails
\* with the first of its rules that does.
Dispatched(me, o, ok, t) ==
    IF me.current = {}
    THEN [me EXCEPT !.at = "mark", !.orders = @ \ {o}, !.order = {o},
                    !.next = t, !.failed = ~ ok]
    ELSE IF ok /\ me.orders \ {o} # {}
    THEN [me EXCEPT !.at = "rules", !.orders = @ \ {o}, !.order = {}]
    ELSE [me EXCEPT !.at = "finish", !.orders = {}, !.order = {}, !.failed = ~ ok]

Entry(o) == <<o.key, IF o.asks \in WorkflowCommand THEN "run" ELSE "task">>

\* An error: nothing keeps the key unique.
KeyFreeAnyway(o) == TRUE
\* The unique index of the key.
KeyFree(o) == dispatched[Entry(o)] = <<>>

\* The key is there: the same request gets what was created, another one an error.
SameRequest(o) == dispatched[Entry(o)] = <<o.asks>>

CreateOrder(o) == dispatched' = [dispatched EXCEPT ![Entry(o)] = Append(@, o.asks)]

\* submit or start refuses (agent or workflow disabled, prompt blank, budget spent), or
\* asks for the key: it is there, or it creates what is asked. On PostgreSQL another
\* tick may come between.
Dispatch(p) ==
    /\ ticker[p].at \in {"schedules", "rules"}
    /\ \E o \in ticker[p].orders, t \in Coming :
          \/ Proceeds(p, Dispatched(ticker[p], o, FALSE, t)) /\ UNCHANGED dispatched
          \/ /\ ~ KeyFree(o)
             /\ Proceeds(p, Dispatched(ticker[p], o, SameRequest(o), t))
             /\ UNCHANGED dispatched
          \/ /\ KeyFree(o)
             /\ IF Store = "sqlite"
                  THEN CreateOrder(o) /\ Proceeds(p, Dispatched(ticker[p], o, TRUE, t))
                  ELSE /\ Proceeds(p, [ticker[p] EXCEPT !.at = "insert", !.order = {o}])
                       /\ UNCHANGED dispatched
    /\ UNCHANGED <<clock, schedule, rule, event, lease, edits, mishaps, owed>>

\* If the key has come to be there, create_workflow_run looks it up anew, and
\* create_task raises.
InsertOrder(p) ==
    /\ ticker[p].at = "insert"
    /\ \E o \in ticker[p].order, t \in Coming :
          IF KeyFree(o)
            THEN CreateOrder(o) /\ Proceeds(p, Dispatched(ticker[p], o, TRUE, t))
            ELSE /\ Proceeds(p, Dispatched(ticker[p], o,
                           o.asks \in WorkflowCommand /\ SameRequest(o), t))
                 /\ UNCHANGED dispatched
    /\ UNCHANGED <<clock, schedule, rule, event, lease, edits, mishaps, owed>>

-----------------------------------------------------------------------------
(* The tick *)

IsDue(s) == schedule[s].enabled /\ schedule[s].slot <= clock

\* due_schedules, with a copy of each row.
ReadSchedules(p) ==
    /\ ticker[p].at = "tick"
    /\ LET due == {s \in Schedule : IsDue(s)} IN
       Proceeds(p, [ticker[p] EXCEPT
          !.at = IF due = {} THEN "inbox" ELSE "schedules",
          !.orders = {[key |-> <<s, schedule[s].slot>>, asks |-> schedule[s].asks] : s \in due}])
    /\ UNCHANGED <<clock, schedule, rule, event, dispatched, lease, edits, mishaps, owed>>

\* The locals once a slot has been marked.
Onward(me) == [me EXCEPT !.at = IF me.orders = {} THEN "inbox" ELSE "schedules",
                         !.order = {}, !.next = 0, !.failed = FALSE]

\* mark_schedule_run: the row of that id, whatever it says by now.
MarkSchedule(p) ==
    /\ ticker[p].at = "mark"
    /\ \E o \in ticker[p].order :
          schedule' = [schedule EXCEPT ![o.key[1]] =
                          [@ EXCEPT !.slot = ticker[p].next, !.failed = ticker[p].failed]]
    /\ Proceeds(p, Onward(ticker[p]))
    /\ UNCHANGED <<clock, rule, event, dispatched, lease, edits, mishaps, owed>>

\* pending_events.
ReadEvents(p) ==
    /\ ticker[p].at = "inbox"
    /\ Proceeds(p, [ticker[p] EXCEPT !.at = "events",
                                   !.events = {e \in Event : event[e] = "pending"}])
    /\ UNCHANGED <<clock, schedule, rule, event, dispatched, lease, edits, mishaps, owed>>

\* The next event, with a copy of the rules that select it.
NextEvent(p) ==
    /\ ticker[p].at = "events"
    /\ \/ /\ ticker[p].events = {}
          /\ Proceeds(p, [ticker[p] EXCEPT !.at = "runs"])
       \/ \E e \in ticker[p].events :
             LET rules == {r \in Rule : e \in rule[r].selects} IN
             Proceeds(p, [ticker[p] EXCEPT
                !.at = IF rules = {} THEN "finish" ELSE "rules",
                !.orders = {[key |-> <<e, r>>, asks |-> rule[r].asks] : r \in rules},
                !.events = @ \ {e}, !.current = {e}])
    /\ UNCHANGED <<clock, schedule, rule, event, dispatched, lease, edits, mishaps, owed>>

\* finish_event: likewise.
FinishEvent(p) ==
    /\ ticker[p].at = "finish"
    /\ \E e \in ticker[p].current :
          event' = [event EXCEPT ![e] = IF ticker[p].failed THEN "failed" ELSE "processed"]
    /\ Proceeds(p, [ticker[p] EXCEPT !.at = "events", !.current = {}, !.failed = FALSE])
    /\ UNCHANGED <<clock, schedule, rule, dispatched, lease, edits, mishaps, owed>>

\* The workflow runs have been advanced: a replica sleeps and takes the lease again,
\* unless advancing them raised; a single tick is over.
EndTick(p) ==
    /\ ticker[p].at = "runs"
    /\ \/ p \in Loop /\ Proceeds(p, Asleep) /\ UNCHANGED lease
       \/ Leave(p)
    /\ UNCHANGED <<clock, schedule, rule, event, dispatched, edits, mishaps, owed>>

-----------------------------------------------------------------------------
(* Mishaps, and time *)

\* A statement raises: the first of a loop ends the tick; a mark or an event that was to
\* be recorded as done is recorded as failed; a mark that raises again is passed over,
\* a finish that raises again ends the tick.
StatementRaises(p) ==
    /\ mishaps < MishapBound
    /\ mishaps' = mishaps + 1
    /\ \/ ticker[p].at \in {"tick", "inbox"} /\ Leave(p)
       \/ ticker[p].at = "finish" /\ ticker[p].failed /\ Leave(p)
       \/ ticker[p].at = "finish" /\ ~ ticker[p].failed
          /\ Proceeds(p, [ticker[p] EXCEPT !.failed = TRUE]) /\ UNCHANGED lease
       \/ ticker[p].at = "mark" /\ ticker[p].failed
          /\ Proceeds(p, Onward(ticker[p])) /\ UNCHANGED lease
       \/ ticker[p].at = "mark" /\ ~ ticker[p].failed
          /\ \E t \in Coming : Proceeds(p, [ticker[p] EXCEPT !.failed = TRUE, !.next = t])
          /\ UNCHANGED lease
       \/ ticker[p].at = "events"
          /\ \E e \in ticker[p].events :
                Proceeds(p, [ticker[p] EXCEPT !.at = "finish", !.failed = TRUE,
                                            !.events = @ \ {e}, !.current = {e}])
          /\ UNCHANGED lease
    /\ UNCHANGED <<clock, schedule, rule, event, dispatched, edits, owed>>

\* The lease stays; a replica is started anew.
TickerDies(p) ==
    /\ mishaps < MishapBound
    /\ mishaps' = mishaps + 1
    /\ ticker[p].at # "idle"
    /\ Proceeds(p, Asleep)
    /\ UNCHANGED <<clock, schedule, rule, event, dispatched, lease, edits, owed>>

TimePasses ==
    /\ clock < Horizon
    /\ clock' = clock + 1
    /\ UNCHANGED <<schedule, rule, event, dispatched, lease, ticker, edits, mishaps, owed>>

-----------------------------------------------------------------------------

TickerStep(p) ==
    \/ ReadSchedules(p) \/ Dispatch(p) \/ InsertOrder(p) \/ MarkSchedule(p)
    \/ ReadEvents(p) \/ NextEvent(p) \/ FinishEvent(p) \/ EndTick(p)

SchedulerNext ==
    \/ TimePasses \/ LeaseLapses
    \/ \E s \in Schedule : EditSchedule(s)
    \/ \E r \in Rule : EditRule(r)
    \/ \E e \in Event : EmitEvent(e)
    \/ \E p \in Process : TakeLead(p) \/ TickerStep(p) \/ StatementRaises(p) \/ TickerDies(p)

LeaseOfNoReplicaLapses == LeaseLapses /\ lease.holder \notin {LeaseName[p] : p \in Loop}

\* A replica polls and its ticks go on; a lease that no replica holds lapses.
SchedulerFairness ==
    /\ \A p \in Loop : WF_schedulerVars(TakeLead(p)) /\ WF_schedulerVars(TickerStep(p))
    /\ WF_schedulerVars(LeaseOfNoReplicaLapses)

SchedulerSpec == SchedulerInit /\ [][SchedulerNext]_schedulerVars

-----------------------------------------------------------------------------

SchedulerTypeOK ==
    /\ clock \in 0..Horizon
    /\ schedule \in [Schedule -> ScheduleRow]
    /\ rule \in [Rule -> RuleRow]
    /\ event \in [Event -> {"none", "pending", "processed", "failed"}]
    /\ dispatched \in [Occurrence \X Table -> Seq(Command)]
    /\ lease \in LeaseRow
    /\ ticker \in [Process -> TickerState]
    /\ edits \in 0..EditBound
    /\ mishaps \in 0..MishapBound
    /\ owed \in [Event -> SUBSET Rule]

WasDispatched(k) == \E t \in Table : dispatched[<<k, t>>] # <<>>

\* However ticks overlap, and although a stale mark may set next_run_at back to a slot
\* that is over, one slot of a schedule, and one rule for one event, is dispatched at
\* most once; no slot before its time, no event before it was emitted (tick, the keys
\* of _dispatch). Only an edit that exchanges an agent for a workflow has it dispatched
\* as a task and as a run.
OccurrencesAreSingle ==
    \A k \in Occurrence :
        /\ \A t \in Table : Len(dispatched[<<k, t>>]) <= 1
        /\ edits = 0 => \E t \in Table : dispatched[<<k, t>>] = <<>>
        /\ WasDispatched(k) =>
              /\ k \in Schedule \X Slot => k[2] <= clock
              /\ k \in Event \X Rule => event[k[1]] # "none"

\* A tick that had read another slot of s, or other settings, is about to mark s.
StaleMark(s) ==
    \E p \in Process : \E o \in ticker[p].order :
        ticker[p].at = "mark" /\ o.key[1] = s /\ o.key[2] # schedule[s].slot

\* Nothing that is due disappears in silence: a due slot that is given up without a
\* dispatch leaves an error in its schedule, unless an edit or the outdated mark of a
\* slow tick took its place; and an event is called processed only when it has been
\* dispatched for every rule that selected it from its emission on, whoever processed it
\* beside and whatever was edited (mark_schedule_run, finish_event).
NothingDueIsDropped ==
    [][/\ \A s \in Schedule :
            /\ IsDue(s) /\ schedule'[s].slot # schedule[s].slot
            /\ ~ WasDispatched(<<s, schedule[s].slot>>)
            => schedule'[s].failed \/ edits' # edits \/ StaleMark(s)
       /\ \A e \in Event :
            event'[e] = "processed" /\ event[e] # "processed"
            => \A r \in owed[e] : WasDispatched(<<e, r>>)]_schedulerVars

\* A replica gets to every pending event and to every due slot, whoever dies with the
\* lease or hangs on to it (loop, acquire_service_lease).
DueIsReached ==
    /\ \A e \in Event : event[e] = "pending" ~> event[e] # "pending"
    /\ \A s \in Schedule : IsDue(s) ~> ~ IsDue(s)
=============================================================================
