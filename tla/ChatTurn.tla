------------------------------ MODULE ChatTurn ------------------------------
(***************************************************************************)
(* What the action ProviderChat of TaskQueue stands for: a turn of an      *)
(* execution checks the budgets (db_finops.py), asks the providers of its  *)
(* tier in the order of their priority, passing over those whose circuit   *)
(* is open (ProviderPool.chat), and records the usage.                     *)
(*                                                                         *)
(* Every statement commits by itself, on SQLite as on PostgreSQL, so that  *)
(* the turns of several workers interleave between any two.                *)
(***************************************************************************)
EXTENDS Integers, FiniteSets

CONSTANTS
    Execution,      \* executions of tasks, each a worker thread of some process
    Scope,          \* budgets: of a tenant, a department, an agent
    ScopesOf,       \* ScopesOf[e]: the budgets that e counts against
    Limits,         \* credits an administrator may set as a limit
    MaxCost,        \* the most a turn may cost
    ProviderCount,  \* providers with a model for the tier, numbered by priority
    Threshold,      \* provider_circuit_failures
    TurnDeathBound  \* bound: turns that die

ASSUME TurnAssumption ==
    /\ IsFiniteSet(Execution)
    /\ ScopesOf \in [Execution -> SUBSET Scope]
    /\ Limits \subseteq Nat
    /\ MaxCost \in Nat
    /\ ProviderCount \in Nat
    /\ Threshold \in Nat \ {0}
    /\ TurnDeathBound \in Nat

VARIABLES
    spent,    \* spent[s]: the usage recorded under s in its period
    limit,    \* limit[s]: the row of the budget
    ceiling,  \* history: the highest limit s has had
    health,   \* health[p]: the row of p in provider_health2
    turn,     \* turn[e]: the locals of the turn e is in
    turnDeaths

turnVars == <<spent, limit, ceiling, health, turn, turnDeaths>>

Provider == 1..ProviderCount

\* Counts from Threshold on are not told apart.
Health == [failures : 0..Threshold, open : BOOLEAN]

\* left, limit: the budgets still to check, and the limits read; rank: the provider
\* it has come to; count: the consecutive failures it is about to store.
Turn == [at : {"idle", "budget", "pick", "calling", "answered", "failed", "counted", "usage"},
         left : SUBSET Scope, limit : [Scope -> Nat],
         rank : 1..ProviderCount + 1, count : 0..Threshold]

NoLimit == [s \in Scope |-> 0]

NoTurn == [at |-> "idle", left |-> {}, limit |-> NoLimit, rank |-> 1, count |-> 0]

MoveOn(e, local) ==
    /\ turn' = [turn EXCEPT ![e] = local]
    /\ UNCHANGED <<spent, limit, ceiling, turnDeaths>>

-----------------------------------------------------------------------------
(***************************************************************************)
(* The budgets.                                                            *)
(***************************************************************************)
\* budget_violation reads all limits at once, and then each sum by itself.
BeginTurn(e) ==
    /\ turn[e].at = "idle"
    /\ IF ScopesOf[e] = {}
       THEN MoveOn(e, [NoTurn EXCEPT !.at = "pick"])
       ELSE MoveOn(e, [NoTurn EXCEPT !.at = "budget", !.left = ScopesOf[e], !.limit = limit])
    /\ UNCHANGED health

\* Defect: what is spent may reach the limit.
ExhaustedBeyond(e, s) == spent[s] > turn[e].limit[s]

Exhausted(e, s) == spent[s] >= turn[e].limit[s]

PassBudget(e, s) ==
    /\ turn[e].at = "budget"
    /\ s \in turn[e].left
    /\ ~Exhausted(e, s)
    /\ IF turn[e].left = {s}
       THEN MoveOn(e, [NoTurn EXCEPT !.at = "pick"])
       ELSE MoveOn(e, [turn[e] EXCEPT !.left = @ \ {s}])
    /\ UNCHANGED health

\* RuntimeError: the task fails.
MeetLimit(e, s) ==
    /\ turn[e].at = "budget"
    /\ s \in turn[e].left
    /\ Exhausted(e, s)
    /\ MoveOn(e, NoTurn)
    /\ UNCHANGED health

SetBudget(s, n) ==
    /\ limit' = [limit EXCEPT ![s] = n]
    /\ ceiling' = [ceiling EXCEPT ![s] = IF n > @ THEN n ELSE @]
    /\ UNCHANGED <<spent, health, turn, turnDeaths>>

\* Midnight, or the first of the month.
NewPeriod(s) ==
    /\ spent' = [spent EXCEPT ![s] = 0]
    /\ UNCHANGED <<limit, ceiling, health, turn, turnDeaths>>

\* record_usage: one event, which counts under every budget of the agent.
RecordUsage(e) ==
    /\ turn[e].at = "usage"
    /\ \E cost \in 0..MaxCost :
          spent' = [s \in Scope |-> IF s \in ScopesOf[e] THEN spent[s] + cost ELSE spent[s]]
    /\ turn' = [turn EXCEPT ![e] = NoTurn]
    /\ UNCHANGED <<limit, ceiling, health, turnDeaths>>

-----------------------------------------------------------------------------
(***************************************************************************)
(* The providers and their circuits.                                       *)
(***************************************************************************)
Pick(e) ==
    /\ turn[e].at = "pick"
    /\ turn[e].rank \in Provider
    /\ IF health[turn[e].rank].open
       THEN MoveOn(e, [turn[e] EXCEPT !.rank = @ + 1])
       ELSE MoveOn(e, [turn[e] EXCEPT !.at = "calling"])
    /\ UNCHANGED health

\* ProviderError: all of them failed, or have their circuit open.
GiveUp(e) ==
    /\ turn[e].at = "pick"
    /\ turn[e].rank \notin Provider
    /\ MoveOn(e, NoTurn)
    /\ UNCHANGED health

Respond(e) ==
    /\ turn[e].at = "calling"
    /\ \E outcome \in {"answered", "failed"} : MoveOn(e, [turn[e] EXCEPT !.at = outcome])
    /\ UNCHANGED health

RecordSuccess(e) ==
    /\ turn[e].at = "answered"
    /\ health' = [health EXCEPT ![turn[e].rank] = [failures |-> 0, open |-> FALSE]]
    /\ MoveOn(e, [NoTurn EXCEPT !.at = "usage"])

\* Defect: the failure at hand is not counted.
FailuresBefore(p) == health[p].failures

FailuresWith(p) ==
    IF health[p].failures < Threshold THEN health[p].failures + 1 ELSE Threshold

\* record_provider_failure, the SELECT ...
CountFailures(e) ==
    /\ turn[e].at = "failed"
    /\ MoveOn(e, [turn[e] EXCEPT !.at = "counted", !.count = FailuresWith(turn[e].rank)])
    /\ UNCHANGED health

\* ... and the INSERT ... ON CONFLICT DO UPDATE, whatever the row has become: below
\* the threshold it closes a circuit that others have opened.
RecordFailure(e) ==
    /\ turn[e].at = "counted"
    /\ health' = [health EXCEPT ![turn[e].rank] =
          [failures |-> turn[e].count, open |-> turn[e].count >= Threshold]]
    /\ MoveOn(e, [turn[e] EXCEPT !.at = "pick", !.rank = @ + 1, !.count = 0])

\* open_until passes.
CircuitCloses(p) ==
    /\ health[p].open
    /\ health' = [health EXCEPT ![p].open = FALSE]
    /\ UNCHANGED <<spent, limit, ceiling, turn, turnDeaths>>

\* The worker dies, or the database raises.
TurnDies(e) ==
    /\ turn[e].at # "idle"
    /\ turnDeaths < TurnDeathBound
    /\ turnDeaths' = turnDeaths + 1
    /\ turn' = [turn EXCEPT ![e] = NoTurn]
    /\ UNCHANGED <<spent, limit, ceiling, health>>

-----------------------------------------------------------------------------
TurnInit ==
    /\ spent = [s \in Scope |-> 0]
    /\ limit \in [Scope -> Limits]
    /\ ceiling = limit
    /\ health = [p \in Provider |-> [failures |-> 0, open |-> FALSE]]
    /\ turn = [e \in Execution |-> NoTurn]
    /\ turnDeaths = 0

\* What a turn does by itself, once it has begun.
TurnStep(e) ==
    \/ \E s \in Scope : PassBudget(e, s) \/ MeetLimit(e, s)
    \/ Pick(e) \/ GiveUp(e) \/ Respond(e)
    \/ RecordSuccess(e) \/ CountFailures(e) \/ RecordFailure(e) \/ RecordUsage(e)

TurnNext ==
    \/ \E e \in Execution : BeginTurn(e) \/ TurnStep(e) \/ TurnDies(e)
    \/ \E s \in Scope : NewPeriod(s) \/ \E n \in Limits : SetBudget(s, n)
    \/ \E p \in Provider : CircuitCloses(p)

\* A turn that has begun goes on: endpoints have time-outs.
TurnFairness == \A e \in Execution : WF_turnVars(TurnStep(e))

TurnSpec == TurnInit /\ [][TurnNext]_turnVars /\ TurnFairness

-----------------------------------------------------------------------------
(***************************************************************************)
(* Properties.                                                             *)
(***************************************************************************)
TurnTypeOK ==
    /\ spent \in [Scope -> Nat]
    /\ limit \in [Scope -> Nat]
    /\ ceiling \in [Scope -> Nat]
    /\ health \in [Provider -> Health]
    /\ turn \in [Execution -> Turn]
    /\ turnDeaths \in Nat

\* The executions that count against s.
Spenders(s) == {e \in Execution : s \in ScopesOf[e]}

\* The check and the record of a turn are far apart, so that executions which check
\* together overspend together; but each by one turn at most: a budget is never
\* exceeded by more than a turn of each execution that counts against it, however
\* often the limit is changed and whatever is in flight when the period ends.
SpendIsBounded ==
    \A s \in Scope :
        spent[s] = 0 \/ spent[s] < ceiling[s] + MaxCost * Cardinality(Spenders(s))

\* n failures of p in a row are on record, and no turn is about to store fewer.
AtLeast(p, n) ==
    /\ health[p].failures >= n
    /\ \A e \in Execution : turn[e].at = "counted" /\ turn[e].rank = p => turn[e].count >= n

\* The row of a provider is read and written in two statements, but the count is only
\* set back by a success or by a turn that had read it before: what is on record, with
\* no older count in flight, stays.
FailuresAreKept ==
    [][\A p \in Provider, n \in 1..Threshold : AtLeast(p, n) =>
          \/ AtLeast(p, n)'
          \/ \E e \in Execution : turn[e].at = "answered" /\ turn[e].rank = p]_turnVars

\* Failures that overlap store the same count, and a slow one sets back what others
\* have counted meanwhile; all the same a provider that is asked and does nothing but
\* fail has its circuit opened again and again, so that turns pass it over.
DownProviderIsLeftAlone ==
    \A p \in Provider :
        /\ <>[](\A e \in Execution : ~(turn[e].at = "answered" /\ turn[e].rank = p))
        /\ []<>(\E e \in Execution : turn[e].at = "failed" /\ turn[e].rank = p)
        => []<>health[p].open
=============================================================================
