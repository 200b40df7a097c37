----------------------------- MODULE AuditChain -----------------------------
(***************************************************************************)
(* The audit chain of a tenant (db_governance.py): every event carries the *)
(* hash of the one before it, and verify_audit_chain walks the table by id *)
(* and expects to find it so.                                              *)
(*                                                                         *)
(* On SQLite, BEGIN IMMEDIATE makes an audit one step.  On PostgreSQL the  *)
(* compatibility layer turns it into BEGIN, under READ COMMITTED: the head *)
(* is read, the row is inserted, and it is seen by others when it commits. *)
(***************************************************************************)
EXTENDS Integers, FiniteSets

CONSTANTS
    Auditor,       \* handlers, workers and ticks that audit what they did
    AuditBackends, \* the backends the table may be kept on
    EventBound     \* bound: ids taken from the table

ASSUME AuditAssumption ==
    /\ IsFiniteSet(Auditor)
    /\ AuditBackends \subseteq {"sqlite", "postgres"}
    /\ EventBound \in Nat

VARIABLES
    backend,  \* where the table is; it stays there
    events,   \* committed rows; the hash of a row is told apart by its id
    lastId,   \* the sequence of the table
    auditor   \* auditor[a]: an open transaction

auditVars == <<backend, events, lastId, auditor>>

Event == [id : Nat \ {0}, prev : Nat]

\* head: the hash it links to, 0 for none; id: the row it inserted, 0 for none.
Transaction == [at : {"idle", "insert", "commit"}, head : Nat, id : Nat]

NoAudit == [at |-> "idle", head |-> 0, id |-> 0]

\* Defect: the rows are not ordered.
IsHeadOrOther(h) == h \in {0} \union {e.id : e \in events}

\* ORDER BY id DESC LIMIT 1, of the rows it can see.
IsHead(h) ==
    /\ h \in {0} \union {e.id : e \in events}
    /\ \A e \in events : e.id <= h

-----------------------------------------------------------------------------
AuditInit ==
    /\ backend \in AuditBackends
    /\ events = {}
    /\ lastId = 0
    /\ auditor = [a \in Auditor |-> NoAudit]

\* audit on SQLite.
Audit(a) ==
    /\ backend = "sqlite"
    /\ lastId < EventBound
    /\ \E h \in 0..lastId :
          /\ IsHead(h)
          /\ events' = events \union {[id |-> lastId + 1, prev |-> h]}
    /\ lastId' = lastId + 1
    /\ UNCHANGED <<backend, auditor>>

\* audit on PostgreSQL: the SELECT of the head, the INSERT, the COMMIT.
ReadHead(a) ==
    /\ backend = "postgres"
    /\ auditor[a].at = "idle"
    /\ \E h \in 0..lastId :
          /\ IsHead(h)
          /\ auditor' = [auditor EXCEPT ![a] = [at |-> "insert", head |-> h, id |-> 0]]
    /\ UNCHANGED <<backend, events, lastId>>

InsertEvent(a) ==
    /\ auditor[a].at = "insert"
    /\ lastId < EventBound
    /\ lastId' = lastId + 1
    /\ auditor' = [auditor EXCEPT
          ![a] = [at |-> "commit", head |-> auditor[a].head, id |-> lastId + 1]]
    /\ UNCHANGED <<backend, events>>

CommitEvent(a) ==
    /\ auditor[a].at = "commit"
    /\ events' = events \union {[id |-> auditor[a].id, prev |-> auditor[a].head]}
    /\ auditor' = [auditor EXCEPT ![a] = NoAudit]
    /\ UNCHANGED <<backend, lastId>>

\* The connection is lost: the row is rolled back, its id stays taken.
AuditLost(a) ==
    /\ auditor[a].at # "idle"
    /\ auditor' = [auditor EXCEPT ![a] = NoAudit]
    /\ UNCHANGED <<backend, events, lastId>>

AuditNext ==
    \E a \in Auditor :
        \/ Audit(a) \/ ReadHead(a) \/ InsertEvent(a) \/ CommitEvent(a) \/ AuditLost(a)

AuditSpec == AuditInit /\ [][AuditNext]_auditVars

-----------------------------------------------------------------------------
AuditTypeOK ==
    /\ backend \in AuditBackends
    /\ events \subseteq Event
    /\ lastId \in Nat
    /\ auditor \in [Auditor -> Transaction]

Linked(h) == {e \in events : e.prev = h}

\* How wrong the chain can get.  A head that several transactions have read is linked
\* to by each of them, so that the chain forks; but whoever reads after one of them
\* has committed reads on.  However audits overlap, get lost or commit in another
\* order than their ids, every event keeps its own id and links back to one that is
\* there, and a fork has no more branches than there are auditors: one on SQLite.
ForksAreNarrow ==
    /\ \A e \in events :
          /\ e.prev \in {0} \union {f.id : f \in events}
          /\ e.prev < e.id
          /\ \A f \in events : f.id = e.id => f = e
    /\ \A h \in 0..lastId :
          Cardinality(Linked(h)) <= IF backend = "sqlite" THEN 1 ELSE Cardinality(Auditor)

\* verify_audit_chain answers ok: nobody touched the table but audit, so every row
\* links to the one just before it, and the first to none.
ChainVerifies ==
    \A e \in events :
        /\ e.prev \in {0} \union {f.id : f \in events}
        /\ e.prev < e.id
        /\ \A f \in events : ~(e.prev < f.id /\ f.id < e.id)
=============================================================================
