---------------------------- MODULE MCTaskQueue ----------------------------
(* Instances of TaskQueue for TLC. *)
EXTENDS TaskQueue, TLC

CONSTANTS t1, t2

\* t1 mutates and needs an approval, t2 does not; t2 is more urgent.
MCRequest ==
    t1 :> [priority |-> 0, budget |-> 2, required |-> 1, mutating |-> TRUE] @@
    t2 :> [priority |-> 1, budget |-> 1, required |-> 0, mutating |-> FALSE]

\* One task that needs one approval.
MCSingleGateRequest ==
    [t \in Tasks |-> [priority |-> 0, budget |-> 2, required |-> 1, mutating |-> TRUE]]

\* Tasks that need no approval.
MCOpenRequest ==
    [t \in Tasks |-> [priority |-> 0, budget |-> 2, required |-> 0, mutating |-> FALSE]]

Symmetry == Permutations(Workers) \union Permutations(Clients) \union Permutations(Actors)
=============================================================================
