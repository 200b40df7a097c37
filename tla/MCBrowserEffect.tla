--------------------------- MODULE MCBrowserEffect ---------------------------
(* Instances of BrowserEffect for TLC. *)
EXTENDS BrowserEffect, TLC

CONSTANTS c1, c2, c3, a1, a2, k1, p1, p2

\* c1 and c2 are two tries of one action under one approval; c3 is another action
\* that was given the same key, with an approval of its own.
MCKey == (a1 :> k1) @@ (a2 :> k1)
MCAction == [c \in Calls |-> IF c = c3 THEN a2 ELSE a1]
MCToken == [c \in Calls |-> IF c = c3 THEN p2 ELSE p1]
MCBound == (p1 :> a1) @@ (p2 :> a2)
=============================================================================
