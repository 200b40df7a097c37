----------------------------- MODULE MCWorkflow -----------------------------
(* Instances of Workflow for TLC. *)
EXTENDS Workflow

\* Step 3 needs 1 and 2 and quotes them.
MCJoin == [s \in Steps |-> IF s = 3 THEN {1, 2} ELSE {}]

\* Step 2 needs 1 and quotes it.
MCChain == [s \in Steps |-> IF s = 2 THEN {1} ELSE {}]

MCNone == {}
MCRefused == {<<1, 1>>}
=============================================================================
