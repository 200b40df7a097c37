----------------------------- MODULE MCOperator -----------------------------
(* Two requests in service, one of them a pipeline's, and one plan. *)
EXTENDS OperatorSession

CONSTANTS h1, h2, p1
=============================================================================
