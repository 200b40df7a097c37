---------------------------- MODULE EffectLedger ----------------------------
(***************************************************************************)
(* What the browser-effect ledger promises (docs/BROWSER-EFFECTS.md): an   *)
(* effect goes from not_started to executing once, is performed at most    *)
(* once and only after that, and its outcome is written once; only an      *)
(* unknown outcome is ever revised.                                        *)
(***************************************************************************)
CONSTANTS Effects, Performers

VARIABLES
    status,     \* status[k]: the ledger's record of effect k
    performers  \* performers[k]: those who carried k out in the outside world

vars == <<status, performers>>

Init ==
    /\ status = [k \in Effects |-> "none"]
    /\ performers = [k \in Effects |-> {}]

Move(k, from, to) ==
    /\ status[k] = from
    /\ status' = [status EXCEPT ![k] = to]
    /\ UNCHANGED performers

Begin(k) == Move(k, "none", "not_started")
Claim(k) == Move(k, "not_started", "executing")

Perform(k, p) ==
    /\ status[k] \notin {"none", "not_started"}
    /\ performers[k] = {}
    /\ performers' = [performers EXCEPT ![k] = {p}]
    /\ UNCHANGED status

\* Success is only recorded of an effect that was performed.
Close(k, outcome) ==
    /\ outcome = "succeeded" => performers[k] # {}
    /\ Move(k, "executing", outcome)

Reconcile(k, outcome) == Move(k, "unknown", outcome)

Next ==
    \E k \in Effects :
        \/ Begin(k)
        \/ Claim(k)
        \/ \E p \in Performers : Perform(k, p)
        \/ \E outcome \in {"succeeded", "failed", "unknown", "canceled"} : Close(k, outcome)
        \/ \E outcome \in {"succeeded", "failed"} : Reconcile(k, outcome)

Spec == Init /\ [][Next]_vars
=============================================================================
