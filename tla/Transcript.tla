----------------------------- MODULE Transcript -----------------------------
(***************************************************************************)
(* What the conversations of a workspace promise whoever reads them: each  *)
(* is a list that only grows at its end, one message at a time, where a    *)
(* reply names a message that stands before it; it is deleted as a whole,  *)
(* and not at all under a hold, and no message of it ever comes back.      *)
(***************************************************************************)
EXTENDS Sequences

CONSTANTS Chat, Message, NoMessage

VARIABLES
    phase,  \* phase[c]: "none", "open", "held" (under a hold) or "deleted"
    log,    \* log[c]: the messages of c in order, each with the one it replies to
    used    \* messages there are, or have been

vars == <<phase, log, used>>

Init ==
    /\ phase = [c \in Chat |-> "none"]
    /\ log = [c \in Chat |-> <<>>]
    /\ used = {}

Create(c) ==
    /\ phase[c] = "none"
    /\ phase'[c] \in {"open", "held"}
    /\ phase' = [phase EXCEPT ![c] = phase'[c]]
    /\ UNCHANGED <<log, used>>

Post(c, m) ==
    /\ phase[c] \in {"open", "held"}
    /\ m \notin used
    /\ \E parent \in {NoMessage} \union {log[c][i].message : i \in DOMAIN log[c]} :
          log' = [log EXCEPT ![c] = Append(@, [message |-> m, parent |-> parent])]
    /\ used' = used \union {m}
    /\ UNCHANGED phase

Delete(c) ==
    /\ phase[c] = "open"
    /\ phase' = [phase EXCEPT ![c] = "deleted"]
    /\ log' = [log EXCEPT ![c] = <<>>]
    /\ UNCHANGED used

Next ==
    \E c \in Chat :
        \/ Create(c)
        \/ \E m \in Message : Post(c, m)
        \/ Delete(c)

Spec == Init /\ [][Next]_vars
=============================================================================
