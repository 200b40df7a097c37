---------------------------- MODULE BrowserEffect ----------------------------
(***************************************************************************)
(* Approved browser mutations: the ledger of zWorkforce                    *)
(* (db_browser_effects.py behind browser_effect_api.py) and the calls of   *)
(* zider's executor (browser_effects.py) that drive it over HTTP.          *)
(*                                                                         *)
(* A request is handled at most once, and possibly after its caller gave   *)
(* up; it and its answer may be lost.  A call may be cancelled at every    *)
(* await, its process may die, and the action it handed to the browser may *)
(* take effect after the call stopped waiting for it.                      *)
(***************************************************************************)
EXTENDS Integers

CONSTANTS
    Calls,      \* calls of run_claw_task for one mutating action each
    Keys,       \* idempotency keys; one effect row per key (the tenant is fixed)
    Actions,    \* bindings (SHA-256 digests) of actions
    Approvals,  \* approval tasks
    Key,        \* Key[a]: the idempotency key of action a
    ActionOf,     \* ActionOf[c]: what call c is to do
    Token,      \* Token[c]: the approval task c was given
    Bound,      \* Bound[p]: the action approval task p was requested for
    NoAction, NoApproval

ASSUME ConstantsAssumption ==
    /\ Key \in [Actions -> Keys]
    /\ ActionOf \in [Calls -> Actions]
    /\ Token \in [Calls -> Approvals]
    /\ Bound \in [Approvals -> Actions]
    /\ NoAction \notin Actions
    /\ NoApproval \notin Approvals

VARIABLES
    effect,    \* effect[k]: the row of key k
    approval,  \* approval[p]: what the ledger's checks see of task p
    call,      \* call[c]: where call c waits
    requests,  \* requests on their way to the control plane
    browser    \* browser[c]: the delegate's work for c

vars == <<effect, approval, call, requests, browser>>

Closed == {"succeeded", "failed", "unknown", "canceled"}

Row == [status : {"none", "not_started", "executing"} \union Closed,
        action : Actions \union {NoAction}, approval : Approvals \union {NoApproval}]

NoRow == [status |-> "none", action |-> NoAction, approval |-> NoApproval]

\* "valid": approved by a quorum, nobody rejected, no cancel requested, neither
\* canceled nor failed nor dead-lettered; "withdrawn": approved once.
Approval == {"pending", "refused", "valid", "withdrawn"}

Call == {"idle", "begin", "claim", "perform", "returned", "finish", "cleanup",
         "ok", "failed"}

\* A finish request is named by the status it asks for.
Request == Calls \X {"begin", "claim", "succeeded", "unknown", "canceled"}

KeyOf(c) == Key[ActionOf[c]]

-----------------------------------------------------------------------------
(***************************************************************************)
(* The call.                                                               *)
(***************************************************************************)
Leave(c, pc) ==
    /\ call' = [call EXCEPT ![c] = pc]
    /\ UNCHANGED <<effect, approval, requests, browser>>

Send(c, pc, request) ==
    /\ call' = [call EXCEPT ![c] = pc]
    /\ requests' = requests \union {<<c, request>>}
    /\ UNCHANGED <<effect, approval, browser>>

\* _authorize_mutation, then execute up to its first await.
Start(c) ==
    /\ call[c] = "idle"
    /\ approval[Token[c]] = "valid"
    /\ Bound[Token[c]] = ActionOf[c]
    /\ Send(c, "begin", "begin")

\* The request of c is handled, and c, if it still waits for it, gets the answer
\* and moves on to pc with its next request; or the answer is lost.
Answer(c, request, awaited, pc, next) ==
    \/ /\ call[c] = awaited
       /\ call' = [call EXCEPT ![c] = pc]
       /\ requests' = (requests \ {<<c, request>>}) \union next
    \/ /\ UNCHANGED call
       /\ requests' = requests \ {<<c, request>>}

\* begin_browser_effect: the row of the key is created unless the key or the
\* approval has one; the call goes on to claim a row that is its own and
\* not_started, and reports a success it finds.
HandleBegin(c) ==
    LET k == KeyOf(c)
        usable == approval[Token[c]] = "valid"
        free == effect[k] = NoRow /\ \A j \in Keys : effect[j].approval # Token[c]
        row == IF usable /\ free
               THEN [status |-> "not_started", action |-> ActionOf[c], approval |-> Token[c]]
               ELSE effect[k]
        mine == usable /\ row.action = ActionOf[c] /\ row.approval = Token[c]
    IN  /\ <<c, "begin">> \in requests
        /\ effect' = [effect EXCEPT ![k] = row]
        /\ IF mine /\ row.status = "not_started"
           THEN Answer(c, "begin", "begin", "claim", {<<c, "claim">>})
           ELSE Answer(c, "begin", "begin",
                       IF mine /\ row.status = "succeeded" THEN "ok" ELSE "failed", {})
        /\ UNCHANGED <<approval, browser>>

\* Defect: an effect under execution may be claimed again.
ClaimableEffectAgain(k) == /\ effect[k].status \in {"not_started", "executing"}
                     /\ approval[effect[k].approval] = "valid"

ClaimableEffect(k) == /\ effect[k].status = "not_started"
                /\ approval[effect[k].approval] = "valid"

\* claim_browser_effect: one UPDATE that checks the status and the approval.  The
\* call that learns it won hands the action to the browser.
HandleClaim(c) ==
    LET k == KeyOf(c)
    IN  /\ <<c, "claim">> \in requests
        /\ IF ClaimableEffect(k)
           THEN /\ effect' = [effect EXCEPT ![k].status = "executing"]
                /\ Answer(c, "claim", "claim", "perform", {})
                /\ browser' = IF call'[c] = "perform"
                              THEN [browser EXCEPT ![c] = "invoked"] ELSE browser
           ELSE /\ Answer(c, "claim", "claim", "failed", {})
                /\ UNCHANGED <<effect, browser>>
        /\ UNCHANGED approval

\* The browser carries the action out, whether or not the call still waits.
Act(c) ==
    /\ browser[c] = "invoked"
    /\ browser' = [browser EXCEPT ![c] = "acted"]
    /\ UNCHANGED <<effect, approval, call, requests>>

\* delegate.execute returns a result.
Return(c) ==
    /\ call[c] = "perform"
    /\ browser[c] = "acted"
    /\ Leave(c, "returned")

\* cancel_checker: a cancellation it sees quarantines the effect; one it fails to
\* fetch counts as none.
Check(c) ==
    /\ call[c] = "returned"
    /\ \/ approval[Token[c]] = "withdrawn" /\ Send(c, "cleanup", "unknown")
       \/ Send(c, "finish", "succeeded")

\* Defect: the outcome is recorded whatever the status.
RecordedAnyway(row, outcome) == [row EXCEPT !.status = outcome]

\* finish_browser_effect, the row after its UPDATE.
Recorded(row, outcome) ==
    IF row.status = "executing" THEN [row EXCEPT !.status = outcome] ELSE row

HandleFinish(c, outcome) ==
    LET k == KeyOf(c)
    IN  /\ <<c, outcome>> \in requests
        /\ outcome \in Closed
        /\ effect' = [effect EXCEPT ![k] = Recorded(@, outcome)]
        /\ IF outcome # "succeeded" THEN Answer(c, outcome, "cleanup", "failed", {})
           ELSE IF effect[k].status = "executing"
           THEN Answer(c, outcome, "finish", "ok", {})
           ELSE Answer(c, outcome, "finish", "cleanup", {<<c, "unknown">>})
        /\ UNCHANGED <<approval, browser>>

\* An exception reaches the call: the control plane cannot be reached or does not
\* answer in time, the browser fails, or it returns something that is no result.
Fault(c) ==
    \/ call[c] \in {"begin", "claim", "cleanup"} /\ Leave(c, "failed")
    \/ call[c] \in {"perform", "finish"} /\ Send(c, "cleanup", "unknown")

\* CancelledError reaches the call, by wait_for's timeout for one.
Cancel(c) ==
    \/ call[c] \in {"begin", "returned", "cleanup"} /\ Leave(c, "failed")
    \/ call[c] = "claim" /\ Send(c, "cleanup", "canceled")
    \/ call[c] \in {"perform", "finish"} /\ Send(c, "cleanup", "unknown")

\* The process of the call dies.
CallDies(c) ==
    /\ call[c] \notin {"idle", "ok", "failed"}
    /\ Leave(c, "failed")

Lose(request) ==
    /\ request \in requests
    /\ requests' = requests \ {request}
    /\ UNCHANGED <<effect, approval, call, browser>>

-----------------------------------------------------------------------------
\* reconcile_browser_effect: an administrator settles an unknown outcome.
Reconcile(k, outcome) ==
    /\ effect[k].status = "unknown"
    /\ effect' = [effect EXCEPT ![k].status = outcome]
    /\ UNCHANGED <<approval, call, requests, browser>>

\* The approval task: decided; canceled, failed; retried.
Approve(p, from, to) ==
    /\ approval[p] = from
    /\ approval' = [approval EXCEPT ![p] = to]
    /\ UNCHANGED <<effect, call, requests, browser>>

-----------------------------------------------------------------------------
Init ==
    /\ effect = [k \in Keys |-> NoRow]
    /\ approval = [p \in Approvals |-> "pending"]
    /\ call = [c \in Calls |-> "idle"]
    /\ requests = {}
    /\ browser = [c \in Calls |-> "unused"]

Next ==
    \/ \E c \in Calls :
          \/ Start(c) \/ HandleBegin(c) \/ HandleClaim(c) \/ Act(c) \/ Return(c)
          \/ Check(c) \/ Fault(c) \/ Cancel(c) \/ CallDies(c)
          \/ \E outcome \in Closed : HandleFinish(c, outcome)
    \/ \E request \in requests : Lose(request)
    \/ \E k \in Keys, outcome \in {"succeeded", "failed"} : Reconcile(k, outcome)
    \/ \E p \in Approvals :
          \/ Approve(p, "pending", "valid") \/ Approve(p, "pending", "refused")
          \/ Approve(p, "valid", "withdrawn") \/ Approve(p, "withdrawn", "valid")

Spec == Init /\ [][Next]_vars

-----------------------------------------------------------------------------
(***************************************************************************)
(* Properties.                                                             *)
(***************************************************************************)
TypeOK ==
    /\ effect \in [Keys -> Row]
    /\ approval \in [Approvals -> Approval]
    /\ call \in [Calls -> Call]
    /\ requests \subseteq Request
    /\ browser \in [Calls -> {"unused", "invoked", "acted"}]

\* What the browser did is what somebody approved, and an approval is good for
\* doing it once: a call acts only for the row that names its own action and its
\* own approval task, which was requested for that action and was approved, and
\* no second call acts under the same approval task or the same key, whatever was
\* retried, lost, delayed or cancelled.
ActedAsApproved ==
    \A c \in Calls : browser[c] = "acted" =>
        /\ Bound[Token[c]] = ActionOf[c]
        /\ effect[KeyOf(c)].action = ActionOf[c]
        /\ effect[KeyOf(c)].approval = Token[c]
        /\ approval[Token[c]] \in {"valid", "withdrawn"}
        /\ \A d \in Calls \ {c} : browser[d] = "acted" =>
               Token[d] # Token[c] /\ KeyOf(d) # KeyOf(c)

\* The ledger and the browser together are the abstract ledger: the lifecycle of
\* the documentation, no effect performed twice or before it was claimed, no
\* success recorded of an effect nobody performed, no outcome overwritten.
effectStatus == [k \in Keys |-> effect[k].status]
performers == [k \in Keys |-> {c \in Calls : KeyOf(c) = k /\ browser[c] = "acted"}]

Ledger == INSTANCE EffectLedger WITH
    Effects <- Keys, Performers <- Calls, status <- effectStatus
ImplementsLedger == Ledger!Spec

\* The comment of the executor: a claim that was cancelled may have committed, but
\* "browser execution has not started yet", so "canceled is a safe terminal state".
CanceledIsSafe ==
    \A c \in Calls : effect[KeyOf(c)].status = "canceled" => browser[c] # "acted"

\* What is true of it: the effect of a call that acted is recorded as canceled only
\* on behalf of another call, which was given the same action and the same approval
\* and for which the browser did nothing.
CanceledByAnother ==
    \A c \in Calls : effect[KeyOf(c)].status = "canceled" /\ browser[c] = "acted" =>
        \E d \in Calls \ {c} :
            <<ActionOf[d], Token[d], browser[d]>> = <<ActionOf[c], Token[c], "unused">>
=============================================================================
