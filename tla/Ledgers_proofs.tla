--------------------------- MODULE Ledgers_proofs ---------------------------
(***************************************************************************)
(* Proofs about four ledgers of the Python service: BrowserEffect (types,  *)
(* that the browser does only what was approved and does it once, that     *)
(* ledger and browser together implement the abstract ledger, and on       *)
(* whose behalf an effect is canceled), then Conversation (the order and   *)
(* the permanence of transcripts, and that they implement the abstract     *)
(* ones), then AuditChain (how wide it forks, and that it is unbroken on   *)
(* SQLite), then ChatTurn (how far a budget is overspent, and what         *)
(* becomes of counted failures).                                           *)
(***************************************************************************)
EXTENDS BrowserEffect, Conversation, AuditChain, ChatTurn, FiniteSetTheorems,
        SequenceTheorems, TLAPS

(***************************************************************************)
(* The browser-effect ledger.                                              *)
(***************************************************************************)
Granted == {"valid", "withdrawn"}

\* A row names an action of its key and an approval that was granted; two rows
\* do not share an approval.
RowsOK ==
    /\ \A k \in Keys : effect[k].status # "none" =>
          /\ effect[k].approval \in Approvals
          /\ approval[effect[k].approval] \in Granted
    /\ \A k \in Keys : effect[k].status = "none" => effect[k] = NoRow
    /\ \A j, k \in Keys :
          effect[j].approval = effect[k].approval /\ effect[k].status # "none" => j = k

\* The row of c's key was created for c's action and c's approval.
Owned(c) ==
    /\ effect[KeyOf(c)].status # "none"
    /\ effect[KeyOf(c)].action = ActionOf[c]
    /\ effect[KeyOf(c)].approval = Token[c]

\* A call that started holds the right approval, and has claimed, or may claim,
\* only a row of its own.
CallFine(c) ==
    /\ call[c] # "idle" => Bound[Token[c]] = ActionOf[c]
    /\ call[c] = "claim" => Owned(c)
    /\ <<c, "claim">> \in requests => Owned(c)
    /\ call[c] = "perform" => browser[c] # "unused"
    /\ call[c] \in {"returned", "finish"} => browser[c] = "acted"
    /\ \A r \in Closed \union {"begin", "claim"} :
          <<c, r>> \in requests => call[c] # "idle"
    /\ <<c, "succeeded">> \in requests => browser[c] = "acted"

CallsOK == \A c \in Calls : CallFine(c)

\* The browser was only handed actions whose effect was claimed, each once.
BrowserOK ==
    \A c \in Calls : browser[c] # "unused" =>
        /\ call[c] # "idle"
        /\ Owned(c)
        /\ effect[KeyOf(c)].status # "not_started"
        /\ \A d \in Calls \ {c} : KeyOf(d) = KeyOf(c) => browser[d] = "unused"

IInv == TypeOK /\ RowsOK /\ CallsOK /\ BrowserOK

-----------------------------------------------------------------------------
LEMMA KeyOfType == \A c \in Calls : KeyOf(c) \in Keys
BY ConstantsAssumption DEF KeyOf

LEMMA InitInvariant == Init => IInv
<1> SUFFICES ASSUME Init PROVE IInv
  OBVIOUS
<1>1. TypeOK
  BY DEF Init, TypeOK, Row, NoRow, Approval, Call
<1>2. RowsOK
  <2>1. \A k \in Keys : effect[k] = NoRow
    BY DEF Init
  <2>. QED
    BY <2>1 DEF RowsOK, NoRow
<1>3. CallsOK
  BY DEF Init, CallsOK, CallFine
<1>4. BrowserOK
  BY DEF Init, BrowserOK
<1>. QED
  BY <1>1, <1>2, <1>3, <1>4 DEF IInv

\* Of the other calls, a step of c disturbs nothing: rows keep their owner, and
\* what the browser was handed it keeps.
LEMMA OthersStay ==
    ASSUME IInv, NEW c \in Calls,
           \A d \in Calls \ {c} : call'[d] = call[d],
           \A d \in Calls \ {c}, r \in Closed \union {"begin", "claim"} :
               <<d, r>> \in requests' => <<d, r>> \in requests,
           \A d \in Calls : Owned(d) => Owned(d)',
           \A d \in Calls : /\ browser[d] = "acted" => browser'[d] = "acted"
                            /\ browser[d] # "unused" => browser'[d] # "unused",
           CallFine(c)'
    PROVE  CallsOK'
<1>1. ASSUME NEW d \in Calls \ {c}
      PROVE  CallFine(d)'
  <2>1. CallFine(d) /\ call'[d] = call[d]
    BY DEF IInv, CallsOK
  <2>2. <<d, "claim">> \in requests' => <<d, "claim">> \in requests
    OBVIOUS
  <2>3. <<d, "succeeded">> \in requests' => <<d, "succeeded">> \in requests
    BY DEF Closed
  <2>. QED
    BY <2>1, <2>2, <2>3 DEF CallFine
<1>. QED
  BY <1>1 DEF CallsOK

\* A step of call c that leaves the rows, the approvals and the browser alone: it
\* moves to pc and sends, or consumes, requests of its own.
LEMMA CallMoves ==
    ASSUME IInv, NEW c \in Calls, NEW pc \in Call \ {"idle"},
           call' = [call EXCEPT ![c] = pc],
           requests' \in SUBSET Request,
           \A m \in requests' : m \in requests \/ m[1] = c,
           UNCHANGED <<effect, approval, browser>>,
           Bound[Token[c]] = ActionOf[c],
           pc = "claim" \/ <<c, "claim">> \in requests' => Owned(c),
           pc = "perform" => browser[c] # "unused",
           pc \in {"returned", "finish"} \/ <<c, "succeeded">> \in requests' =>
               browser[c] = "acted"
    PROVE  IInv'
<1>1. TypeOK'
  BY DEF IInv, TypeOK
<1>2. RowsOK'
  BY DEF IInv, RowsOK
<1>3. \A d \in Calls : call'[d] = IF d = c THEN pc ELSE call[d]
  BY DEF IInv, TypeOK
<1>4. \A d \in Calls : Owned(d)' <=> Owned(d)
  BY DEF Owned
<1>5. \A d \in Calls \ {c}, r \in Closed \union {"begin", "claim"} :
          <<d, r>> \in requests' => <<d, r>> \in requests
  OBVIOUS
<1>6. CallFine(c)'
  BY <1>3, <1>4 DEF CallFine
<1>7. CallsOK'
  BY <1>3, <1>4, <1>5, <1>6, OthersStay
<1>8. BrowserOK'
  BY <1>3, <1>4 DEF IInv, BrowserOK
<1>. QED
  BY <1>1, <1>2, <1>7, <1>8 DEF IInv

LEMMA CallStep ==
    ASSUME IInv, NEW c \in Calls,
           \/ Start(c) \/ Return(c) \/ Check(c) \/ Fault(c) \/ Cancel(c) \/ CallDies(c)
    PROVE  IInv'
<1>. CallFine(c)
  BY DEF IInv, CallsOK
<1>1. ASSUME NEW pc \in {"failed", "returned"}, Leave(c, pc), call[c] # "idle",
             pc = "returned" => browser[c] = "acted"
      PROVE  IInv'
  <2>1. requests' \in SUBSET Request /\ pc \in Call \ {"idle"}
    BY <1>1 DEF Leave, IInv, TypeOK, Call
  <2>. QED
    BY <1>1, <2>1, CallMoves DEF Leave, CallFine
<1>2. ASSUME NEW pc \in {"begin", "finish", "cleanup"},
             NEW r \in {"begin", "succeeded", "unknown", "canceled"},
             Send(c, pc, r), Bound[Token[c]] = ActionOf[c],
             pc = "finish" \/ r = "succeeded" => browser[c] = "acted"
      PROVE  IInv'
  <2>1. requests' \in SUBSET Request /\ pc \in Call \ {"idle"}
    BY <1>2 DEF Send, IInv, TypeOK, Request, Call
  <2>2. /\ <<c, "claim">> \in requests' => Owned(c)
        /\ <<c, "succeeded">> \in requests' => browser[c] = "acted"
    BY <1>2 DEF Send, CallFine
  <2>3. \A m \in requests' : m \in requests \/ m[1] = c
    BY <1>2 DEF Send
  <2>. QED
    BY <1>2, <2>1, <2>2, <2>3, CallMoves DEF Send
<1>3. call[c] # "idle" => Bound[Token[c]] = ActionOf[c]
  BY DEF CallFine
<1>4. CASE Start(c)
  BY <1>4, <1>2 DEF Start
<1>5. CASE Return(c)
  BY <1>5, <1>1 DEF Return
<1>6. CASE Check(c)
  <2>1. browser[c] = "acted"
    BY <1>6 DEF Check, CallFine
  <2>. QED
    BY <1>6, <1>2, <1>3, <2>1 DEF Check
<1>7. CASE Fault(c)
  BY <1>7, <1>1, <1>2, <1>3 DEF Fault
<1>8. CASE Cancel(c)
  BY <1>8, <1>1, <1>2, <1>3 DEF Cancel
<1>9. CASE CallDies(c)
  BY <1>9, <1>1 DEF CallDies
<1>. QED
  BY <1>4, <1>5, <1>6, <1>7, <1>8, <1>9

\* What an answer does to the call and to its requests.
LEMMA AnswerEffect ==
    ASSUME IInv, NEW c \in Calls, NEW r, NEW awaited \in Call \ {"idle"},
           NEW pc \in Call \ {"idle"}, NEW next,
           <<c, r>> \in requests, r \in Closed \union {"begin", "claim"},
           \A m \in next : m \in Request /\ m[1] = c,
           Answer(c, r, awaited, pc, next)
    PROVE  /\ call' \in [Calls -> Call]
           /\ requests' \subseteq Request
           /\ call'[c] # "idle" /\ call[c] # "idle"
           /\ \A d \in Calls \ {c} : call'[d] = call[d]
           /\ \A d \in Calls \ {c}, s \in Closed \union {"begin", "claim"} :
                  <<d, s>> \in requests' => <<d, s>> \in requests
           /\ \/ call'[c] = pc /\ \A m \in requests' : m \in requests \/ m \in next
              \/ call'[c] = call[c] /\ requests' \subseteq requests
<1>1. call[c] # "idle"
  BY DEF IInv, CallsOK, CallFine
<1>. QED
  BY <1>1 DEF Answer, IInv, TypeOK

LEMMA HandleBeginStep ==
    ASSUME IInv, NEW c \in Calls, HandleBegin(c)
    PROVE  IInv'
<1>. DEFINE k == KeyOf(c)
            usable == approval[Token[c]] = "valid"
            free == effect[k] = NoRow /\ \A j \in Keys : effect[j].approval # Token[c]
            new == [status |-> "not_started", action |-> ActionOf[c], approval |-> Token[c]]
            row == IF usable /\ free THEN new ELSE effect[k]
            mine == usable /\ row.action = ActionOf[c] /\ row.approval = Token[c]
<1>1. k \in Keys /\ ActionOf[c] \in Actions /\ Token[c] \in Approvals
  BY KeyOfType, ConstantsAssumption
<1>2. row \in Row
  BY <1>1 DEF IInv, TypeOK, Row
<1>3. \A j \in Keys : effect'[j] = IF j = k THEN row ELSE effect[j]
  BY <1>1 DEF HandleBegin, IInv, TypeOK
<1>4. \A d \in Calls : Owned(d) => Owned(d)'
  BY <1>1, <1>3, KeyOfType DEF Owned, NoRow
<1>5. \E pc \in {"claim", "ok", "failed"} :
         \E next \in {{}, {<<c, "claim">>}} :
            /\ Answer(c, "begin", "begin", pc, next)
            /\ pc = "claim" \/ next # {} => mine /\ row.status = "not_started"
  BY DEF HandleBegin
<1>6. PICK pc \in {"claim", "ok", "failed"}, next \in {{}, {<<c, "claim">>}} :
            /\ Answer(c, "begin", "begin", pc, next)
            /\ pc = "claim" \/ next # {} => mine /\ row.status = "not_started"
  BY <1>5
<1>7. mine /\ row.status = "not_started" => Owned(c)'
  BY <1>1, <1>3 DEF Owned
<1>8. <<c, "begin">> \in requests /\ UNCHANGED <<approval, browser>>
  BY DEF HandleBegin
<1>9. \A m \in next : m \in Request /\ m[1] = c
  BY DEF Request
<1>10. /\ call' \in [Calls -> Call]
       /\ requests' \subseteq Request
       /\ call'[c] # "idle" /\ call[c] # "idle"
       /\ \A d \in Calls \ {c} : call'[d] = call[d]
       /\ \A d \in Calls \ {c}, s \in Closed \union {"begin", "claim"} :
              <<d, s>> \in requests' => <<d, s>> \in requests
       /\ \/ call'[c] = pc /\ \A m \in requests' : m \in requests \/ m \in next
          \/ call'[c] = call[c] /\ requests' \subseteq requests
  <2>1. "begin" \in Call \ {"idle"} /\ pc \in Call \ {"idle"}
    BY DEF Call
  <2>. QED
    BY <1>6, <1>8, <1>9, <2>1, AnswerEffect
<1>11. TypeOK'
  BY <1>2, <1>8, <1>10 DEF HandleBegin, IInv, TypeOK
<1>12. RowsOK'
  <2>1. CASE usable /\ free
    <3>1. \A j \in Keys : effect'[j] = IF j = k THEN new ELSE effect[j]
      BY <1>3, <2>1
    <3>2. \A j \in Keys : effect[j].approval # Token[c]
      BY <2>1
    <3>3. approval'[Token[c]] \in Granted
      BY <1>8, <2>1 DEF Granted
    <3>4. new.status # "none" /\ new.approval = Token[c]
      OBVIOUS
    <3>. HIDE DEF new, usable, free
    <3>. QED
      BY <1>1, <1>8, <3>1, <3>2, <3>3, <3>4 DEF IInv, RowsOK
  <2>2. CASE ~(usable /\ free)
    <3>1. \A j \in Keys : effect'[j] = effect[j]
      BY <1>3, <2>2
    <3>. QED
      BY <1>8, <3>1 DEF IInv, RowsOK
  <2>. QED
    BY <2>1, <2>2
<1>13. CallFine(c)'
  <2>1. CallFine(c)
    BY DEF IInv, CallsOK
  <2>. QED
    BY <1>4, <1>6, <1>7, <1>8, <1>10, <2>1 DEF CallFine
<1>14. CallsOK'
  BY <1>4, <1>8, <1>10, <1>13, OthersStay
<1>15. \A d \in Calls : browser[d] # "unused" => effect'[KeyOf(d)] = effect[KeyOf(d)]
  BY <1>3, KeyOfType DEF IInv, BrowserOK, Owned, NoRow
<1>16. BrowserOK'
  BY <1>4, <1>8, <1>10, <1>15 DEF IInv, BrowserOK
<1>. QED
  BY <1>11, <1>12, <1>14, <1>16 DEF IInv

\* The row of key k keeps its action and its approval, and its status moves on.
LEMMA RowMoves ==
    ASSUME IInv, NEW k \in Keys, NEW status1 \in {"executing"} \union Closed,
           effect[k].status # "none",
           effect' = [effect EXCEPT ![k].status = status1],
           UNCHANGED approval
    PROVE  /\ effect' \in [Keys -> Row]
           /\ RowsOK'
           /\ \A d \in Calls : Owned(d) => Owned(d)'
           /\ \A d \in Calls : KeyOf(d) = k => effect'[KeyOf(d)].status = status1
           /\ \A d \in Calls : KeyOf(d) # k => effect'[KeyOf(d)] = effect[KeyOf(d)]
<1>1. /\ effect'[k] = [effect[k] EXCEPT !.status = status1]
      /\ \A j \in Keys \ {k} : effect'[j] = effect[j]
  BY DEF IInv, TypeOK
<1>2. /\ effect'[k].status = status1
      /\ effect'[k].action = effect[k].action
      /\ effect'[k].approval = effect[k].approval
  BY <1>1 DEF IInv, TypeOK, Row
<1>3. status1 # "none"
  BY DEF Closed
<1>4. effect' \in [Keys -> Row]
  BY DEF IInv, TypeOK, Row
<1>5. RowsOK'
  BY <1>1, <1>2, <1>3 DEF IInv, RowsOK
<1>6. \A d \in Calls : Owned(d) => Owned(d)'
  BY <1>1, <1>2, <1>3, KeyOfType DEF Owned
<1>. QED
  BY <1>1, <1>2, <1>4, <1>5, <1>6, KeyOfType

\* What RowMoves and AnswerEffect leave to show of a step of the control plane
\* that hands nothing to the browser.
LEMMA HandledStep ==
    ASSUME IInv, NEW c \in Calls, NEW pc \in {"failed", "ok", "cleanup"},
           NEW next \in {{}, {<<c, "unknown">>}}, NEW awaited \in Call \ {"idle"},
           NEW r \in Closed \union {"begin", "claim"}, <<c, r>> \in requests,
           Answer(c, r, awaited, pc, next),
           UNCHANGED <<approval, browser>>,
           \/ UNCHANGED effect
           \/ \E outcome \in Closed :
                 /\ effect[KeyOf(c)].status \notin {"none", "not_started"}
                 /\ effect' = [effect EXCEPT ![KeyOf(c)].status = outcome]
    PROVE  IInv'
<1>1. \A m \in next : m \in Request /\ m[1] = c
  BY DEF Request
<1>2. pc \in Call \ {"idle"}
  BY DEF Call
<1>3. /\ call' \in [Calls -> Call]
      /\ requests' \subseteq Request
      /\ call'[c] # "idle" /\ call[c] # "idle"
      /\ \A d \in Calls \ {c} : call'[d] = call[d]
      /\ \A d \in Calls \ {c}, s \in Closed \union {"begin", "claim"} :
             <<d, s>> \in requests' => <<d, s>> \in requests
      /\ \/ call'[c] = pc /\ \A m \in requests' : m \in requests \/ m \in next
         \/ call'[c] = call[c] /\ requests' \subseteq requests
  BY <1>1, <1>2, AnswerEffect
<1>4. /\ effect' \in [Keys -> Row]
      /\ RowsOK'
      /\ \A d \in Calls : Owned(d) => Owned(d)'
      /\ \A d \in Calls : effect[KeyOf(d)].status # "not_started" =>
             effect'[KeyOf(d)].status # "not_started"
  <2>1. CASE UNCHANGED effect
    BY <2>1 DEF IInv, TypeOK, RowsOK, Owned
  <2>2. ASSUME NEW outcome \in Closed,
               effect[KeyOf(c)].status \notin {"none", "not_started"},
               effect' = [effect EXCEPT ![KeyOf(c)].status = outcome]
        PROVE  <1>4!1 /\ <1>4!2 /\ <1>4!3 /\ <1>4!4
    <3>1. outcome # "not_started"
      BY DEF Closed
    <3>. QED
      BY <2>2, <3>1, RowMoves, KeyOfType
  <2>. QED
    BY <2>1, <2>2
<1>5. CallFine(c)'
  <2>1. CallFine(c)
    BY DEF IInv, CallsOK
  <2>. QED
    BY <1>3, <1>4, <2>1 DEF CallFine
<1>6. CallsOK'
  BY <1>3, <1>4, <1>5, OthersStay
<1>7. BrowserOK'
  BY <1>3, <1>4 DEF IInv, BrowserOK
<1>8. TypeOK'
  BY <1>3, <1>4 DEF IInv, TypeOK
<1>. QED
  BY <1>4, <1>6, <1>7, <1>8 DEF IInv

LEMMA HandleFinishStep ==
    ASSUME IInv, NEW c \in Calls, NEW outcome \in Closed, HandleFinish(c, outcome)
    PROVE  IInv'
<1>. DEFINE k == KeyOf(c)
<1>1. k \in Keys
  BY KeyOfType
<1>2. \E pc \in {"failed", "ok", "cleanup"}, next \in {{}, {<<c, "unknown">>}},
         awaited \in Call \ {"idle"} : Answer(c, outcome, awaited, pc, next)
  <2>1. {"cleanup", "finish"} \subseteq Call \ {"idle"}
    BY DEF Call
  <2>. QED
    BY <2>1 DEF HandleFinish
<1>3. \/ UNCHANGED effect
      \/ /\ effect[k].status \notin {"none", "not_started"}
         /\ effect' = [effect EXCEPT ![k].status = outcome]
  <2>1. effect' = [effect EXCEPT ![k] = Recorded(effect[k], outcome)]
    BY DEF HandleFinish
  <2>2. CASE effect[k].status = "executing"
    BY <1>1, <2>1, <2>2 DEF Recorded, IInv, TypeOK
  <2>3. CASE effect[k].status # "executing"
    BY <1>1, <2>1, <2>3 DEF Recorded, IInv, TypeOK
  <2>. QED
    BY <2>2, <2>3
<1>4. <<c, outcome>> \in requests /\ UNCHANGED <<approval, browser>>
  BY DEF HandleFinish
<1>. QED
  BY <1>2, <1>3, <1>4, HandledStep

LEMMA HandleClaimStep ==
    ASSUME IInv, NEW c \in Calls, HandleClaim(c)
    PROVE  IInv'
<1>. DEFINE k == KeyOf(c)
<1>1. /\ k \in Keys
      /\ <<c, "claim">> \in requests
      /\ UNCHANGED approval
      /\ {"claim", "perform", "failed"} \subseteq Call \ {"idle"}
  BY KeyOfType DEF HandleClaim, Call
<1>2. CASE ~ClaimableEffect(k)
  BY <1>1, <1>2, HandledStep DEF HandleClaim
<1>3. CASE ClaimableEffect(k)
  <2>1. /\ effect[k].status = "not_started"
        /\ effect' = [effect EXCEPT ![k].status = "executing"]
        /\ Answer(c, "claim", "claim", "perform", {})
        /\ browser' = IF call'[c] = "perform" THEN [browser EXCEPT ![c] = "invoked"]
                                               ELSE browser
    BY <1>3 DEF HandleClaim, ClaimableEffect
  <2>2. /\ effect' \in [Keys -> Row]
        /\ RowsOK'
        /\ \A d \in Calls : Owned(d) => Owned(d)'
        /\ \A d \in Calls : KeyOf(d) = k => effect'[KeyOf(d)].status = "executing"
        /\ \A d \in Calls : KeyOf(d) # k => effect'[KeyOf(d)] = effect[KeyOf(d)]
    <3>1. effect[k].status # "none" /\ "executing" \in {"executing"} \union Closed
      BY <2>1
    <3>. HIDE DEF k
    <3>. QED
      BY <1>1, <2>1, <3>1, RowMoves
  <2>3. /\ call' \in [Calls -> Call]
        /\ requests' \subseteq Request
        /\ call'[c] # "idle" /\ call[c] # "idle"
        /\ \A d \in Calls \ {c} : call'[d] = call[d]
        /\ \A d \in Calls \ {c}, s \in Closed \union {"begin", "claim"} :
               <<d, s>> \in requests' => <<d, s>> \in requests
        /\ \/ call'[c] = "perform" /\ requests' \subseteq requests
           \/ call'[c] = call[c] /\ requests' \subseteq requests
    BY <1>1, <2>1, AnswerEffect
  <2>4. \A d \in Calls : KeyOf(d) = k => browser[d] = "unused"
    BY <2>1 DEF IInv, BrowserOK
  <2>5. \A d \in Calls : browser'[d] = IF d = c /\ call'[c] = "perform"
                                       THEN "invoked" ELSE browser[d]
    BY <2>1 DEF IInv, TypeOK
  <2>6. CallFine(c) /\ Owned(c)
    BY <1>1 DEF IInv, CallsOK, CallFine
  <2>7. CallFine(c)'
    BY <2>2, <2>3, <2>4, <2>5, <2>6 DEF CallFine
  <2>8. CallsOK'
    BY <2>2, <2>3, <2>4, <2>5, <2>7, OthersStay
  <2>9. BrowserOK'
    <3>1. ASSUME NEW d \in Calls, browser'[d] # "unused", KeyOf(d) # k
          PROVE  /\ call'[d] # "idle"
                 /\ Owned(d)'
                 /\ effect'[KeyOf(d)].status # "not_started"
                 /\ \A e \in Calls \ {d} : KeyOf(e) = KeyOf(d) => browser'[e] = "unused"
      BY <3>1, <2>2, <2>3, <2>5 DEF IInv, BrowserOK
    <3>2. ASSUME NEW d \in Calls, browser'[d] # "unused", KeyOf(d) = k
          PROVE  /\ call'[d] # "idle"
                 /\ Owned(d)'
                 /\ effect'[KeyOf(d)].status # "not_started"
                 /\ \A e \in Calls \ {d} : KeyOf(e) = KeyOf(d) => browser'[e] = "unused"
      BY <3>2, <2>2, <2>3, <2>4, <2>5, <2>6
    <3>. QED
      BY <3>1, <3>2 DEF BrowserOK
  <2>10. TypeOK'
    BY <1>1, <2>1, <2>2, <2>3 DEF IInv, TypeOK
  <2>. QED
    BY <2>2, <2>8, <2>9, <2>10 DEF IInv
<1>. QED
  BY <1>2, <1>3

LEMMA EnvironmentStep ==
    ASSUME IInv,
           \/ \E c \in Calls : Act(c)
           \/ \E request \in requests : Lose(request)
           \/ \E k \in Keys, outcome \in {"succeeded", "failed"} : Reconcile(k, outcome)
           \/ \E p \in Approvals :
                 \/ Approve(p, "pending", "valid") \/ Approve(p, "pending", "refused")
                 \/ Approve(p, "valid", "withdrawn") \/ Approve(p, "withdrawn", "valid")
    PROVE  IInv'
<1>1. ASSUME NEW c \in Calls, Act(c) PROVE IInv'
  <2>1. \A d \in Calls : browser'[d] = IF d = c THEN "acted" ELSE browser[d]
    BY <1>1 DEF Act, IInv, TypeOK
  <2>2. browser[c] = "invoked"
    BY <1>1 DEF Act
  <2>3. UNCHANGED <<effect, approval, call, requests>>
    BY <1>1 DEF Act
  <2>4. TypeOK' /\ RowsOK'
    BY <1>1 DEF Act, IInv, TypeOK, RowsOK
  <2>5. CallsOK' /\ BrowserOK'
    BY <2>1, <2>2, <2>3 DEF IInv, CallsOK, CallFine, BrowserOK, Owned
  <2>. QED
    BY <2>4, <2>5 DEF IInv
<1>2. ASSUME NEW request \in requests, Lose(request) PROVE IInv'
  BY <1>2 DEF Lose, IInv, TypeOK, RowsOK, CallsOK, CallFine, BrowserOK, Owned
<1>3. ASSUME NEW k \in Keys, NEW outcome \in {"succeeded", "failed"}, Reconcile(k, outcome)
      PROVE  IInv'
  <2>1. /\ effect[k].status = "unknown"
        /\ effect' = [effect EXCEPT ![k].status = outcome]
        /\ UNCHANGED <<approval, call, requests, browser>>
        /\ outcome \in {"executing"} \union Closed
    BY <1>3 DEF Reconcile, Closed
  <2>2. /\ effect' \in [Keys -> Row]
        /\ RowsOK'
        /\ \A d \in Calls : Owned(d) => Owned(d)'
        /\ \A d \in Calls : KeyOf(d) = k => effect'[KeyOf(d)].status = outcome
        /\ \A d \in Calls : KeyOf(d) # k => effect'[KeyOf(d)] = effect[KeyOf(d)]
    BY <2>1, RowMoves
  <2>3. CallsOK'
    BY <2>1, <2>2 DEF IInv, CallsOK, CallFine
  <2>4. BrowserOK'
    BY <2>1, <2>2 DEF IInv, BrowserOK
  <2>. QED
    BY <2>1, <2>2, <2>3, <2>4 DEF IInv, TypeOK
<1>4. ASSUME NEW p \in Approvals, NEW from \in Approval, NEW to \in Approval,
             Approve(p, from, to), from \in Granted => to \in Granted
      PROVE  IInv'
  <2>1. /\ approval' \in [Approvals -> Approval]
        /\ \A q \in Approvals : approval[q] \in Granted => approval'[q] \in Granted
        /\ UNCHANGED <<effect, call, requests, browser>>
    BY <1>4 DEF Approve, IInv, TypeOK
  <2>2. RowsOK'
    BY <2>1 DEF IInv, RowsOK
  <2>. QED
    BY <2>1, <2>2 DEF IInv, TypeOK, CallsOK, CallFine, BrowserOK, Owned
<1>. QED
  BY <1>1, <1>2, <1>3, <1>4 DEF Granted, Approval

LEMMA NextInvariant == IInv /\ [Next]_vars => IInv'
<1> SUFFICES ASSUME IInv, [Next]_vars PROVE IInv'
  OBVIOUS
<1>1. CASE UNCHANGED vars
  BY <1>1 DEF vars, IInv, TypeOK, RowsOK, CallsOK, CallFine, BrowserOK, Owned
<1>2. CASE Next
  BY <1>2, CallStep, HandleBeginStep, HandleClaimStep, HandleFinishStep, EnvironmentStep
     DEF Next
<1>. QED
  BY <1>1, <1>2

-----------------------------------------------------------------------------
\* The inductive invariant holds in every reachable state.
THEOREM Invariance == Spec => []IInv
<1>1. Init => IInv
  BY InitInvariant
<1>2. IInv /\ [Next]_vars => IInv'
  BY NextInvariant
<1>. QED
  BY <1>1, <1>2, PTL DEF Spec

\* The variables keep their types: in particular no row ever has a status that the
\* schema of browser_effects3 does not list.
THEOREM TypeCorrect == Spec => []TypeOK
<1>1. IInv => TypeOK
  BY DEF IInv
<1>. QED
  BY <1>1, Invariance, PTL

\* For any number of calls, retries, lost requests and answers, cancellations and
\* crashes: the browser acts at most once under one approval and under one key,
\* and only on the action that was approved.
THEOREM ActsOnceAsApproved == Spec => []ActedAsApproved
<1>1. IInv => ActedAsApproved
  <2> SUFFICES ASSUME IInv, NEW c \in Calls, browser[c] = "acted"
               PROVE  /\ Bound[Token[c]] = ActionOf[c]
                      /\ Owned(c)
                      /\ approval[Token[c]] \in Granted
                      /\ \A d \in Calls \ {c} : browser[d] = "acted" =>
                             Token[d] # Token[c] /\ KeyOf(d) # KeyOf(c)
    BY DEF ActedAsApproved, Owned, Granted
  <2>1. Owned(c) /\ call[c] # "idle"
    BY DEF IInv, BrowserOK
  <2>2. Bound[Token[c]] = ActionOf[c]
    BY <2>1 DEF IInv, CallsOK, CallFine
  <2>3. approval[Token[c]] \in Granted
    BY <2>1, KeyOfType DEF Owned, IInv, RowsOK
  <2>4. ASSUME NEW d \in Calls \ {c}, browser[d] = "acted"
        PROVE  Token[d] # Token[c] /\ KeyOf(d) # KeyOf(c)
    <3>1. KeyOf(d) # KeyOf(c) /\ Owned(d)
      BY <2>4 DEF IInv, BrowserOK
    <3>. QED
      BY <2>1, <3>1, KeyOfType DEF Owned, IInv, RowsOK
  <2>. QED
    BY <2>1, <2>2, <2>3, <2>4
<1>. QED
  BY <1>1, Invariance, PTL

-----------------------------------------------------------------------------
\* A step that writes a status of one row and leaves the browser alone.
LEMMA StatusMove ==
    ASSUME TypeOK, NEW k \in Keys, NEW row \in Row,
           effect' = [effect EXCEPT ![k] = row], UNCHANGED browser
    PROVE  /\ effectStatus' = [effectStatus EXCEPT ![k] = row.status]
           /\ UNCHANGED performers
BY DEF TypeOK, effectStatus, performers

LEMMA LedgerInit == Init => Ledger!Init
<1> SUFFICES ASSUME Init PROVE Ledger!Init
  OBVIOUS
<1>1. effectStatus = [k \in Keys |-> "none"]
  BY DEF Init, effectStatus, NoRow
<1>2. performers = [k \in Keys |-> {}]
  BY DEF Init, performers
<1>. QED
  BY <1>1, <1>2 DEF Ledger!Init

\* Act is Perform; the handlers are Begin, Claim and Close, or change nothing;
\* Reconcile is Reconcile; everything else stutters.
LEMMA LedgerStep == IInv /\ [Next]_vars => [Ledger!Next]_(Ledger!vars)
<1> SUFFICES ASSUME IInv, [Next]_vars PROVE Ledger!Next \/ UNCHANGED <<effectStatus, performers>>
  BY DEF Ledger!vars
<1>. TypeOK /\ \A k \in Keys : effectStatus[k] = effect[k].status
  BY DEF IInv, effectStatus
<1>1. ASSUME UNCHANGED <<effect, browser>> PROVE UNCHANGED <<effectStatus, performers>>
  BY <1>1 DEF effectStatus, performers
<1>2. ASSUME NEW k \in Keys, NEW to \in {"executing"} \union Closed,
             effect' = [effect EXCEPT ![k].status = to], UNCHANGED browser
      PROVE  effectStatus' = [effectStatus EXCEPT ![k] = to] /\ UNCHANGED performers
  <2>. DEFINE row == [effect[k] EXCEPT !.status = to]
  <2>1. row \in Row /\ row.status = to
    BY DEF TypeOK, Row
  <2>2. effect' = [effect EXCEPT ![k] = row]
    BY <1>2
  <2>. HIDE DEF row
  <2>. QED
    BY <1>2, <2>1, <2>2, StatusMove
<1>3. ASSUME NEW c \in Calls,
             \/ Start(c) \/ Return(c) \/ Check(c) \/ Fault(c) \/ Cancel(c) \/ CallDies(c)
      PROVE  UNCHANGED <<effectStatus, performers>>
  BY <1>1, <1>3 DEF Start, Return, Check, Fault, Cancel, CallDies, Send, Leave
<1>4. ASSUME NEW c \in Calls, HandleBegin(c)
      PROVE  Ledger!Next \/ UNCHANGED <<effectStatus, performers>>
  <2>. DEFINE k == KeyOf(c)
              usable == approval[Token[c]] = "valid"
              free == effect[k] = NoRow /\ \A j \in Keys : effect[j].approval # Token[c]
              new == [status |-> "not_started", action |-> ActionOf[c], approval |-> Token[c]]
  <2>1. k \in Keys /\ new \in Row
    BY KeyOfType, ConstantsAssumption DEF Row
  <2>2. /\ effect' = [effect EXCEPT ![k] = IF usable /\ free THEN new ELSE effect[k]]
        /\ UNCHANGED browser
    BY <1>4 DEF HandleBegin
  <2>3. CASE usable /\ free
    <3>1. effectStatus' = [effectStatus EXCEPT ![k] = "not_started"] /\ UNCHANGED performers
      BY <2>1, <2>2, <2>3, StatusMove
    <3>2. effectStatus[k] = "none"
      BY <2>1, <2>3 DEF NoRow
    <3>. QED
      BY <2>1, <3>1, <3>2 DEF Ledger!Next, Ledger!Begin, Ledger!Move
  <2>4. CASE ~(usable /\ free)
    BY <1>1, <2>2, <2>4 DEF TypeOK
  <2>. QED
    BY <2>3, <2>4
<1>5. ASSUME NEW c \in Calls, HandleClaim(c)
      PROVE  Ledger!Next \/ UNCHANGED <<effectStatus, performers>>
  <2>1. KeyOf(c) \in Keys
    BY KeyOfType
  <2>2. CASE ClaimableEffect(KeyOf(c))
    <3>1. effect' = [effect EXCEPT ![KeyOf(c)].status = "executing"]
      BY <1>5, <2>2 DEF HandleClaim
    <3>2. effectStatus' = [effectStatus EXCEPT ![KeyOf(c)] = "executing"]
      BY <2>1, <3>1 DEF TypeOK, Row, effectStatus
    <3>3. effectStatus[KeyOf(c)] = "not_started"
      BY <2>1, <2>2 DEF ClaimableEffect
    <3>4. \A d \in Calls : browser'[d] = "acted" <=> browser[d] = "acted"
      <4>1. KeyOf(c) = KeyOf(c) /\ browser[c] = "unused"
        BY <2>2 DEF ClaimableEffect, IInv, BrowserOK
      <4>. QED
        BY <1>5, <2>2, <4>1 DEF HandleClaim, TypeOK
    <3>5. UNCHANGED performers
      BY <3>4 DEF performers
    <3>. QED
      BY <2>1, <3>2, <3>3, <3>5 DEF Ledger!Next, Ledger!Claim, Ledger!Move
  <2>3. CASE ~ClaimableEffect(KeyOf(c))
    BY <1>1, <1>5, <2>3 DEF HandleClaim
  <2>. QED
    BY <2>2, <2>3
<1>6. ASSUME NEW c \in Calls, Act(c) PROVE Ledger!Next
  <2>1. KeyOf(c) \in Keys /\ UNCHANGED effectStatus
    BY <1>6, KeyOfType DEF Act, effectStatus
  <2>2. \A d \in Calls : browser'[d] = IF d = c THEN "acted" ELSE browser[d]
    BY <1>6 DEF Act, TypeOK
  <2>3. \A d \in Calls : KeyOf(d) = KeyOf(c) => browser[d] # "acted"
    BY <1>6 DEF Act, IInv, BrowserOK
  <2>4. performers[KeyOf(c)] = {}
    BY <2>1, <2>3 DEF performers
  <2>5. \A k \in Keys : {d \in Calls : KeyOf(d) = k /\ browser'[d] = "acted"} =
            IF k = KeyOf(c) THEN {c}
            ELSE {d \in Calls : KeyOf(d) = k /\ browser[d] = "acted"}
    BY <2>2, <2>3
  <2>6. performers' = [performers EXCEPT ![KeyOf(c)] = {c}]
    BY <2>5 DEF performers
  <2>7. effectStatus[KeyOf(c)] \notin {"none", "not_started"}
    BY <1>6, <2>1 DEF Act, IInv, BrowserOK, Owned
  <2>. QED
    BY <2>1, <2>4, <2>6, <2>7 DEF Ledger!Next, Ledger!Perform
<1>7. ASSUME NEW c \in Calls, NEW outcome \in Closed, HandleFinish(c, outcome)
      PROVE  Ledger!Next \/ UNCHANGED <<effectStatus, performers>>
  <2>1. /\ KeyOf(c) \in Keys
        /\ effect' = [effect EXCEPT ![KeyOf(c)] = Recorded(effect[KeyOf(c)], outcome)]
        /\ UNCHANGED browser
        /\ <<c, outcome>> \in requests
    BY <1>7, KeyOfType DEF HandleFinish
  <2>2. CASE effect[KeyOf(c)].status = "executing"
    <3>1. effect' = [effect EXCEPT ![KeyOf(c)].status = outcome]
      BY <2>1, <2>2 DEF Recorded
    <3>2. effectStatus' = [effectStatus EXCEPT ![KeyOf(c)] = outcome] /\ UNCHANGED performers
      BY <1>2, <2>1, <3>1
    <3>3. effectStatus[KeyOf(c)] = "executing"
      BY <2>1, <2>2
    <3>4. outcome = "succeeded" => performers[KeyOf(c)] # {}
      <4>1. outcome = "succeeded" => browser[c] = "acted"
        BY <2>1 DEF IInv, CallsOK, CallFine
      <4>. QED
        BY <2>1, <4>1 DEF performers
    <3>. QED
      BY <2>1, <3>2, <3>3, <3>4 DEF Ledger!Next, Ledger!Close, Ledger!Move, Closed
  <2>3. CASE effect[KeyOf(c)].status # "executing"
    BY <1>1, <2>1, <2>3 DEF Recorded, TypeOK
  <2>. QED
    BY <2>2, <2>3
<1>8. ASSUME NEW request \in requests, Lose(request) PROVE UNCHANGED <<effectStatus, performers>>
  BY <1>1, <1>8 DEF Lose
<1>9. ASSUME NEW k \in Keys, NEW outcome \in {"succeeded", "failed"}, Reconcile(k, outcome)
      PROVE  Ledger!Next
  <2>1. effectStatus' = [effectStatus EXCEPT ![k] = outcome] /\ UNCHANGED performers
    BY <1>2, <1>9 DEF Reconcile, Closed
  <2>2. effectStatus[k] = "unknown"
    BY <1>9 DEF Reconcile
  <2>. QED
    BY <2>1, <2>2 DEF Ledger!Next, Ledger!Reconcile, Ledger!Move
<1>10. ASSUME NEW p \in Approvals, NEW from, NEW to, Approve(p, from, to)
       PROVE  UNCHANGED <<effectStatus, performers>>
  BY <1>1, <1>10 DEF Approve
<1>11. CASE UNCHANGED vars
  BY <1>1, <1>11 DEF vars
<1>12. CASE Next
  BY <1>12, <1>3, <1>4, <1>5, <1>6, <1>7, <1>8, <1>9, <1>10 DEF Next
<1>. QED
  BY <1>11, <1>12

\* The control plane, the callers and the browser together implement the abstract
\* ledger, whatever is lost, delayed, cancelled or crashes.
THEOREM LedgerIsImplemented == Spec => ImplementsLedger
<1>1. Init => Ledger!Init
  BY LedgerInit
<1>2. IInv /\ [Next]_vars => [Ledger!Next]_(Ledger!vars)
  BY LedgerStep
<1>. QED
  BY <1>1, <1>2, Invariance, PTL DEF Spec, ImplementsLedger, Ledger!Spec

-----------------------------------------------------------------------------
(***************************************************************************)
(* Who cancels an effect.  A request to cancel is only sent by a call that *)
(* was about to claim a row of its own; it has been handed nothing then,   *)
(* and as it no longer awaits its claim it never will be.                  *)
(***************************************************************************)
\* c stopped waiting before its claim was answered.
Withdrew(c) ==
    /\ Owned(c)
    /\ call[c] \in {"cleanup", "failed"}
    /\ browser[c] = "unused"

CancelIInv ==
    /\ \A c \in Calls : call[c] \in {"idle", "begin", "claim"} => browser[c] = "unused"
    /\ \A c \in Calls : <<c, "canceled">> \in requests => Withdrew(c)
    /\ \A k \in Keys : effect[k].status = "canceled" =>
          \E d \in Calls : KeyOf(d) = k /\ Withdrew(d)

\* A row once created belongs to its calls for good.
LEMMA OwnedStays ==
    ASSUME IInv, Next, NEW d \in Calls, Owned(d)
    PROVE  Owned(d)'
<1>1. CASE UNCHANGED effect
  BY <1>1 DEF Owned
<1>2. ASSUME NEW c \in Calls, HandleBegin(c) PROVE Owned(d)'
  BY <1>2, KeyOfType DEF HandleBegin, Owned, NoRow, IInv, TypeOK
<1>3. ASSUME NEW k \in Keys, NEW to \in {"executing"} \union Closed,
             effect' = [effect EXCEPT ![k].status = to]
      PROVE  Owned(d)'
  <2>1. KeyOf(d) \in Keys /\ to # "none"
    BY KeyOfType DEF Closed
  <2>. QED
    BY <1>3, <2>1 DEF Owned, IInv, TypeOK, Row
<1>4. ASSUME NEW c \in Calls, HandleClaim(c) PROVE Owned(d)'
  BY <1>1, <1>3, <1>4, KeyOfType DEF HandleClaim
<1>5. ASSUME NEW c \in Calls, NEW outcome \in Closed, HandleFinish(c, outcome)
      PROVE  Owned(d)'
  <2>1. CASE effect[KeyOf(c)].status = "executing"
    BY <1>3, <1>5, <2>1, KeyOfType DEF HandleFinish, Recorded
  <2>2. CASE effect[KeyOf(c)].status # "executing"
    BY <1>1, <1>5, <2>2, KeyOfType DEF HandleFinish, Recorded, IInv, TypeOK
  <2>. QED
    BY <2>1, <2>2
<1>6. ASSUME NEW k \in Keys, NEW outcome \in {"succeeded", "failed"}, Reconcile(k, outcome)
      PROVE  Owned(d)'
  BY <1>3, <1>6 DEF Reconcile, Closed
<1>. QED
  BY <1>1, <1>2, <1>4, <1>5, <1>6
     DEF Next, Start, Act, Return, Check, Fault, Cancel, CallDies, Leave, Send, Lose, Approve

\* What a step of c does to the calls, as far as cancellations go.
CancelMove(c) ==
    /\ \A d \in Calls \ {c} : call'[d] = call[d] /\ browser'[d] = browser[d]
    /\ \A d \in Calls : <<d, "canceled">> \in requests' =>
          \/ <<d, "canceled">> \in requests
          \/ d = c /\ call[c] = "claim" /\ call'[c] = "cleanup" /\ UNCHANGED browser
    /\ call[c] \in {"cleanup", "failed"} /\ browser[c] = "unused" =>
          call'[c] \in {"cleanup", "failed"} /\ browser'[c] = "unused"
    /\ call'[c] \in {"idle", "begin", "claim"} =>
          /\ call[c] \in {"idle", "begin", "claim"}
          /\ browser[c] = "unused" => browser'[c] = "unused"

LEMMA CallsCancelMove ==
    ASSUME IInv, NEW c \in Calls,
           \/ Start(c) \/ HandleBegin(c) \/ HandleClaim(c) \/ Act(c) \/ Return(c)
           \/ Check(c) \/ Fault(c) \/ Cancel(c) \/ CallDies(c)
           \/ \E outcome \in Closed : HandleFinish(c, outcome)
    PROVE  CancelMove(c)
<1>. call \in [Calls -> Call] /\ browser \in [Calls -> {"unused", "invoked", "acted"}]
  BY DEF IInv, TypeOK
<1>1. CASE Start(c) \/ Return(c) \/ Check(c) \/ Fault(c) \/ Cancel(c) \/ CallDies(c)
  BY <1>1 DEF Start, Return, Check, Fault, Cancel, CallDies, Send, Leave, CancelMove
<1>2. CASE Act(c)
  BY <1>2 DEF Act, CancelMove
<1>3. CASE HandleBegin(c)
  <2>1. PICK pc \in {"claim", "ok", "failed"}, next \in {{}, {<<c, "claim">>}} :
            Answer(c, "begin", "begin", pc, next)
    BY <1>3 DEF HandleBegin
  <2>. QED
    BY <1>3, <2>1 DEF HandleBegin, Answer, CancelMove
<1>4. CASE HandleClaim(c)
  <2>1. CASE ClaimableEffect(KeyOf(c))
    BY <1>4, <2>1 DEF HandleClaim, Answer, CancelMove
  <2>2. CASE ~ClaimableEffect(KeyOf(c))
    BY <1>4, <2>2 DEF HandleClaim, Answer, CancelMove
  <2>. QED
    BY <2>1, <2>2
<1>5. ASSUME NEW outcome \in Closed, HandleFinish(c, outcome) PROVE CancelMove(c)
  <2>1. PICK awaited \in {"cleanup", "finish"}, pc \in {"failed", "ok", "cleanup"},
             next \in {{}, {<<c, "unknown">>}} :
                /\ Answer(c, outcome, awaited, pc, next)
                /\ awaited = "cleanup" => pc = "failed"
    BY <1>5 DEF HandleFinish
  <2>. QED
    BY <1>5, <2>1 DEF HandleFinish, Answer, CancelMove
<1>. QED
  BY <1>1, <1>2, <1>3, <1>4, <1>5

\* One step keeps the invariant: a new request to cancel comes from a call that
\* owned its row and had been handed nothing, and whoever withdrew stays so.
LEMMA CancelInvStep ==
    ASSUME IInv, IInv', CancelIInv, [Next]_vars
    PROVE  CancelIInv'
<1>1. CASE UNCHANGED vars
  BY <1>1 DEF vars, CancelIInv, Withdrew, Owned
<1>2. ASSUME Next, NEW c \in Calls, CancelMove(c),
             \A k \in Keys : effect'[k].status = "canceled" =>
                effect[k].status = "canceled" \/ (k = KeyOf(c) /\ <<c, "canceled">> \in requests)
      PROVE  CancelIInv'
  <2>1. ASSUME NEW d \in Calls, Withdrew(d) PROVE Withdrew(d)'
    <3>1. Owned(d)'
      BY <1>2, <2>1, OwnedStays DEF Withdrew
    <3>. QED
      BY <1>2, <2>1, <3>1 DEF Withdrew, CancelMove
  <2>2. ASSUME NEW d \in Calls, call'[d] \in {"idle", "begin", "claim"}
        PROVE  browser'[d] = "unused"
    BY <1>2, <2>2 DEF CancelIInv, CancelMove
  <2>3. ASSUME NEW d \in Calls, <<d, "canceled">> \in requests'
        PROVE  Withdrew(d)'
    <3>1. CASE <<d, "canceled">> \in requests
      BY <2>1, <3>1 DEF CancelIInv
    <3>2. CASE d = c /\ call[c] = "claim" /\ call'[c] = "cleanup" /\ UNCHANGED browser
      <4>1. Owned(d)'
        BY <1>2, <3>2, OwnedStays DEF IInv, CallsOK, CallFine
      <4>2. browser'[d] = "unused"
        BY <3>2 DEF CancelIInv
      <4>. QED
        BY <3>2, <4>1, <4>2 DEF Withdrew
    <3>. QED
      BY <1>2, <2>3, <3>1, <3>2 DEF CancelMove
  <2>4. ASSUME NEW k \in Keys, effect'[k].status = "canceled"
        PROVE  \E d \in Calls : KeyOf(d) = k /\ Withdrew(d)'
    BY <1>2, <2>1, <2>4 DEF CancelIInv
  <2>. QED
    BY <2>2, <2>3, <2>4 DEF CancelIInv, KeyOf
<1>3. ASSUME Next, UNCHANGED <<call, browser>>, requests' \subseteq requests,
             \A k \in Keys : effect'[k].status = "canceled" => effect[k].status = "canceled"
      PROVE  CancelIInv'
  <2>1. ASSUME NEW d \in Calls, Withdrew(d) PROVE Withdrew(d)'
    BY <1>3, <2>1, OwnedStays DEF Withdrew
  <2>. QED
    BY <1>3, <2>1 DEF CancelIInv, KeyOf
<1>4. ASSUME NEW c \in Calls,
             \/ Start(c) \/ HandleBegin(c) \/ HandleClaim(c) \/ Act(c) \/ Return(c)
             \/ Check(c) \/ Fault(c) \/ Cancel(c) \/ CallDies(c)
             \/ \E outcome \in Closed : HandleFinish(c, outcome)
      PROVE  \A k \in Keys : effect'[k].status = "canceled" =>
                effect[k].status = "canceled" \/ (k = KeyOf(c) /\ <<c, "canceled">> \in requests)
  <2>1. CASE UNCHANGED effect
    BY <2>1
  <2>2. ASSUME NEW row, row.status = "canceled" =>
                  effect[KeyOf(c)].status = "canceled" \/ <<c, "canceled">> \in requests,
               effect' = [effect EXCEPT ![KeyOf(c)] = row]
        PROVE  \A k \in Keys : effect'[k].status = "canceled" =>
                  effect[k].status = "canceled" \/ (k = KeyOf(c) /\ <<c, "canceled">> \in requests)
    BY <2>2 DEF IInv, TypeOK
  <2>3. CASE HandleBegin(c)
    BY <2>3, KeyOfType DEF HandleBegin, IInv, TypeOK
  <2>4. CASE HandleClaim(c)
    BY <2>4, KeyOfType DEF HandleClaim, IInv, TypeOK, Row
  <2>5. ASSUME NEW outcome \in Closed, HandleFinish(c, outcome)
        PROVE  \A k \in Keys : effect'[k].status = "canceled" =>
                  effect[k].status = "canceled" \/ (k = KeyOf(c) /\ <<c, "canceled">> \in requests)
    <3>1. Recorded(effect[KeyOf(c)], outcome).status = "canceled" =>
             effect[KeyOf(c)].status = "canceled" \/ <<c, "canceled">> \in requests
      BY <2>5, KeyOfType DEF HandleFinish, Recorded, IInv, TypeOK, Row
    <3>. QED
      BY <2>2, <2>5, <3>1 DEF HandleFinish
  <2>. QED
    BY <1>4, <2>1, <2>3, <2>4, <2>5
       DEF Start, Act, Return, Check, Fault, Cancel, CallDies, Send, Leave
<1>5. ASSUME Next, NEW c \in Calls,
             \/ Start(c) \/ HandleBegin(c) \/ HandleClaim(c) \/ Act(c) \/ Return(c)
             \/ Check(c) \/ Fault(c) \/ Cancel(c) \/ CallDies(c)
             \/ \E outcome \in Closed : HandleFinish(c, outcome)
      PROVE  CancelIInv'
  BY <1>2, <1>4, <1>5, CallsCancelMove
<1>6. ASSUME Next, NEW request \in requests, Lose(request) PROVE CancelIInv'
  BY <1>3, <1>6 DEF Lose
<1>7. ASSUME Next, NEW k \in Keys, NEW outcome \in {"succeeded", "failed"},
             Reconcile(k, outcome)
      PROVE  CancelIInv'
  <2>1. \A j \in Keys : effect'[j].status = "canceled" => effect[j].status = "canceled"
    BY <1>7 DEF Reconcile, IInv, TypeOK, Row
  <2>. QED
    BY <1>3, <1>7, <2>1 DEF Reconcile
<1>8. ASSUME Next, NEW p \in Approvals, NEW from, NEW to, Approve(p, from, to)
      PROVE  CancelIInv'
  BY <1>3, <1>8 DEF Approve
<1>. QED
  BY <1>1, <1>5, <1>6, <1>7, <1>8 DEF Next

\* What is left of CanceledIsSafe: no call cancels an effect of its own once the
\* browser may carry it out; only a second call, with the same action and the same
\* approval, can record as canceled what the first one does.
THEOREM CanceledOnlyByAnother == Spec => []CanceledByAnother
<1>1. Init => CancelIInv
  BY DEF Init, CancelIInv, NoRow
<1>2. IInv /\ IInv' /\ CancelIInv /\ [Next]_vars => CancelIInv'
  BY CancelInvStep
<1>3. IInv /\ CancelIInv => CanceledByAnother
  <2>1. SUFFICES ASSUME IInv, CancelIInv, NEW c \in Calls,
                        effect[KeyOf(c)].status = "canceled", browser[c] = "acted"
                 PROVE  \E d \in Calls \ {c} :
                           <<ActionOf[d], Token[d], browser[d]>> =
                              <<ActionOf[c], Token[c], "unused">>
    BY DEF CanceledByAnother
  <2>2. PICK d \in Calls : KeyOf(d) = KeyOf(c) /\ Withdrew(d)
    BY <2>1, KeyOfType DEF CancelIInv
  <2>3. Owned(c)
    BY <2>1 DEF IInv, BrowserOK
  <2>. QED
    BY <2>1, <2>2, <2>3 DEF Withdrew, Owned
<1>. QED
  BY <1>1, <1>2, <1>3, Invariance, PTL DEF Spec

-----------------------------------------------------------------------------
(***************************************************************************)
(* Conversations.                                                          *)
(***************************************************************************)
\* What an append may be doing, and what holds the row of its conversation.
Appending == {"append", "lock", "count", "insert"}
Holding == {"count", "insert"}

\* What a request q knows of what it read stays true until it writes.
Asked(q) ==
    /\ q.at \in {"check", "edit", "delete"} \union Appending =>
          q.chat \in Chat /\ chat[q.chat].status # "none"
    /\ q.at = "check" => q.row.folder \in Folder
    /\ q.at = "shelve" => q.folder \in Folder
    /\ q.at \in {"check", "edit"} =>
          q.row.status \in Shelf /\ q.row.held = chat[q.chat].held
    /\ q.at = "delete" => ~chat[q.chat].held
    /\ q.at \in Appending /\ q.parent # NoMessage =>
          /\ q.parent \in Message
          /\ message[q.parent].chat = q.chat
          /\ \/ message[q.parent].status = "stored"
             \/ /\ message[q.parent].status = "deleted"
                /\ chat[q.chat].status = "deleted"
    /\ q.at \in Holding => Exists(q.chat)

HoldsAlone ==
    \A g, h \in Poster :
        poster[g].at \in Holding /\ poster[h].at \in Holding /\ poster[g].chat = poster[h].chat
            => g = h

\* The invariant: a hold is never lifted behind a request that looked at it, the row
\* of a conversation is locked by one append, and the transcripts are in order.
ChatIInv ==
    /\ ChatTypeOK
    /\ \A h \in Poster : Asked(poster[h])
    /\ \A c \in Chat : chat[c].held => Exists(c)
    /\ HoldsAlone
    /\ TranscriptIsInOrder

\* An empty workspace satisfies it.
LEMMA ChatInitOK == ChatInit => ChatIInv
<1> SUFFICES ASSUME ChatInit PROVE ChatIInv
  OBVIOUS
<1>1. ChatTypeOK
  BY DEF ChatInit, ChatTypeOK, ChatRow, MessageRow, Served, Shelf, NoChatRow, NoMessageRow, Unserved
<1>2. \A h \in Poster : poster[h].at = "idle"
  BY DEF ChatInit, Unserved
<1>3. \A h \in Poster : Asked(poster[h])
  BY <1>2 DEF Asked, Appending, Holding
<1>4. \A c \in Chat : ~chat[c].held /\ Stored(c) = {}
  BY DEF ChatInit, NoChatRow, Stored, NoMessageRow
<1>. QED
  BY <1>1, <1>2, <1>3, <1>4 DEF ChatIInv, HoldsAlone, Holding, TranscriptIsInOrder

\* A request that only moves on keeps the invariant, if what it now knows is true, if
\* it locks nothing that is locked, and if what it counted is what comes next.
LEMMA GotoKeeps ==
    ASSUME ChatIInv, NEW h \in Poster, NEW local \in Served, Goto(h, local),
           Asked(local),
           local.at \in Holding =>
               ~Locked(local.chat) \/ (poster[h].at \in Holding /\ poster[h].chat = local.chat),
           local.at = "insert" => Follows(local.chat, local.ordinal)
    PROVE  ChatIInv'
<1>1. UNCHANGED <<chat, folder, message>> /\ poster' = [poster EXCEPT ![h] = local]
  BY DEF Goto
<1>2. \A g \in Poster : poster'[g] = IF g = h THEN local ELSE poster[g]
  BY <1>1 DEF ChatIInv, ChatTypeOK
<1>3. ChatTypeOK'
  BY <1>1 DEF ChatIInv, ChatTypeOK
<1>4. \A g \in Poster : Asked(poster'[g])
  BY <1>2 DEF ChatIInv
<1>5. \A g \in Poster : Asked(poster[g])'
  BY <1>1, <1>4 DEF Asked, Exists
<1>6. HoldsAlone'
  BY <1>2 DEF ChatIInv, HoldsAlone, Locked, Holding
<1>7. TranscriptIsInOrder'
  <2>1. \A c \in Chat : Stored(c)' = Stored(c)
    BY <1>1 DEF Stored
  <2>2. \A c \in Chat, n \in Nat : Follows(c, n)' <=> Follows(c, n)
    BY <1>1 DEF Follows, Stored
  <2>3. \A c \in Chat : \A g \in Poster :
            poster'[g].at = "insert" /\ poster'[g].chat = c =>
                Exists(c) /\ Follows(c, poster'[g].ordinal)
    BY <1>2, <1>4 DEF ChatIInv, TranscriptIsInOrder, Asked, Holding
  <2>4. \A g \in Poster : poster'[g].ordinal \in Nat
    BY <1>3 DEF ChatTypeOK, Served
  <2>. QED
    BY <1>1, <2>1, <2>2, <2>3, <2>4 DEF ChatIInv, TranscriptIsInOrder, Exists
<1>. QED
  BY <1>1, <1>3, <1>5, <1>6, <1>7 DEF ChatIInv, Exists

\* A request that gives up forgets what it knew.
LEMMA UnservedKeeps ==
    ASSUME ChatIInv, NEW h \in Poster, Goto(h, Unserved)
    PROVE  ChatIInv'
<1>1. Unserved \in Served /\ Unserved.at = "idle"
  BY DEF Unserved, Served, NoChatRow, ChatRow, Shelf
<1>2. Asked(Unserved)
  BY <1>1 DEF Asked, Appending, Holding
<1>. QED
  BY <1>1, <1>2, GotoKeeps DEF Holding

\* The requests that read a row, look something up, or give up.
LEMMA GotoSteps ==
    ASSUME ChatIInv, NEW h \in Poster,
           \/ \E p \in Folder \union {NoFolder} :
                 CreateChat(h, p) \/ \E c \in Chat : ReadForMove(h, c, p)
           \/ \E c \in Chat, shelf \in Shelf : ReadChat(h, c, shelf)
           \/ \E c \in Chat : ReadForDelete(h, c)
           \/ \E p \in Folder, shelf \in Shelf : ReadFolder(h, p, shelf)
           \/ CheckFolder(h) \/ Refuse(h) \/ ChatIsGone(h) \/ PosterDies(h)
    PROVE  ChatIInv'
<1>. DEFINE q == poster[h]
<1>1. q \in Served /\ Asked(q)
  BY DEF ChatIInv, ChatTypeOK
<1>2. ASSUME NEW local \in Served, Goto(h, local), local.at \notin Appending, Asked(local)
      PROVE  ChatIInv'
  BY <1>2, GotoKeeps DEF Appending, Holding
<1>3. ASSUME NEW p \in Folder \union {NoFolder}, CreateChat(h, p) PROVE ChatIInv'
  <2>. DEFINE local == [Unserved EXCEPT !.at = "create", !.folder = p]
  <2>1. local \in Served /\ local.at = "create"
    BY DEF Unserved, Served, NoChatRow, ChatRow, Shelf
  <2>. QED
    BY <1>2, <1>3, <2>1 DEF CreateChat, Asked, Appending, Holding
<1>4. ASSUME NEW c \in Chat, NEW row \in ChatRow, Exists(c), row.status \in Shelf,
             row.held = chat[c].held, NEW at \in {"check", "edit"},
             at = "check" => row.folder \in Folder,
             Goto(h, [Unserved EXCEPT !.at = at, !.chat = c, !.row = row])
      PROVE  ChatIInv'
  <2>. DEFINE local == [Unserved EXCEPT !.at = at, !.chat = c, !.row = row]
  <2>1. local \in Served /\ local.at = at /\ local.chat = c /\ local.row = row
    BY DEF Unserved, Served, NoChatRow, ChatRow, Shelf
  <2>2. Asked(local) /\ local.at \notin Appending
    BY <1>4, <2>1 DEF Asked, Appending, Holding, Exists, Shelf
  <2>. QED
    BY <1>2, <1>4, <2>1, <2>2
<1>5. ASSUME NEW c \in Chat, NEW p \in Folder \union {NoFolder}, ReadForMove(h, c, p)
      PROVE  ChatIInv'
  <2>1. [chat[c] EXCEPT !.folder = p] \in ChatRow
    BY DEF ChatIInv, ChatTypeOK, ChatRow
  <2>2. /\ [chat[c] EXCEPT !.folder = p].status = chat[c].status
        /\ [chat[c] EXCEPT !.folder = p].held = chat[c].held
        /\ [chat[c] EXCEPT !.folder = p].folder = p
    BY DEF ChatIInv, ChatTypeOK, ChatRow
  <2>. QED
    BY <1>4, <1>5, <2>1, <2>2 DEF ReadForMove, Exists
<1>6. ASSUME NEW c \in Chat, NEW shelf \in Shelf, ReadChat(h, c, shelf) PROVE ChatIInv'
  <2>1. /\ [chat[c] EXCEPT !.status = shelf] \in ChatRow
        /\ [chat[c] EXCEPT !.status = shelf].status = shelf
        /\ [chat[c] EXCEPT !.status = shelf].held = chat[c].held
    BY DEF ChatIInv, ChatTypeOK, ChatRow
  <2>. QED
    BY <1>4, <1>6, <2>1 DEF ReadChat
<1>7. ASSUME NEW c \in Chat, ReadForDelete(h, c) PROVE ChatIInv'
  <2>. DEFINE local == [Unserved EXCEPT !.at = "delete", !.chat = c]
  <2>1. local \in Served /\ local.at = "delete" /\ local.chat = c
    BY DEF Unserved, Served, NoChatRow, ChatRow, Shelf
  <2>2. Asked(local) /\ local.at \notin Appending
    BY <1>7, <2>1 DEF Asked, Appending, Holding, Exists, Shelf, ReadForDelete, Deletable
  <2>. QED
    BY <1>2, <1>7, <2>1, <2>2 DEF ReadForDelete
<1>8. ASSUME NEW p \in Folder, NEW shelf \in Shelf, ReadFolder(h, p, shelf) PROVE ChatIInv'
  <2>. DEFINE local == [Unserved EXCEPT !.at = "shelve", !.folder = p, !.shelf = shelf]
  <2>1. local \in Served /\ local.at = "shelve" /\ local.folder = p
    BY DEF Unserved, Served, NoChatRow, ChatRow, Shelf
  <2>. QED
    BY <1>2, <1>8, <2>1 DEF ReadFolder, Asked, Appending, Holding
<1>9. ASSUME CheckFolder(h) PROVE ChatIInv'
  <2>. DEFINE local == [q EXCEPT !.at = "edit"]
  <2>1. CASE Goto(h, local)
    <3>1. /\ local \in Served /\ local.at = "edit"
          /\ local.chat = q.chat /\ local.row = q.row
      BY <1>1 DEF Served
    <3>2. q.at = "check"
      BY <1>9 DEF CheckFolder
    <3>3. Asked(local) /\ local.at \notin Appending
      BY <1>1, <3>1, <3>2 DEF Asked, Appending, Holding
    <3>. QED
      BY <1>2, <2>1, <3>1, <3>3
  <2>2. CASE Goto(h, Unserved)
    BY <2>2, UnservedKeeps
  <2>. QED
    BY <1>9, <2>1, <2>2 DEF CheckFolder
<1>10. ASSUME Refuse(h) \/ ChatIsGone(h) \/ PosterDies(h) PROVE ChatIInv'
  BY <1>10, UnservedKeeps DEF Refuse, ChatIsGone, PosterDies
<1>. QED
  BY <1>3, <1>5, <1>6, <1>7, <1>8, <1>9, <1>10

\* The steps of an append up to its INSERT.
LEMMA AppendSteps ==
    ASSUME ChatIInv, NEW h \in Poster,
           \/ \E c \in Chat, parent \in Message \union {NoMessage} : BeginAppend(h, c, parent)
           \/ ReadStatus(h) \/ LockChat(h) \/ CountMessages(h)
    PROVE  ChatIInv'
<1>. DEFINE q == poster[h]
<1>1. q \in Served /\ Asked(q)
  BY DEF ChatIInv, ChatTypeOK
<1>2. ASSUME NEW c \in Chat, NEW parent \in Message \union {NoMessage}, BeginAppend(h, c, parent)
      PROVE  ChatIInv'
  <2>. DEFINE local == [Unserved EXCEPT !.at = "append", !.chat = c, !.parent = parent]
  <2>1. /\ local \in Served /\ local.at = "append"
        /\ local.chat = c /\ local.parent = parent
    BY DEF Unserved, Served, NoChatRow, ChatRow, Shelf
  <2>2. Asked(local)
    BY <1>2, <2>1 DEF Asked, Appending, Holding, BeginAppend, Exists, Shelf, Stored
  <2>. QED
    BY <1>2, <2>1, <2>2, GotoKeeps DEF BeginAppend, Holding
<1>3. ASSUME ReadStatus(h) PROVE ChatIInv'
  <2>. DEFINE local == [q EXCEPT !.at = "lock"]
  <2>1. /\ local \in Served /\ local.at = "lock"
        /\ local.chat = q.chat /\ local.parent = q.parent
    BY <1>1 DEF Served
  <2>2. Asked(local)
    BY <1>1, <1>3, <2>1 DEF ReadStatus, Asked, Appending, Holding
  <2>. QED
    BY <1>3, <2>1, <2>2, GotoKeeps DEF ReadStatus, Holding
<1>4. ASSUME LockChat(h) PROVE ChatIInv'
  <2>. DEFINE local == [q EXCEPT !.at = "count"]
  <2>1. /\ local \in Served /\ local.at = "count"
        /\ local.chat = q.chat /\ local.parent = q.parent
    BY <1>1 DEF Served
  <2>2. Asked(local)
    BY <1>1, <1>4, <2>1 DEF LockChat, Asked, Appending, Holding
  <2>. QED
    BY <1>4, <2>1, <2>2, GotoKeeps DEF LockChat, Holding
<1>5. ASSUME CountMessages(h) PROVE ChatIInv'
  <2>1. PICK n \in {1} \union {message[m].ordinal + 1 : m \in Stored(q.chat)} :
            Follows(q.chat, n) /\ Goto(h, [q EXCEPT !.at = "insert", !.ordinal = n])
    BY <1>5 DEF CountMessages
  <2>2. n \in Nat
    BY <2>1 DEF Stored, ChatIInv, ChatTypeOK, MessageRow
  <2>. DEFINE local == [q EXCEPT !.at = "insert", !.ordinal = n]
  <2>3. /\ local \in Served /\ local.at = "insert" /\ local.ordinal = n
        /\ local.chat = q.chat /\ local.parent = q.parent
    BY <1>1, <2>2 DEF Served
  <2>4. q.at = "count"
    BY <1>5 DEF CountMessages
  <2>5. Asked(local)
    BY <1>1, <2>3, <2>4 DEF Asked, Appending, Holding
  <2>. QED
    BY <2>1, <2>3, <2>4, <2>5, GotoKeeps DEF Holding
<1>. QED
  BY <1>2, <1>3, <1>4, <1>5

\* A step that rewrites the row of one conversation, keeps its hold and does not
\* delete it, and leaves the messages.
LEMMA RowSteps ==
    ASSUME ChatIInv, NEW h \in Poster,
           \/ \E c \in Chat, held \in BOOLEAN : InsertChat(h, c, held)
           \/ WriteChat(h)
           \/ WriteFolder(h)
    PROVE  ChatIInv'
<1>. DEFINE q == poster[h]
<1>1. q \in Served /\ Asked(q)
  BY DEF ChatIInv, ChatTypeOK
<1>2. UNCHANGED message /\ poster' = [poster EXCEPT ![h] = Unserved]
  BY DEF InsertChat, WriteChat, WriteFolder
<1>3. \A g \in Poster : poster'[g] = IF g = h THEN Unserved ELSE poster[g]
  BY <1>2 DEF ChatIInv, ChatTypeOK
<1>4. Unserved \in Served /\ Unserved.at = "idle"
  BY DEF Unserved, Served, NoChatRow, ChatRow, Shelf
<1>. DEFINE Rewritten ==
            /\ chat' \in [Chat -> ChatRow]
            /\ \A c \in Chat :
                  /\ chat[c].status # "none" =>
                        /\ chat'[c].held = chat[c].held
                        /\ chat'[c].status # "none"
                        /\ Exists(c) => chat'[c].status \in Shelf
                        /\ chat[c].status = "deleted" => chat'[c].status = "deleted"
                  /\ chat'[c].held => chat'[c].status \in Shelf
<1>5. Rewritten
  <2>1. ASSUME NEW c \in Chat, NEW held \in BOOLEAN, InsertChat(h, c, held) PROVE Rewritten
    BY <1>1, <2>1 DEF InsertChat, ChatIInv, ChatTypeOK, ChatRow, Shelf, Served, Exists
  <2>2. ASSUME WriteChat(h) PROVE Rewritten
    <3>1. q.chat \in Chat /\ q.row \in ChatRow /\ q.row.status \in Shelf
              /\ q.row.held = chat[q.chat].held
      BY <1>1, <2>2 DEF WriteChat, Asked, Served, Appending
    <3>. QED
      BY <2>2, <3>1 DEF WriteChat, ChatIInv, ChatTypeOK, Shelf, Exists
  <2>3. ASSUME WriteFolder(h) PROVE Rewritten
    BY <2>3 DEF WriteFolder, ChatIInv, ChatTypeOK, Exists
  <2>. QED
    BY <2>1, <2>2, <2>3
<1>6. folder' \in [Folder -> Shelf]
  <2>1. ASSUME WriteFolder(h) PROVE folder' \in [Folder -> Shelf]
    BY <1>1, <2>1 DEF WriteFolder, ChatIInv, ChatTypeOK, Served
  <2>. QED
    BY <2>1 DEF InsertChat, WriteChat, ChatIInv, ChatTypeOK
<1>7. ChatTypeOK'
  BY <1>2, <1>4, <1>5, <1>6 DEF ChatIInv, ChatTypeOK
<1>8. \A g \in Poster : Asked(poster[g])'
  <2>. SUFFICES ASSUME NEW g \in Poster PROVE Asked(poster[g])'
    OBVIOUS
  <2>1. CASE g = h
    BY <1>3, <1>4, <2>1 DEF Asked, Appending, Holding
  <2>2. CASE g # h
    <3>1. Asked(poster[g]) /\ poster'[g] = poster[g]
      BY <1>3, <2>2 DEF ChatIInv
    <3>. QED
      BY <1>2, <1>5, <3>1 DEF Asked, Appending, Holding, Exists
  <2>. QED
    BY <2>1, <2>2
<1>9. HoldsAlone'
  BY <1>3, <1>4 DEF ChatIInv, HoldsAlone, Holding
<1>10. TranscriptIsInOrder'
  <2>1. \A c \in Chat : Stored(c)' = Stored(c)
    BY <1>2 DEF Stored
  <2>2. \A c \in Chat, n \in Nat : Follows(c, n)' <=> Follows(c, n)
    BY <1>2 DEF Follows, Stored
  <2>3. \A c \in Chat : \A g \in Poster :
            poster'[g].at = "insert" /\ poster'[g].chat = c =>
                Exists(c)' /\ Follows(c, poster'[g].ordinal)
    BY <1>3, <1>4, <1>5 DEF ChatIInv, TranscriptIsInOrder, Exists, Shelf
  <2>4. \A g \in Poster : poster'[g].ordinal \in Nat
    BY <1>7 DEF ChatTypeOK, Served
  <2>. QED
    BY <1>2, <2>1, <2>2, <2>3, <2>4 DEF ChatIInv, TranscriptIsInOrder
<1>. QED
  BY <1>5, <1>7, <1>8, <1>9, <1>10 DEF ChatIInv, Exists

\* A deletion takes the whole transcript, and waits for the append that holds it.
LEMMA DeleteKeeps ==
    ASSUME ChatIInv, NEW h \in Poster, DeleteChat(h)
    PROVE  ChatIInv'
<1>. DEFINE q == poster[h]
            c == q.chat
<1>1. q \in Served /\ Asked(q) /\ c \in Chat /\ ~Locked(c)
  BY DEF ChatIInv, ChatTypeOK, DeleteChat, Asked
<1>2. /\ UNCHANGED folder
      /\ \A g \in Poster : poster'[g] = IF g = h THEN Unserved ELSE poster[g]
      /\ poster' \in [Poster -> Served]
  BY DEF DeleteChat, ChatIInv, ChatTypeOK, Unserved, Served, NoChatRow, ChatRow, Shelf
<1>3. /\ chat' \in [Chat -> ChatRow]
      /\ \A d \in Chat : d # c => chat'[d] = chat[d]
      /\ chat'[c].status = "deleted" /\ chat'[c].held = chat[c].held
  BY <1>1 DEF DeleteChat, ChatIInv, ChatTypeOK, ChatRow
<1>4. \A m \in Message :
          message'[m] = IF m \in Stored(c) THEN [message[m] EXCEPT !.status = "deleted"]
                        ELSE message[m]
  BY DEF DeleteChat
<1>5. message' \in [Message -> MessageRow]
  BY DEF DeleteChat, ChatIInv, ChatTypeOK, MessageRow
<1>6. \A m \in Message : /\ message'[m].chat = message[m].chat
                         /\ message'[m].ordinal = message[m].ordinal
                         /\ message'[m].parent = message[m].parent
                         /\ message'[m].status = IF m \in Stored(c) THEN "deleted"
                                                 ELSE message[m].status
  BY <1>4 DEF ChatIInv, ChatTypeOK, MessageRow
<1>7. ChatTypeOK'
  BY <1>2, <1>3, <1>5 DEF ChatIInv, ChatTypeOK
<1>8. Unserved.at = "idle"
  BY DEF Unserved
<1>9. ASSUME NEW g \in Poster PROVE Asked(poster[g])'
  <2>1. CASE g = h
    BY <1>2, <1>8, <2>1 DEF Asked, Appending, Holding
  <2>2. CASE g # h
    <3>1. Asked(poster[g]) /\ poster'[g] = poster[g]
      BY <1>2, <2>2 DEF ChatIInv
    <3>2. poster[g].at \in Holding => poster[g].chat # c
      BY <1>1 DEF Locked, Holding
    <3>. QED
      BY <1>1, <1>3, <1>6, <3>1, <3>2 DEF Asked, Appending, Holding, Exists, Stored, Shelf
  <2>. QED
    BY <2>1, <2>2
<1>10. \A d \in Chat : chat'[d].held => chat'[d].status \in Shelf
  <2>1. ~chat[c].held
    BY <1>1 DEF Asked, DeleteChat
  <2>. QED
    BY <1>3, <2>1 DEF ChatIInv, Exists
<1>11. HoldsAlone'
  BY <1>2, <1>8 DEF ChatIInv, HoldsAlone, Holding
<1>12. TranscriptIsInOrder'
  <2>1. \A d \in Chat : d = c => Stored(d)' = {}
    BY <1>6 DEF Stored
  <2>2. \A d \in Chat : d # c => Stored(d)' = Stored(d)
    BY <1>6 DEF Stored
  <2>3. \A d \in Chat, n \in Nat : d # c => (Follows(d, n)' <=> Follows(d, n))
    <3>. SUFFICES ASSUME NEW d \in Chat, NEW n \in Nat, d # c
                  PROVE  Follows(d, n)' <=> Follows(d, n)
      OBVIOUS
    <3>1. \A m \in Stored(d) : message'[m].ordinal = message[m].ordinal
      BY <1>6 DEF Stored
    <3>. QED
      BY <2>2, <3>1 DEF Follows
  <2>4. \A g \in Poster : poster'[g].at = "insert" =>
            /\ poster'[g] = poster[g] /\ poster[g].chat # c
            /\ chat'[poster[g].chat] = chat[poster[g].chat]
    <3>. SUFFICES ASSUME NEW g \in Poster, poster'[g].at = "insert"
                  PROVE  /\ poster'[g] = poster[g] /\ poster[g].chat # c
                         /\ chat'[poster[g].chat] = chat[poster[g].chat]
      OBVIOUS
    <3>1. poster'[g] = poster[g] /\ poster[g].chat # c
      BY <1>1, <1>2, <1>8 DEF Locked
    <3>2. poster[g].chat \in Chat
      BY <3>1 DEF ChatIInv, Asked, Appending
    <3>. QED
      BY <1>3, <3>1, <3>2
  <2>5. \A g \in Poster : poster'[g].ordinal \in Nat
    BY <1>2 DEF Served
  <2>6. ASSUME NEW d \in Chat, NEW m \in Stored(d)'
        PROVE  /\ \A i \in 1..message'[m].ordinal - 1 :
                     \E n \in Stored(d)' : message'[n].ordinal = i
               /\ \A n \in Stored(d)' : message'[n].ordinal = message'[m].ordinal => n = m
               /\ message'[m].parent # NoMessage =>
                     /\ message'[m].parent \in Stored(d)'
                     /\ message'[message'[m].parent].ordinal < message'[m].ordinal
    <3>1. d # c /\ Stored(d)' = Stored(d) /\ m \in Stored(d)
      BY <2>1, <2>2, <2>6
    <3>2. \A n \in Stored(d) : /\ message'[n].ordinal = message[n].ordinal
                               /\ message'[n].parent = message[n].parent
      BY <1>6 DEF Stored
    <3>. QED
      BY <3>1, <3>2 DEF ChatIInv, TranscriptIsInOrder
  <2>7. ASSUME NEW d \in Chat, NEW g \in Poster, NEW n \in Nat,
               poster'[g].at = "insert", poster'[g].chat = d, poster'[g].ordinal = n
        PROVE  Exists(d)' /\ Follows(d, n)'
    <3>1. Exists(d) /\ Follows(d, n) /\ d # c /\ chat'[d] = chat[d]
      BY <2>4, <2>7 DEF ChatIInv, TranscriptIsInOrder
    <3>. QED
      BY <2>3, <3>1 DEF Exists
  <2>. QED
    BY <2>5, <2>6, <2>7 DEF TranscriptIsInOrder, Follows, Exists
<1>. QED
  BY <1>7, <1>9, <1>10, <1>11, <1>12 DEF ChatIInv, Exists

\* What is inserted takes the next ordinal, and stands after what it replies to.
LEMMA InsertKeeps ==
    ASSUME ChatIInv, NEW h \in Poster, NEW m \in Message, InsertMessage(h, m)
    PROVE  ChatIInv'
<1>. DEFINE q == poster[h]
            c == q.chat
            k == q.ordinal
<1>1. q \in Served /\ Asked(q) /\ q.at = "insert" /\ c \in Chat /\ k \in Nat
  BY DEF ChatIInv, ChatTypeOK, InsertMessage, Asked, Appending, Served
<1>2. Exists(c) /\ Follows(c, k)
  BY <1>1 DEF ChatIInv, TranscriptIsInOrder
<1>3. /\ UNCHANGED <<chat, folder>>
      /\ \A g \in Poster : poster'[g] = IF g = h THEN Unserved ELSE poster[g]
      /\ poster' \in [Poster -> Served]
  BY DEF InsertMessage, ChatIInv, ChatTypeOK, Unserved, Served, NoChatRow, ChatRow, Shelf
<1>. DEFINE new == [status |-> "stored", chat |-> c, ordinal |-> k, parent |-> q.parent]
<1>4. /\ message[m].status = "none"
      /\ message' = [message EXCEPT ![m] = new]
      /\ new \in MessageRow
  BY <1>1 DEF InsertMessage, Served, MessageRow
<1>5. \A n \in Message : message'[n] = IF n = m THEN new ELSE message[n]
  BY <1>4 DEF ChatIInv, ChatTypeOK
<1>6. ChatTypeOK'
  BY <1>3, <1>4 DEF ChatIInv, ChatTypeOK
<1>7. Unserved.at = "idle"
  BY DEF Unserved
<1>8. ASSUME NEW g \in Poster PROVE Asked(poster[g])'
  <2>1. CASE g = h
    BY <1>3, <1>7, <2>1 DEF Asked, Appending, Holding
  <2>2. CASE g # h
    <3>1. Asked(poster[g]) /\ poster'[g] = poster[g]
      BY <1>3, <2>2 DEF ChatIInv
    <3>. QED
      BY <1>3, <1>4, <1>5, <3>1 DEF Asked, Appending, Holding, Exists
  <2>. QED
    BY <2>1, <2>2
<1>9. HoldsAlone'
  BY <1>3, <1>7 DEF ChatIInv, HoldsAlone, Holding
<1>10. \A d \in Chat : Stored(d)' = IF d = c THEN Stored(d) \union {m} ELSE Stored(d)
  BY <1>4, <1>5 DEF Stored
<1>11. m \notin Stored(c)
  BY <1>4 DEF Stored
<1>12. \A g \in Poster : poster'[g].at = "insert" => poster'[g] = poster[g] /\ poster[g].chat # c
  BY <1>1, <1>3, <1>7 DEF ChatIInv, HoldsAlone, Holding
<1>13. ASSUME NEW g \in Poster, NEW d \in Chat, NEW n \in Nat,
              poster'[g].at = "insert", poster'[g].chat = d, poster'[g].ordinal = n
       PROVE  Exists(d)' /\ Follows(d, n)'
  <2>1. poster'[g] = poster[g] /\ d # c
    BY <1>12, <1>13
  <2>2. Exists(d) /\ Follows(d, n)
    BY <1>13, <2>1 DEF ChatIInv, TranscriptIsInOrder
  <2>3. \A j \in Stored(d) : message'[j].ordinal = message[j].ordinal
    BY <1>4, <1>5 DEF Stored
  <2>4. Stored(d)' = Stored(d)
    BY <1>10, <2>1
  <2>. QED
    BY <1>3, <2>1, <2>2, <2>3, <2>4 DEF Exists, Follows
<1>14. q.parent # NoMessage =>
           q.parent \in Stored(c) /\ message[q.parent].ordinal < k
  <2>1. q.parent # NoMessage => q.parent \in Stored(c)
    BY <1>1, <1>2 DEF Asked, Appending, Stored, Exists, Shelf
  <2>. QED
    BY <1>2, <2>1 DEF Follows
<1>15. ASSUME NEW i \in 1..k - 1 PROVE \E n \in Stored(c) : message[n].ordinal = i
  <2>1. PICK n \in Stored(c) : k = message[n].ordinal + 1
    BY <1>1, <1>2, <1>15 DEF Follows
  <2>2. n \in Message /\ message[n].ordinal \in Nat
    BY <2>1 DEF Stored, ChatIInv, ChatTypeOK, MessageRow
  <2>3. CASE i = k - 1
    BY <1>1, <2>1, <2>2, <2>3
  <2>4. CASE i \in 1..message[n].ordinal - 1
    BY <1>1, <2>1, <2>4 DEF ChatIInv, TranscriptIsInOrder
  <2>. QED
    BY <1>1, <1>15, <2>1, <2>2, <2>3, <2>4
<1>16. \A n \in Stored(c) : message[n].ordinal \in Nat /\ message[n].ordinal < k
  BY <1>1, <1>2 DEF Follows, Stored, ChatIInv, ChatTypeOK, MessageRow
<1>17. ASSUME NEW d \in Chat, NEW j \in Stored(d)'
       PROVE  /\ \A i \in 1..message'[j].ordinal - 1 :
                    \E n \in Stored(d)' : message'[n].ordinal = i
              /\ \A n \in Stored(d)' : message'[n].ordinal = message'[j].ordinal => n = j
              /\ message'[j].parent # NoMessage =>
                    /\ message'[j].parent \in Stored(d)'
                    /\ message'[message'[j].parent].ordinal < message'[j].ordinal
  <2>1. \A n \in Stored(d) : message'[n] = message[n]
    BY <1>4, <1>5 DEF Stored
  <2>2. message'[m].ordinal = k /\ message'[m].parent = q.parent
    BY <1>5
  <2>3. CASE j \in Stored(d)
    <3>1. /\ \A i \in 1..message[j].ordinal - 1 : \E n \in Stored(d) : message[n].ordinal = i
          /\ \A n \in Stored(d) : message[n].ordinal = message[j].ordinal => n = j
          /\ message[j].parent # NoMessage =>
                /\ message[j].parent \in Stored(d)
                /\ message[message[j].parent].ordinal < message[j].ordinal
      BY <2>3 DEF ChatIInv, TranscriptIsInOrder
    <3>2. Stored(d) \subseteq Stored(d)' /\ message'[j] = message[j]
      BY <1>10, <2>1, <2>3
    <3>3. \A n \in Stored(d)' : message'[n].ordinal = message'[j].ordinal => n = j
      BY <1>10, <1>16, <2>1, <2>2, <2>3, <3>1, <3>2
    <3>. QED
      BY <2>1, <3>1, <3>2, <3>3
  <2>4. CASE d = c /\ j = m
    <3>1. Stored(d)' = Stored(c) \union {m}
      BY <1>10, <2>4
    <3>. QED
      BY <1>14, <1>15, <1>16, <2>1, <2>2, <2>4, <3>1
  <2>. QED
    BY <1>10, <1>17, <2>3, <2>4
<1>18. TranscriptIsInOrder'
  <2>1. \A g \in Poster : poster'[g].ordinal \in Nat
    BY <1>3 DEF Served
  <2>. QED
    BY <1>13, <1>17, <2>1 DEF TranscriptIsInOrder, Follows, Exists
<1>. QED
  BY <1>3, <1>6, <1>8, <1>9, <1>18 DEF ChatIInv, Exists

\* What requests know, the lock of an append and the order of the transcripts hold
\* together through every step of every handler.
THEOREM ChatInvariance == ChatSpec => []ChatIInv
<1>1. ChatInit => ChatIInv
  BY ChatInitOK
<1>2. ASSUME ChatIInv, ChatNext PROVE ChatIInv'
  <2>1. PICK h \in Poster : Edits(h) \/ Appends(h) \/ PosterDies(h)
    BY <1>2 DEF ChatNext
  <2>2. CASE Edits(h)
    BY <1>2, <2>2, GotoSteps, RowSteps, DeleteKeeps DEF Edits
  <2>3. CASE Appends(h)
    BY <1>2, <2>3, GotoSteps, AppendSteps, InsertKeeps DEF Appends
  <2>4. CASE PosterDies(h)
    BY <1>2, <2>4, GotoSteps
  <2>. QED
    BY <2>1, <2>2, <2>3, <2>4
<1>3. ASSUME ChatIInv, UNCHANGED chatVars PROVE ChatIInv'
  <2>1. UNCHANGED <<chat, folder, message, poster>>
    BY <1>3 DEF chatVars
  <2>2. ChatTypeOK'
    BY <1>3, <2>1 DEF ChatIInv, ChatTypeOK
  <2>3. \A h \in Poster : Asked(poster[h])'
    BY <1>3, <2>1 DEF ChatIInv, Asked, Exists
  <2>4. HoldsAlone'
    BY <1>3, <2>1 DEF ChatIInv, HoldsAlone
  <2>5. TranscriptIsInOrder'
    BY <1>3, <2>1 DEF ChatIInv, TranscriptIsInOrder, Stored, Follows, Exists
  <2>. QED
    BY <1>3, <2>1, <2>2, <2>3, <2>4, <2>5 DEF ChatIInv, Exists
<1>. QED
  BY <1>1, <1>2, <1>3, PTL DEF ChatSpec

\* The rows and the requests keep their types: no stale row that is written back is
\* one the tables do not admit.
THEOREM ChatTypeCorrect == ChatSpec => []ChatTypeOK
<1>1. ChatIInv => ChatTypeOK
  BY DEF ChatIInv
<1>. QED
  BY <1>1, ChatInvariance, PTL

\* Ordinals are 1, 2, ... without gap or collision and replies follow what they answer,
\* for any number of handlers, conversations and messages.
THEOREM OrderIsKept == ChatSpec => []TranscriptIsInOrder
<1>1. ChatIInv => TranscriptIsInOrder
  BY DEF ChatIInv
<1>. QED
  BY <1>1, ChatInvariance, PTL

\* No step drops or rewrites a stored message, except the deletion of a conversation
\* that is not held; a hold is never lifted and a deletion never undone.
THEOREM NothingIsLost == ChatSpec => TranscriptsAreKept
<1>. DEFINE Kept ==
        /\ \A m \in Message : message[m].status = "stored" =>
              \/ message'[m] = message[m]
              \/ chat'[message[m].chat].status = "deleted" /\ message'[m].status = "deleted"
        /\ \A m \in Message : message[m].status = "deleted" => message'[m] = message[m]
        /\ \A c \in Chat :
              /\ chat[c].held => chat'[c].held /\ chat'[c].status # "deleted"
              /\ chat[c].status = "deleted" => chat'[c] = chat[c]
<1>1. ASSUME ChatIInv, UNCHANGED <<chat, message>> PROVE Kept
  BY <1>1 DEF ChatIInv, Exists, Shelf
<1>2. ASSUME ChatIInv, NEW h \in Poster, NEW c \in Chat, NEW held \in BOOLEAN,
             InsertChat(h, c, held)
      PROVE  Kept
  <2>1. /\ message' = message /\ chat[c].status = "none"
        /\ chat'[c].status = "active"
        /\ \A d \in Chat : d # c => chat'[d] = chat[d]
    BY <1>2 DEF InsertChat, ChatIInv, ChatTypeOK
  <2>. QED
    BY <1>2, <2>1 DEF ChatIInv, Exists, Shelf
<1>3. ASSUME ChatIInv, NEW h \in Poster, WriteChat(h) PROVE Kept
  <2>. DEFINE q == poster[h]
  <2>1. q.chat \in Chat /\ q.row.status \in Shelf /\ q.row.held = chat[q.chat].held
    BY <1>3 DEF ChatIInv, WriteChat, Asked
  <2>2. /\ message' = message
        /\ \A d \in Chat : d # q.chat => chat'[d] = chat[d]
        /\ chat'[q.chat] = IF Exists(q.chat) THEN q.row ELSE chat[q.chat]
    BY <1>3, <2>1 DEF WriteChat, ChatIInv, ChatTypeOK
  <2>. QED
    BY <1>3, <2>1, <2>2 DEF ChatIInv, ChatTypeOK, Exists, Shelf
<1>4. ASSUME ChatIInv, NEW h \in Poster, DeleteChat(h) PROVE Kept
  <2>. DEFINE c == poster[h].chat
  <2>1. c \in Chat /\ ~chat[c].held
    BY <1>4 DEF ChatIInv, DeleteChat, Asked
  <2>2. /\ \A d \in Chat : d # c => chat'[d] = chat[d]
        /\ chat'[c] = [chat[c] EXCEPT !.status = "deleted"]
        /\ \A m \in Message : message'[m] = IF m \in Stored(c)
                                THEN [message[m] EXCEPT !.status = "deleted"] ELSE message[m]
    BY <1>4, <2>1 DEF DeleteChat, ChatIInv, ChatTypeOK
  <2>3. /\ chat'[c].status = "deleted"
        /\ chat[c].status = "deleted" => chat'[c] = chat[c]
    BY <1>4, <2>1, <2>2 DEF ChatIInv, ChatTypeOK, ChatRow
  <2>4. \A m \in Stored(c) : message[m].status = "stored" /\ message[m].chat = c
                                /\ message'[m].status = "deleted"
    BY <1>4, <2>2 DEF Stored, ChatIInv, ChatTypeOK, MessageRow
  <2>5. \A m \in Message : m \notin Stored(c) => message'[m] = message[m]
    BY <2>2
  <2>6. \A d \in Chat : chat[d].held => d # c /\ chat'[d] = chat[d] /\ chat[d].status \in Shelf
    BY <1>4, <2>1, <2>2 DEF ChatIInv, Exists
  <2>. QED
    BY <2>1, <2>2, <2>3, <2>4, <2>5, <2>6 DEF Shelf
<1>5. ASSUME ChatIInv, NEW h \in Poster, NEW m \in Message, InsertMessage(h, m) PROVE Kept
  <2>1. /\ chat' = chat /\ message[m].status = "none"
        /\ \A n \in Message : n # m => message'[n] = message[n]
    BY <1>5 DEF InsertMessage, ChatIInv, ChatTypeOK
  <2>. QED
    BY <1>5, <2>1 DEF ChatIInv, Exists, Shelf
<1>6. ASSUME ChatIInv, ChatNext PROVE Kept
  <2>1. PICK h \in Poster : Edits(h) \/ Appends(h) \/ PosterDies(h)
    BY <1>6 DEF ChatNext
  <2>2. CASE UNCHANGED <<chat, message>>
    BY <1>1, <1>6, <2>2
  <2>3. CASE Edits(h)
    <3>1. CASE \E c \in Chat, held \in BOOLEAN : InsertChat(h, c, held)
      BY <1>2, <1>6, <3>1
    <3>2. CASE WriteChat(h)
      BY <1>3, <1>6, <3>2
    <3>3. CASE DeleteChat(h)
      BY <1>4, <1>6, <3>3
    <3>4. CASE \/ \E c \in Chat : ReadForDelete(h, c) \/ \E shelf \in Shelf : ReadChat(h, c, shelf)
               \/ \E p \in Folder \union {NoFolder} :
                     CreateChat(h, p) \/ \E c \in Chat : ReadForMove(h, c, p)
               \/ CheckFolder(h) \/ WriteFolder(h)
               \/ \E p \in Folder, shelf \in Shelf : ReadFolder(h, p, shelf)
      <4>1. UNCHANGED <<chat, message>>
        BY <3>4 DEF ReadForDelete, ReadChat, CreateChat, ReadForMove, CheckFolder, WriteFolder,
                    ReadFolder, Goto
      <4>. QED
        BY <2>2, <4>1
    <3>. QED
      BY <2>3, <3>1, <3>2, <3>3, <3>4 DEF Edits
  <2>4. CASE Appends(h)
    <3>1. CASE \E m \in Message : InsertMessage(h, m)
      BY <1>5, <1>6, <3>1
    <3>2. CASE \/ \E c \in Chat, parent \in Message \union {NoMessage} : BeginAppend(h, c, parent)
               \/ Refuse(h) \/ ReadStatus(h) \/ LockChat(h) \/ ChatIsGone(h) \/ CountMessages(h)
      <4>1. UNCHANGED <<chat, message>>
        BY <3>2 DEF BeginAppend, Refuse, ReadStatus, LockChat, ChatIsGone, CountMessages, Goto
      <4>. QED
        BY <2>2, <4>1
    <3>. QED
      BY <2>4, <3>1, <3>2 DEF Appends
  <2>5. CASE PosterDies(h)
    BY <2>2, <2>5 DEF PosterDies, Goto
  <2>. QED
    BY <2>1, <2>3, <2>4, <2>5
<1>7. ChatIInv /\ [ChatNext]_chatVars => [Kept]_chatVars
  BY <1>6
<1>8. ChatSpec => [][Kept]_chatVars
  BY <1>7, ChatInvariance, PTL DEF ChatSpec
<1>. QED
  BY <1>8 DEF TranscriptsAreKept

-----------------------------------------------------------------------------
(***************************************************************************)
(* The transcripts as a reader sees them.                                  *)
(***************************************************************************)
\* What is inserted or deleted leaves the ordinals of a conversation an interval from 1,
\* and a conversation that is not there has no messages.
Numbered(c) == \E n \in Nat : Ordinals(c) = 1..n

ShownIInv ==
    /\ ChatIInv
    /\ \A c \in Chat : Numbered(c)
    /\ \A c \in Chat : Exists(c) \/ Stored(c) = {}

\* An element that is told apart by a field is the one that is chosen by it.
LEMMA ChosenAlone ==
    ASSUME NEW S, NEW row, NEW m \in S,
           \A n \in S : row[n].ordinal = row[m].ordinal => n = m
    PROVE  (CHOOSE n \in S : row[n].ordinal = row[m].ordinal) = m
OBVIOUS

\* In a transcript that is in order every stored message is listed at its ordinal, ...
LEMMA ListedAt ==
    ASSUME TranscriptIsInOrder, NEW c \in Chat, NEW m \in Stored(c)
    PROVE  Listed(c, message[m].ordinal) = [message |-> m, parent |-> message[m].parent]
<1>1. \A n \in Stored(c) : message[n].ordinal = message[m].ordinal => n = m
  BY DEF TranscriptIsInOrder
<1>2. (CHOOSE n \in Stored(c) : message[n].ordinal = message[m].ordinal) = m
  BY <1>1, ChosenAlone
<1>. QED
  BY <1>2 DEF Listed

\* ... and so it is after a step.
LEMMA ListedAtNext ==
    ASSUME TranscriptIsInOrder', NEW c \in Chat, NEW m \in Stored(c)', NEW n,
           message'[m].ordinal = n
    PROVE  Listed(c, n)' = [message |-> m, parent |-> message'[m].parent]
<1>1. \A j \in Stored(c)' : message'[j].ordinal = message'[m].ordinal => j = m
  BY DEF TranscriptIsInOrder
<1>2. (CHOOSE j \in Stored(c)' : message'[j].ordinal = message'[m].ordinal) = m
  BY <1>1, ChosenAlone
<1>3. (CHOOSE j \in Stored(c)' : message'[j].ordinal = n) = m
  BY <1>2
<1>. QED
  BY <1>3 DEF Listed

\* A function on an interval from 1 grows by one entry as Append says.
LEMMA AppendIs ==
    ASSUME NEW n \in Nat, NEW S, NEW f \in [1..n -> S], NEW g \in [1..n + 1 -> S],
           \A i \in 1..n : g[i] = f[i]
    PROVE  g = Append(f, g[n + 1])
<1>1. f \in Seq(S) /\ Len(f) = n
  OBVIOUS
<1>2. g \in Seq(S) /\ Len(g) = n + 1 /\ g[n + 1] \in S
  OBVIOUS
<1>3. /\ Append(f, g[n + 1]) \in Seq(S) /\ Len(Append(f, g[n + 1])) = n + 1
      /\ \A i \in 1..n : Append(f, g[n + 1])[i] = f[i]
      /\ Append(f, g[n + 1])[n + 1] = g[n + 1]
  BY <1>1, <1>2, AppendProperties
<1>4. \A i \in 1..n + 1 : g[i] = Append(f, g[n + 1])[i]
  <2>1. \A i \in 1..n + 1 : i = n + 1 \/ i \in 1..n
    OBVIOUS
  <2>. QED
    BY <1>3, <2>1
<1>. QED
  BY <1>2, <1>3, <1>4, SeqEqual

\* The messages of a conversation that no step touches are listed as before.
LEMMA ListingStays ==
    ASSUME ChatIInv, ChatIInv', NEW c \in Chat, Stored(c)' = Stored(c),
           \A m \in Stored(c) : message'[m] = message[m]
    PROVE  Ordinals(c)' = Ordinals(c) /\ log'[c] = log[c]
<1>1. Ordinals(c)' = Ordinals(c)
  BY DEF Ordinals
<1>2. ASSUME NEW n \in Ordinals(c) PROVE Listed(c, n)' = Listed(c, n)
  <2>1. PICK m \in Stored(c) : message[m].ordinal = n
    BY <1>2 DEF Ordinals
  <2>2. Listed(c, n) = [message |-> m, parent |-> message[m].parent]
    BY <2>1, ListedAt DEF ChatIInv
  <2>3. m \in Stored(c)' /\ message'[m].ordinal = n /\ message'[m] = message[m]
    BY <2>1
  <2>4. Listed(c, n)' = [message |-> m, parent |-> message'[m].parent]
    BY <2>3, ListedAtNext DEF ChatIInv
  <2>. QED
    BY <2>2, <2>3, <2>4
<1>3. log'[c] = [n \in Ordinals(c)' |-> Listed(c, n)']
  BY DEF log
<1>4. log[c] = [n \in Ordinals(c) |-> Listed(c, n)]
  BY DEF log
<1>. QED
  BY <1>1, <1>2, <1>3, <1>4

\* An empty workspace shows no transcripts.
LEMMA ShownInit == ChatInit => ShownIInv /\ Shown!Init
<1> SUFFICES ASSUME ChatInit PROVE ShownIInv /\ Shown!Init
  OBVIOUS
<1>1. \A c \in Chat : Stored(c) = {} /\ chat[c].status = "none"
  BY DEF ChatInit, Stored, NoMessageRow, NoChatRow
<1>2. \A c \in Chat : Ordinals(c) = {} /\ Ordinals(c) = 1..0
  BY <1>1 DEF Ordinals
<1>3. ShownIInv
  BY <1>1, <1>2, ChatInitOK DEF ShownIInv, Numbered
<1>4. phase = [c \in Chat |-> "none"]
  BY <1>1 DEF phase, Phase, Exists, Shelf
<1>5. \A c \in Chat : [n \in Ordinals(c) |-> Listed(c, n)] = <<>>
  BY <1>2
<1>6. log = [c \in Chat |-> <<>>]
  BY <1>5 DEF log
<1>7. used = {}
  BY DEF ChatInit, used, NoMessageRow
<1>. QED
  BY <1>3, <1>4, <1>6, <1>7 DEF Shown!Init

\* A step that leaves the messages, and the phases, shows nothing.
LEMMA ShownStutter ==
    ASSUME ShownIInv, ChatIInv', UNCHANGED message, \A c \in Chat : Phase(c)' = Phase(c)
    PROVE  ShownIInv' /\ UNCHANGED Shown!vars
<1>1. \A c \in Chat : Stored(c)' = Stored(c) /\ \A m \in Stored(c) : message'[m] = message[m]
  BY DEF Stored
<1>2. \A c \in Chat : Ordinals(c)' = Ordinals(c) /\ log'[c] = log[c]
  BY <1>1, ListingStays DEF ShownIInv
<1>3. phase' = phase /\ used' = used
  BY DEF phase, used
<1>4. log' = log
  BY <1>2 DEF log
<1>5. \A c \in Chat : Exists(c)' <=> Exists(c)
  <2>1. \A c \in Chat : chat'[c].status \in Shelf \union {"none", "deleted"}
                            /\ chat[c].status \in Shelf \union {"none", "deleted"}
    BY DEF ShownIInv, ChatIInv, ChatTypeOK, ChatRow
  <2>. QED
    BY <2>1 DEF Phase, Exists, Shelf
<1>6. ShownIInv'
  BY <1>1, <1>2, <1>5 DEF ShownIInv, Numbered
<1>. QED
  BY <1>3, <1>4, <1>6 DEF Shown!vars

\* A conversation is created empty.
LEMMA ShownCreate ==
    ASSUME ShownIInv, ChatIInv', NEW h \in Poster, NEW c \in Chat, NEW held \in BOOLEAN,
           InsertChat(h, c, held)
    PROVE  ShownIInv' /\ Shown!Next
<1>1. /\ chat[c].status = "none" /\ message' = message
      /\ \A d \in Chat : d # c => chat'[d] = chat[d]
      /\ chat'[c].status = "active" /\ chat'[c].held = held
  BY DEF InsertChat, ShownIInv, ChatIInv, ChatTypeOK
<1>2. \A d \in Chat : Stored(d)' = Stored(d) /\ \A m \in Stored(d) : message'[m] = message[m]
  BY <1>1 DEF Stored
<1>3. \A d \in Chat : Ordinals(d)' = Ordinals(d) /\ log'[d] = log[d]
  BY <1>2, ListingStays DEF ShownIInv
<1>4. log' = log
  BY <1>3 DEF log
<1>5. used' = used
  BY <1>1 DEF used
<1>6. \A d \in Chat : Phase(d)' = IF d = c THEN IF held THEN "held" ELSE "open" ELSE Phase(d)
  BY <1>1 DEF Phase, Exists, Shelf
<1>7. phase' = [phase EXCEPT ![c] = IF held THEN "held" ELSE "open"] /\ phase[c] = "none"
  BY <1>1, <1>6 DEF phase, Phase, Exists, Shelf
<1>8. ShownIInv'
  BY <1>1, <1>2, <1>3 DEF ShownIInv, Numbered, Exists, Shelf
<1>9. phase'[c] = IF held THEN "held" ELSE "open"
  BY <1>6 DEF phase
<1>10. Shown!Create(c)
  BY <1>4, <1>5, <1>7, <1>9 DEF Shown!Create
<1>. QED
  BY <1>8, <1>10 DEF Shown!Next

\* A deletion empties the transcript of a conversation that is open, or finds it gone.
LEMMA ShownDelete ==
    ASSUME ShownIInv, ChatIInv', NEW h \in Poster, DeleteChat(h)
    PROVE  ShownIInv' /\ (Shown!Next \/ UNCHANGED Shown!vars)
<1>1. PICK c \in Chat : /\ c = poster[h].chat /\ ~chat[c].held /\ chat[c].status # "none"
                        /\ chat[c] \in ChatRow
  BY DEF ShownIInv, ChatIInv, ChatTypeOK, DeleteChat, Asked
<1>2. /\ \A d \in Chat : d # c => chat'[d] = chat[d]
      /\ chat'[c].status = "deleted"
      /\ \A m \in Message : message'[m] = IF m \in Stored(c)
                              THEN [message[m] EXCEPT !.status = "deleted"] ELSE message[m]
  BY <1>1 DEF DeleteChat, ShownIInv, ChatIInv, ChatTypeOK
<1>3. \A m \in Message : /\ message'[m].chat = message[m].chat
                         /\ message'[m].status = IF m \in Stored(c) THEN "deleted"
                                                 ELSE message[m].status
  BY <1>2 DEF ShownIInv, ChatIInv, ChatTypeOK, MessageRow
<1>4. \A d \in Chat : Stored(d)' = IF d = c THEN {} ELSE Stored(d)
  BY <1>3 DEF Stored
<1>5. \A d \in Chat : d # c => \A m \in Stored(d) : message'[m] = message[m]
  BY <1>2 DEF Stored
<1>6. \A d \in Chat : d # c => Ordinals(d)' = Ordinals(d) /\ log'[d] = log[d]
  BY <1>4, <1>5, ListingStays DEF ShownIInv
<1>7. Ordinals(c)' = {} /\ Ordinals(c)' = 1..0
  BY <1>1, <1>4 DEF Ordinals
<1>8. ShownIInv'
  BY <1>2, <1>4, <1>6, <1>7 DEF ShownIInv, Numbered, Exists
<1>9. log'[c] = <<>>
  <2>1. log'[c] = [n \in Ordinals(c)' |-> Listed(c, n)']
    BY <1>1 DEF log
  <2>. QED
    BY <1>7, <2>1
<1>10. used' = used
  BY <1>3 DEF used, Stored
<1>11. \A d \in Chat : Phase(d)' = IF d = c THEN "deleted" ELSE Phase(d)
  BY <1>2 DEF Phase, Exists, Shelf
<1>12. phase' = [phase EXCEPT ![c] = "deleted"]
  BY <1>11 DEF phase
<1>13. CASE Exists(c)
  <2>1. phase[c] = "open"
    BY <1>1, <1>13 DEF phase, Phase
  <2>2. log' = [log EXCEPT ![c] = <<>>]
    BY <1>6, <1>9 DEF log
  <2>3. Shown!Delete(c)
    BY <1>10, <1>12, <2>1, <2>2 DEF Shown!Delete
  <2>. QED
    BY <1>1, <1>8, <2>3 DEF Shown!Next
<1>14. CASE ~Exists(c)
  <2>1. phase[c] = "deleted"
    BY <1>1, <1>14 DEF phase, Phase, Exists, ChatRow, Shelf
  <2>2. phase' = phase
    BY <1>12, <2>1 DEF phase
  <2>3. log[c] = <<>>
    <3>1. Ordinals(c) = {}
      BY <1>1, <1>14 DEF ShownIInv, Ordinals
    <3>2. log[c] = [n \in Ordinals(c) |-> Listed(c, n)]
      BY <1>1 DEF log
    <3>. QED
      BY <3>1, <3>2
  <2>4. log' = log
    BY <1>6, <1>9, <2>3 DEF log
  <2>. QED
    BY <1>8, <1>10, <2>2, <2>4 DEF Shown!vars
<1>. QED
  BY <1>13, <1>14

\* An append adds its message at the end of the transcript, below what it replies to.
LEMMA ShownPost ==
    ASSUME ShownIInv, ChatIInv', NEW h \in Poster, NEW m \in Message, InsertMessage(h, m)
    PROVE  ShownIInv' /\ Shown!Next
<1>1. PICK q \in Served, c \in Chat, k \in Nat :
          /\ q = poster[h] /\ Asked(q) /\ q.at = "insert"
          /\ c = q.chat /\ k = q.ordinal
  BY DEF ShownIInv, ChatIInv, ChatTypeOK, InsertMessage, Asked, Appending, Served
<1>2. Exists(c) /\ Follows(c, k)
  BY <1>1 DEF ShownIInv, ChatIInv, TranscriptIsInOrder
<1>. DEFINE new == [status |-> "stored", chat |-> c, ordinal |-> k, parent |-> q.parent]
<1>3. /\ message[m].status = "none" /\ chat' = chat
      /\ \A j \in Message : message'[j] = IF j = m THEN new ELSE message[j]
  BY <1>1 DEF InsertMessage, ShownIInv, ChatIInv, ChatTypeOK
<1>4. \A d \in Chat : Stored(d)' = IF d = c THEN Stored(d) \union {m} ELSE Stored(d)
  BY <1>1, <1>3 DEF Stored
<1>5. m \notin Stored(c)
  BY <1>3 DEF Stored
<1>6. \A d \in Chat : \A j \in Stored(d) : message'[j] = message[j]
  BY <1>3 DEF Stored
<1>7. \A d \in Chat : d # c => Ordinals(d)' = Ordinals(d) /\ log'[d] = log[d]
  BY <1>4, <1>6, ListingStays DEF ShownIInv
<1>8. PICK n \in Nat : Ordinals(c) = 1..n
  BY <1>1 DEF ShownIInv, Numbered
<1>9. k = n + 1
  <2>1. CASE k = 1 /\ Stored(c) = {}
    BY <1>8, <2>1 DEF Ordinals
  <2>2. CASE /\ \E j \in Stored(c) : k = message[j].ordinal + 1
             /\ \A j \in Stored(c) : message[j].ordinal < k
    <3>1. PICK j \in Stored(c) : k = message[j].ordinal + 1
      BY <2>2
    <3>2. message[j].ordinal \in 1..n /\ \A i \in 1..n : i < k
      BY <1>8, <2>2, <3>1 DEF Ordinals
    <3>. QED
      BY <1>1, <1>8, <3>1, <3>2
  <2>. QED
    BY <1>2, <2>1, <2>2 DEF Follows
<1>10. Ordinals(c)' = 1..n + 1
  <2>1. Ordinals(c)' = Ordinals(c) \union {k}
    BY <1>1, <1>3, <1>4, <1>6 DEF Ordinals
  <2>. QED
    BY <1>8, <1>9, <2>1
<1>11. ShownIInv'
  BY <1>2, <1>3, <1>4, <1>7, <1>10 DEF ShownIInv, Numbered, Exists
<1>. DEFINE entry == [message |-> m, parent |-> q.parent]
<1>12. log'[c] = Append(log[c], entry)
  <2>1. log[c] = [i \in 1..n |-> Listed(c, i)]
    BY <1>1, <1>8 DEF log
  <2>2. log'[c] = [i \in 1..n + 1 |-> Listed(c, i)']
    BY <1>1, <1>10 DEF log
  <2>3. ASSUME NEW i \in 1..n PROVE log'[c][i] = log[c][i]
    <3>1. PICK j \in Stored(c) : message[j].ordinal = i
      BY <1>8, <2>3 DEF Ordinals
    <3>2. Listed(c, i) = [message |-> j, parent |-> message[j].parent]
      BY <1>1, <3>1, ListedAt DEF ShownIInv, ChatIInv
    <3>3. j \in Stored(c)' /\ message'[j] = message[j]
      BY <1>1, <1>4, <1>6
    <3>4. Listed(c, i)' = [message |-> j, parent |-> message'[j].parent]
      BY <1>1, <3>1, <3>3, ListedAtNext DEF ChatIInv
    <3>. QED
      BY <1>8, <2>1, <2>2, <2>3, <3>2, <3>3, <3>4
  <2>4. log'[c][n + 1] = entry
    <3>1. m \in Stored(c)' /\ message'[m].ordinal = n + 1 /\ message'[m].parent = q.parent
      BY <1>1, <1>3, <1>4, <1>9
    <3>2. Listed(c, n + 1)' = [message |-> m, parent |-> message'[m].parent]
      BY <1>1, <3>1, ListedAtNext DEF ChatIInv
    <3>. QED
      BY <1>8, <2>2, <3>1, <3>2
  <2>. DEFINE S == {log'[c][i] : i \in 1..n + 1}
  <2>5. log'[c] \in [1..n + 1 -> S]
    BY <2>2
  <2>6. log[c] \in [1..n -> S]
    <3>1. \A i \in 1..n : i \in 1..n + 1 /\ log[c][i] = log'[c][i]
      BY <2>3
    <3>2. \A i \in 1..n : log[c][i] \in S
      BY <3>1
    <3>. HIDE DEF S
    <3>. QED
      BY <2>1, <3>2
  <2>. HIDE DEF S, entry
  <2>. QED
    BY <1>8, <2>3, <2>4, <2>5, <2>6, AppendIs
<1>13. log' = [log EXCEPT ![c] = Append(@, entry)]
  BY <1>7, <1>12 DEF log
<1>14. q.parent \in {NoMessage} \union {log[c][i].message : i \in DOMAIN log[c]}
  <2>. SUFFICES ASSUME q.parent # NoMessage
                PROVE  \E i \in DOMAIN log[c] : log[c][i].message = q.parent
    OBVIOUS
  <2>1. q.parent \in Stored(c)
    BY <1>1, <1>2 DEF Asked, Appending, Stored, Exists, Shelf
  <2>2. /\ message[q.parent].ordinal \in Ordinals(c)
        /\ Listed(c, message[q.parent].ordinal) =
               [message |-> q.parent, parent |-> message[q.parent].parent]
    BY <1>1, <2>1, ListedAt DEF Ordinals, ShownIInv, ChatIInv
  <2>3. log[c] = [i \in Ordinals(c) |-> Listed(c, i)]
    BY <1>1 DEF log
  <2>. QED
    BY <2>2, <2>3
<1>15. m \notin used /\ used' = used \union {m}
  BY <1>3 DEF used
<1>16. phase' = phase /\ phase[c] \in {"open", "held"}
  BY <1>1, <1>2, <1>3 DEF phase, Phase, Exists
<1>17. Shown!Post(c, m)
  BY <1>13, <1>14, <1>15, <1>16 DEF Shown!Post
<1>. QED
  BY <1>1, <1>11, <1>17 DEF Shown!Next

\* Every step of every handler is for a reader a step of a transcript, or none.
LEMMA ShownStep ==
    ASSUME ShownIInv, ChatIInv', [ChatNext]_chatVars
    PROVE  ShownIInv' /\ [Shown!Next]_(Shown!vars)
<1>1. CASE UNCHANGED <<chat, message>>
  <2>1. \A c \in Chat : Phase(c)' = Phase(c)
    BY <1>1 DEF Phase, Exists
  <2>. QED
    BY <1>1, <2>1, ShownStutter
<1>2. ASSUME NEW h \in Poster, WriteChat(h) PROVE ShownIInv' /\ UNCHANGED Shown!vars
  <2>. DEFINE q == poster[h]
  <2>1. q.chat \in Chat /\ q.row.status \in Shelf /\ q.row.held = chat[q.chat].held
    BY <1>2 DEF ShownIInv, ChatIInv, WriteChat, Asked
  <2>2. /\ message' = message
        /\ \A d \in Chat : d # q.chat => chat'[d] = chat[d]
        /\ chat'[q.chat] = IF Exists(q.chat) THEN q.row ELSE chat[q.chat]
    BY <1>2, <2>1 DEF WriteChat, ShownIInv, ChatIInv, ChatTypeOK
  <2>3. \A d \in Chat : Phase(d)' = Phase(d)
    BY <2>1, <2>2 DEF Phase, Exists
  <2>. QED
    BY <2>2, <2>3, ShownStutter
<1>3. ASSUME NEW h \in Poster, Edits(h) PROVE ShownIInv' /\ [Shown!Next]_(Shown!vars)
  <2>1. CASE \E c \in Chat, held \in BOOLEAN : InsertChat(h, c, held)
    BY <2>1, ShownCreate
  <2>2. CASE WriteChat(h)
    BY <1>2, <2>2
  <2>3. CASE DeleteChat(h)
    BY <2>3, ShownDelete
  <2>4. CASE \/ \E c \in Chat : ReadForDelete(h, c) \/ \E shelf \in Shelf : ReadChat(h, c, shelf)
             \/ \E p \in Folder \union {NoFolder} :
                   CreateChat(h, p) \/ \E c \in Chat : ReadForMove(h, c, p)
             \/ CheckFolder(h) \/ WriteFolder(h)
             \/ \E p \in Folder, shelf \in Shelf : ReadFolder(h, p, shelf)
    <3>1. UNCHANGED <<chat, message>>
      BY <2>4 DEF ReadForDelete, ReadChat, CreateChat, ReadForMove, CheckFolder, WriteFolder,
                  ReadFolder, Goto
    <3>. QED
      BY <1>1, <3>1
  <2>. QED
    BY <1>3, <2>1, <2>2, <2>3, <2>4 DEF Edits
<1>4. ASSUME NEW h \in Poster, Appends(h) PROVE ShownIInv' /\ [Shown!Next]_(Shown!vars)
  <2>1. CASE \E m \in Message : InsertMessage(h, m)
    BY <2>1, ShownPost
  <2>2. CASE \/ \E c \in Chat, parent \in Message \union {NoMessage} : BeginAppend(h, c, parent)
             \/ Refuse(h) \/ ReadStatus(h) \/ LockChat(h) \/ ChatIsGone(h) \/ CountMessages(h)
    <3>1. UNCHANGED <<chat, message>>
      BY <2>2 DEF BeginAppend, Refuse, ReadStatus, LockChat, ChatIsGone, CountMessages, Goto
    <3>. QED
      BY <1>1, <3>1
  <2>. QED
    BY <1>4, <2>1, <2>2 DEF Appends
<1>5. ASSUME NEW h \in Poster, PosterDies(h) PROVE ShownIInv' /\ [Shown!Next]_(Shown!vars)
  BY <1>1, <1>5 DEF PosterDies, Goto
<1>6. CASE UNCHANGED chatVars
  BY <1>1, <1>6 DEF chatVars
<1>. QED
  BY <1>3, <1>4, <1>5, <1>6 DEF ChatNext

\* The handlers, with all their statements, stale copies and locks, implement atomic
\* transcripts that only grow, for any numbers of conversations, messages and handlers.
THEOREM TranscriptIsImplemented == ChatSpec => ImplementsTranscript
<1>1. ChatInit => ShownIInv /\ Shown!Init
  BY ShownInit
<1>2. ShownIInv /\ ChatIInv' /\ [ChatNext]_chatVars => ShownIInv' /\ [Shown!Next]_(Shown!vars)
  BY ShownStep
<1>. QED
  BY <1>1, <1>2, ChatInvariance, PTL DEF ChatSpec, ImplementsTranscript, Shown!Spec

-----------------------------------------------------------------------------
(***************************************************************************)
(* The audit chain.                                                        *)
(***************************************************************************)
\* The open transactions that have read h as the head.
Bearing(h) == {a \in Auditor : auditor[a].at # "idle" /\ auditor[a].head = h}

\* The heads there have been: 0 and the ids of the events.
Heads == {0} \union {e.id : e \in events}

\* Links point back to what is there, ids are told apart, also those of rows that are
\* inserted and not yet committed.
LinksPointBack ==
    /\ AuditTypeOK
    /\ backend = "sqlite" => \A a \in Auditor : auditor[a].at = "idle"
    /\ \A e \in events : e.prev \in Heads /\ e.prev < e.id /\ e.id <= lastId
    /\ \A e, f \in events : e.id = f.id => e = f
    /\ \A a \in Auditor : auditor[a].at # "idle" => auditor[a].head \in Heads
    /\ \A a \in Auditor : auditor[a].at = "commit" =>
          /\ auditor[a].head < auditor[a].id
          /\ auditor[a].id <= lastId
          /\ \A e \in events : e.id # auditor[a].id
    /\ \A a, b \in Auditor :
          auditor[a].at = "commit" /\ auditor[b].at = "commit" /\ auditor[a].id = auditor[b].id
              => a = b

\* What is linked to a head and what is still going to be are together as many as
\* there are auditors at most.
BranchesAreCounted ==
    /\ IsFiniteSet(events)
    /\ \A h \in Nat :
          /\ Cardinality(Linked(h)) + Cardinality(Bearing(h)) <= Cardinality(Auditor)
          /\ backend = "sqlite" => Cardinality(Linked(h)) <= 1

ForkIInv == LinksPointBack /\ BranchesAreCounted

\* The sets that are counted are finite, and nobody bears a head twice.
LEMMA BranchesAreFinite ==
    ASSUME ForkIInv, NEW h \in Nat
    PROVE  /\ IsFiniteSet(Linked(h)) /\ Cardinality(Linked(h)) \in Nat
           /\ IsFiniteSet(Bearing(h)) /\ Cardinality(Bearing(h)) \in Nat
           /\ Cardinality(Auditor) \in Nat
<1>1. Linked(h) \in SUBSET events /\ Bearing(h) \in SUBSET Auditor
  BY DEF Linked, Bearing
<1>2. IsFiniteSet(events) /\ IsFiniteSet(Auditor)
  BY AuditAssumption DEF ForkIInv, BranchesAreCounted
<1>3. IsFiniteSet(Linked(h)) /\ IsFiniteSet(Bearing(h))
  BY <1>1, <1>2, FS_Subset
<1>. QED
  BY <1>2, <1>3, FS_CardinalityType

\* Whoever reads the head reads one that nothing links to yet.
LEMMA HeadIsFresh ==
    ASSUME ForkIInv, NEW h \in 0..lastId, IsHead(h)
    PROVE  Linked(h) = {} /\ h \in Heads /\ h \in Nat
<1>1. lastId \in Nat /\ \A e \in events : e.id \in Nat /\ e.prev \in Nat
  BY DEF ForkIInv, LinksPointBack, AuditTypeOK, Event, Transaction
<1>2. \A e \in events : e.id <= h /\ e.prev < e.id
  BY DEF ForkIInv, LinksPointBack, IsHead
<1>. QED
  BY <1>1, <1>2 DEF Linked, IsHead, Heads

\* No step makes a link to what is not there, or gives an id twice.
LEMMA LinksStay ==
    ASSUME ForkIInv, AuditNext
    PROVE  LinksPointBack'
<1>1. /\ lastId \in Nat
      /\ \A e \in events : e.id \in Nat /\ e.prev \in Nat
      /\ auditor \in [Auditor -> Transaction]
      /\ \A a \in Auditor : auditor[a].head \in Nat /\ auditor[a].id \in Nat
      /\ backend \in AuditBackends /\ events \subseteq Event
  BY DEF ForkIInv, LinksPointBack, AuditTypeOK, Event, Transaction
<1>2. ASSUME NEW a \in Auditor, Audit(a) PROVE LinksPointBack'
  <2>1. PICK h \in 0..lastId :
            IsHead(h) /\ events' = events \union {[id |-> lastId + 1, prev |-> h]}
    BY <1>2 DEF Audit
  <2>2. lastId' = lastId + 1 /\ UNCHANGED <<backend, auditor>> /\ backend = "sqlite"
    BY <1>2 DEF Audit
  <2>3. h \in Heads /\ h \in Nat
    BY <2>1, HeadIsFresh
  <2>4. Heads \subseteq Heads' /\ [id |-> lastId + 1, prev |-> h] \in Event
    BY <1>1, <2>1, <2>3 DEF Heads, Event
  <2>5. AuditTypeOK'
    BY <1>1, <2>1, <2>2, <2>4 DEF AuditTypeOK
  <2>6. \A e \in events' : e.prev \in Heads' /\ e.prev < e.id /\ e.id <= lastId'
    BY <1>1, <2>1, <2>2, <2>3, <2>4 DEF ForkIInv, LinksPointBack
  <2>7. \A e, f \in events' : e.id = f.id => e = f
    BY <1>1, <2>1 DEF ForkIInv, LinksPointBack
  <2>8. \A b \in Auditor : auditor'[b].at = "idle"
    BY <2>2 DEF ForkIInv, LinksPointBack
  <2>. QED
    BY <2>5, <2>6, <2>7, <2>8 DEF LinksPointBack
<1>3. ASSUME NEW a \in Auditor, ReadHead(a) PROVE LinksPointBack'
  <2>1. PICK h \in 0..lastId :
            IsHead(h) /\ auditor' = [auditor EXCEPT ![a] = [at |-> "insert", head |-> h, id |-> 0]]
    BY <1>3 DEF ReadHead
  <2>2. UNCHANGED <<backend, events, lastId>> /\ backend = "postgres"
    BY <1>3 DEF ReadHead
  <2>3. h \in Heads /\ h \in Nat
    BY <2>1, HeadIsFresh
  <2>4. AuditTypeOK'
    BY <1>1, <2>1, <2>2, <2>3 DEF AuditTypeOK, Transaction
  <2>5. Heads' = Heads
    BY <2>2 DEF Heads
  <2>6. \A b \in Auditor : auditor'[b] = IF b = a THEN [at |-> "insert", head |-> h, id |-> 0]
                                         ELSE auditor[b]
    BY <1>1, <2>1
  <2>. QED
    BY <2>2, <2>3, <2>4, <2>5, <2>6 DEF ForkIInv, LinksPointBack
<1>4. ASSUME NEW a \in Auditor, InsertEvent(a) PROVE LinksPointBack'
  <2>1. /\ auditor' = [auditor EXCEPT
              ![a] = [at |-> "commit", head |-> auditor[a].head, id |-> lastId + 1]]
        /\ lastId' = lastId + 1 /\ UNCHANGED <<backend, events>> /\ auditor[a].at = "insert"
    BY <1>4 DEF InsertEvent
  <2>2. AuditTypeOK'
    <3>1. [at |-> "commit", head |-> auditor[a].head, id |-> lastId + 1] \in Transaction
      BY <1>1 DEF Transaction
    <3>2. auditor' \in [Auditor -> Transaction]
      BY <1>1, <2>1, <3>1
    <3>. QED
      BY <1>1, <2>1, <3>2 DEF AuditTypeOK
  <2>3. Heads' = Heads /\ \A i \in Heads : i \in Nat /\ i <= lastId
    BY <1>1, <2>1 DEF Heads, ForkIInv, LinksPointBack
  <2>4. /\ auditor'[a].at = "commit" /\ auditor'[a].id = lastId + 1
        /\ auditor'[a].head = auditor[a].head
        /\ \A b \in Auditor : b # a => auditor'[b] = auditor[b]
    BY <1>1, <2>1
  <2>5. auditor[a].head \in Heads
    BY <2>1 DEF ForkIInv, LinksPointBack
  <2>6. backend # "sqlite"
    BY <2>1 DEF ForkIInv, LinksPointBack
  <2>7. \A b \in Auditor : auditor'[b].at = "commit" =>
            /\ auditor'[b].head < auditor'[b].id
            /\ auditor'[b].id <= lastId'
            /\ \A e \in events' : e.id # auditor'[b].id
    BY <1>1, <2>1, <2>3, <2>4, <2>5 DEF ForkIInv, LinksPointBack
  <2>8. \A b, d \in Auditor :
            auditor'[b].at = "commit" /\ auditor'[d].at = "commit" /\ auditor'[b].id = auditor'[d].id
                => b = d
    BY <1>1, <2>4 DEF ForkIInv, LinksPointBack
  <2>9. \A e \in events' : e.prev \in Heads' /\ e.prev < e.id /\ e.id <= lastId'
    BY <1>1, <2>1, <2>3 DEF ForkIInv, LinksPointBack
  <2>10. \A b \in Auditor : auditor'[b].at # "idle" => auditor'[b].head \in Heads'
    BY <2>3, <2>4, <2>5 DEF ForkIInv, LinksPointBack
  <2>. QED
    BY <2>1, <2>2, <2>6, <2>7, <2>8, <2>9, <2>10 DEF ForkIInv, LinksPointBack
<1>5. ASSUME NEW a \in Auditor, CommitEvent(a) PROVE LinksPointBack'
  <2>. DEFINE new == [id |-> auditor[a].id, prev |-> auditor[a].head]
  <2>1. /\ auditor[a].at = "commit" /\ events' = events \union {new}
        /\ auditor' = [auditor EXCEPT ![a] = NoAudit] /\ UNCHANGED <<backend, lastId>>
    BY <1>5 DEF CommitEvent
  <2>2. /\ auditor[a].head \in Heads /\ auditor[a].head \in Nat /\ auditor[a].id \in Nat
        /\ auditor[a].head < auditor[a].id /\ auditor[a].id <= lastId
        /\ \A e \in events : e.id # auditor[a].id
    BY <1>1, <2>1 DEF ForkIInv, LinksPointBack
  <2>3. new \in Event /\ Heads \subseteq Heads'
    BY <2>1, <2>2 DEF Event, Heads
  <2>4. \A b \in Auditor : auditor'[b] = IF b = a THEN NoAudit ELSE auditor[b]
    BY <1>1, <2>1
  <2>5. AuditTypeOK'
    BY <1>1, <2>1, <2>3 DEF AuditTypeOK, NoAudit, Transaction
  <2>6. \A e \in events' : e.prev \in Heads' /\ e.prev < e.id /\ e.id <= lastId'
    BY <2>1, <2>2, <2>3 DEF ForkIInv, LinksPointBack
  <2>7. \A e, f \in events' : e.id = f.id => e = f
    BY <2>1, <2>2 DEF ForkIInv, LinksPointBack
  <2>8. \A b \in Auditor : auditor'[b].at = "commit" =>
            /\ auditor'[b] = auditor[b] /\ b # a
            /\ auditor[b].id # auditor[a].id
    BY <2>1, <2>4 DEF ForkIInv, LinksPointBack, NoAudit
  <2>9. \A b \in Auditor : auditor'[b].at = "commit" => \A e \in events' : e.id # auditor'[b].id
    BY <2>1, <2>8 DEF ForkIInv, LinksPointBack
  <2>10. \A b \in Auditor : auditor'[b].at # "idle" => auditor'[b].head \in Heads'
    BY <2>3, <2>4 DEF ForkIInv, LinksPointBack, NoAudit
  <2>11. backend # "sqlite"
    BY <2>1 DEF ForkIInv, LinksPointBack
  <2>. QED
    BY <2>1, <2>5, <2>6, <2>7, <2>8, <2>9, <2>10, <2>11 DEF ForkIInv, LinksPointBack
<1>6. ASSUME NEW a \in Auditor, AuditLost(a) PROVE LinksPointBack'
  <2>1. auditor' = [auditor EXCEPT ![a] = NoAudit] /\ UNCHANGED <<backend, events, lastId>>
    BY <1>6 DEF AuditLost
  <2>2. \A b \in Auditor : auditor'[b] = IF b = a THEN NoAudit ELSE auditor[b]
    BY <1>1, <2>1
  <2>3. AuditTypeOK' /\ Heads' = Heads
    BY <1>1, <2>1 DEF AuditTypeOK, NoAudit, Transaction, Heads
  <2>. QED
    BY <2>1, <2>2, <2>3 DEF ForkIInv, LinksPointBack, NoAudit
<1>. QED
  BY <1>2, <1>3, <1>4, <1>5, <1>6 DEF AuditNext

\* A head is read only while nothing links to it, and a commit turns who bears it
\* into what links to it.
LEMMA BranchesStayCounted ==
    ASSUME ForkIInv, AuditNext
    PROVE  BranchesAreCounted'
<1>1. /\ lastId \in Nat
      /\ auditor \in [Auditor -> Transaction]
      /\ \A a \in Auditor : auditor[a].head \in Nat /\ auditor[a].id \in Nat
  BY DEF ForkIInv, LinksPointBack, AuditTypeOK, Transaction
<1>2. IsFiniteSet(events) /\ IsFiniteSet(Auditor)
  BY AuditAssumption DEF ForkIInv, BranchesAreCounted
<1>3. \A h \in Nat : /\ Cardinality(Linked(h)) + Cardinality(Bearing(h)) <= Cardinality(Auditor)
                     /\ backend = "sqlite" => Cardinality(Linked(h)) <= 1
  BY DEF ForkIInv, BranchesAreCounted
<1>4. ASSUME NEW a \in Auditor, Audit(a) PROVE BranchesAreCounted'
  <2>1. PICK h \in 0..lastId :
            IsHead(h) /\ events' = events \union {[id |-> lastId + 1, prev |-> h]}
    BY <1>4 DEF Audit
  <2>2. UNCHANGED <<backend, auditor>> /\ backend = "sqlite"
    BY <1>4 DEF Audit
  <2>3. Linked(h) = {} /\ h \in Nat
    BY <2>1, HeadIsFresh
  <2>4. IsFiniteSet(events')
    BY <1>2, <2>1, FS_AddElement
  <2>5. ASSUME NEW i \in Nat
        PROVE  /\ Cardinality(Linked(i)') + Cardinality(Bearing(i)') <= Cardinality(Auditor)
               /\ Cardinality(Linked(i)') <= 1
    <3>1. Bearing(i)' = {}
      BY <2>2 DEF Bearing, ForkIInv, LinksPointBack
    <3>2. CASE i # h
      <4>1. Linked(i)' = Linked(i) /\ Bearing(i) = {}
        BY <2>1, <2>2, <3>1, <3>2 DEF Linked, Bearing
      <4>. QED
        BY <1>3, <2>2, <3>1, <4>1
    <3>3. CASE i = h
      <4>1. Linked(i)' = {[id |-> lastId + 1, prev |-> h]}
        BY <2>1, <2>3, <3>3 DEF Linked
      <4>2. Cardinality(Linked(i)') = 1 /\ Cardinality({}) = 0
        BY <4>1, FS_Singleton, FS_EmptySet
      <4>3. {a} \in SUBSET Auditor /\ Cardinality({a}) = 1
        BY FS_Singleton
      <4>4. Cardinality(Auditor) \in Nat /\ 1 <= Cardinality(Auditor)
        BY <1>2, <4>3, FS_Subset, FS_CardinalityType
      <4>. QED
        BY <3>1, <4>2, <4>4
    <3>. QED
      BY <3>2, <3>3
  <2>. QED
    BY <2>4, <2>5 DEF BranchesAreCounted
<1>5. ASSUME NEW a \in Auditor, ReadHead(a) PROVE BranchesAreCounted'
  <2>1. PICK h \in 0..lastId :
            IsHead(h) /\ auditor' = [auditor EXCEPT ![a] = [at |-> "insert", head |-> h, id |-> 0]]
    BY <1>5 DEF ReadHead
  <2>2. UNCHANGED <<backend, events>> /\ auditor[a].at = "idle"
    BY <1>5 DEF ReadHead
  <2>3. Linked(h) = {}
    BY <2>1, HeadIsFresh
  <2>4. ASSUME NEW i \in Nat
        PROVE  /\ Cardinality(Linked(i)') + Cardinality(Bearing(i)') <= Cardinality(Auditor)
               /\ backend' = "sqlite" => Cardinality(Linked(i)') <= 1
    <3>1. Linked(i)' = Linked(i)
      BY <2>2 DEF Linked
    <3>2. CASE i # h
      <4>1. Bearing(i)' = Bearing(i)
        BY <1>1, <2>1, <2>2, <3>2 DEF Bearing
      <4>. QED
        BY <1>3, <2>2, <3>1, <4>1
    <3>3. CASE i = h
      <4>1. Bearing(i)' \in SUBSET Auditor
        BY DEF Bearing
      <4>2. Cardinality(Bearing(i)') <= Cardinality(Auditor) /\ Cardinality(Bearing(i)') \in Nat
        BY <1>2, <4>1, FS_Subset, FS_CardinalityType
      <4>3. Cardinality(Linked(i)') = 0
        BY <2>3, <3>1, <3>3, FS_EmptySet
      <4>. QED
        BY <4>2, <4>3
    <3>. QED
      BY <3>2, <3>3
  <2>. QED
    BY <1>2, <2>2, <2>4 DEF BranchesAreCounted
<1>6. ASSUME NEW a \in Auditor, InsertEvent(a) PROVE BranchesAreCounted'
  <2>1. /\ auditor' = [auditor EXCEPT
              ![a] = [at |-> "commit", head |-> auditor[a].head, id |-> lastId + 1]]
        /\ UNCHANGED <<backend, events>> /\ auditor[a].at = "insert"
    BY <1>6 DEF InsertEvent
  <2>2. \A i \in Nat : Linked(i)' = Linked(i) /\ Bearing(i)' = Bearing(i)
    BY <1>1, <2>1 DEF Linked, Bearing
  <2>. QED
    BY <1>2, <1>3, <2>1, <2>2 DEF BranchesAreCounted
<1>7. ASSUME NEW a \in Auditor, CommitEvent(a) PROVE BranchesAreCounted'
  <2>. DEFINE h == auditor[a].head
              new == [id |-> auditor[a].id, prev |-> h]
  <2>1. /\ auditor[a].at = "commit" /\ events' = events \union {new}
        /\ auditor' = [auditor EXCEPT ![a] = NoAudit] /\ UNCHANGED backend
    BY <1>7 DEF CommitEvent
  <2>2. new \notin events /\ new.prev = h /\ h \in Nat /\ backend # "sqlite"
    BY <1>1, <2>1 DEF ForkIInv, LinksPointBack
  <2>3. \A b \in Auditor : auditor'[b] = IF b = a THEN NoAudit ELSE auditor[b]
    BY <1>1, <2>1
  <2>4. IsFiniteSet(events')
    BY <1>2, <2>1, FS_AddElement
  <2>5. ASSUME NEW i \in Nat
        PROVE  Cardinality(Linked(i)') + Cardinality(Bearing(i)') <= Cardinality(Auditor)
    <3>1. CASE i # h
      <4>1. Linked(i)' = Linked(i)
        BY <2>1, <2>2, <3>1 DEF Linked
      <4>2. Bearing(i)' = Bearing(i)
        BY <2>1, <2>3, <3>1 DEF Bearing, NoAudit
      <4>. QED
        BY <1>3, <4>1, <4>2
    <3>2. CASE i = h
      <4>1. Linked(i)' = Linked(i) \union {new} /\ new \notin Linked(i)
        BY <2>1, <2>2, <3>2 DEF Linked
      <4>2. Bearing(i)' = Bearing(i) \ {a} /\ a \in Bearing(i)
        BY <2>1, <2>3, <3>2 DEF Bearing, NoAudit
      <4>3. Cardinality(Linked(i)') = Cardinality(Linked(i)) + 1
        BY <4>1, BranchesAreFinite, FS_AddElement
      <4>4. Cardinality(Bearing(i)') = Cardinality(Bearing(i)) - 1
        BY <4>2, BranchesAreFinite, FS_RemoveElement
      <4>. QED
        BY <1>3, <4>3, <4>4, BranchesAreFinite
    <3>. QED
      BY <3>1, <3>2
  <2>. QED
    BY <2>1, <2>2, <2>4, <2>5 DEF BranchesAreCounted
<1>8. ASSUME NEW a \in Auditor, AuditLost(a) PROVE BranchesAreCounted'
  <2>1. auditor' = [auditor EXCEPT ![a] = NoAudit] /\ UNCHANGED <<backend, events>>
    BY <1>8 DEF AuditLost
  <2>2. ASSUME NEW i \in Nat
        PROVE  /\ Linked(i)' = Linked(i)
               /\ Cardinality(Bearing(i)') <= Cardinality(Bearing(i))
               /\ Cardinality(Bearing(i)') \in Nat
    <3>1. Linked(i)' = Linked(i)
      BY <2>1 DEF Linked
    <3>2. Bearing(i)' \in SUBSET Bearing(i)
      BY <1>1, <2>1 DEF Bearing, NoAudit
    <3>. QED
      BY <3>1, <3>2, BranchesAreFinite, FS_Subset, FS_CardinalityType
  <2>3. \A i \in Nat : Cardinality(Linked(i)) \in Nat /\ Cardinality(Bearing(i)) \in Nat
                           /\ Cardinality(Auditor) \in Nat
    BY BranchesAreFinite
  <2>. QED
    BY <1>2, <1>3, <2>1, <2>2, <2>3 DEF BranchesAreCounted
<1>. QED
  BY <1>4, <1>5, <1>6, <1>7, <1>8 DEF AuditNext

\* The links and the count of the branches hold together, on either backend, through
\* any overlap of audits and any loss of a transaction.
THEOREM ForkInvariance == AuditSpec => []ForkIInv
<1>1. ASSUME AuditInit PROVE ForkIInv
  <2>1. events = {} /\ lastId = 0 /\ \A a \in Auditor : auditor[a] = NoAudit
    BY <1>1 DEF AuditInit
  <2>2. LinksPointBack
    BY <1>1, <2>1 DEF AuditInit, LinksPointBack, AuditTypeOK, NoAudit, Transaction
  <2>3. \A h \in Nat : Linked(h) = {} /\ Bearing(h) = {}
    BY <2>1 DEF Linked, Bearing, NoAudit
  <2>4. Cardinality({}) = 0 /\ IsFiniteSet({}) /\ Cardinality(Auditor) \in Nat
    BY AuditAssumption, FS_EmptySet, FS_CardinalityType
  <2>5. \A h \in Nat : Cardinality(Linked(h)) = 0 /\ Cardinality(Bearing(h)) = 0
    BY <2>3, <2>4
  <2>6. IsFiniteSet(events)
    BY <2>1, <2>4
  <2>7. BranchesAreCounted
    BY <2>4, <2>5, <2>6 DEF BranchesAreCounted
  <2>. QED
    BY <2>2, <2>7 DEF ForkIInv
<1>2. ASSUME ForkIInv, UNCHANGED auditVars PROVE ForkIInv'
  <2>1. UNCHANGED <<backend, events, lastId, auditor>>
    BY <1>2 DEF auditVars
  <2>2. LinksPointBack'
    BY <1>2, <2>1 DEF ForkIInv, LinksPointBack, AuditTypeOK, Heads
  <2>3. BranchesAreCounted'
    BY <1>2, <2>1 DEF ForkIInv, BranchesAreCounted, Linked, Bearing
  <2>. QED
    BY <2>2, <2>3 DEF ForkIInv
<1>3. ForkIInv /\ [AuditNext]_auditVars => ForkIInv'
  BY <1>2, LinksStay, BranchesStayCounted DEF ForkIInv
<1>. QED
  BY <1>1, <1>3, PTL DEF AuditSpec

\* Rows and open transactions keep their types on either backend.
THEOREM AuditTypeCorrect == AuditSpec => []AuditTypeOK
<1>1. ForkIInv => AuditTypeOK
  BY DEF ForkIInv, LinksPointBack
<1>. QED
  BY <1>1, ForkInvariance, PTL

\* Every link points back, no id is given twice, and no head has more events linked to
\* it than there are auditors, nor more than one on SQLite: what the run audit_fork
\* shows is as bad as it gets.
THEOREM ForksStayNarrow == AuditSpec => []ForksAreNarrow
<1>1. ASSUME ForkIInv PROVE ForksAreNarrow
  <2>1. \A e \in events :
            /\ e.prev \in {0} \union {f.id : f \in events}
            /\ e.prev < e.id
            /\ \A f \in events : f.id = e.id => f = e
    BY <1>1 DEF ForkIInv, LinksPointBack, Heads
  <2>2. \A h \in 0..lastId : h \in Nat
    BY <1>1 DEF ForkIInv, LinksPointBack, AuditTypeOK
  <2>3. \A h \in Nat : /\ Cardinality(Linked(h)) \in Nat /\ Cardinality(Bearing(h)) \in Nat
                       /\ Cardinality(Auditor) \in Nat
    BY <1>1, BranchesAreFinite
  <2>4. \A h \in Nat :
            Cardinality(Linked(h)) <= IF backend = "sqlite" THEN 1 ELSE Cardinality(Auditor)
    BY <1>1, <2>3 DEF ForkIInv, BranchesAreCounted
  <2>. QED
    BY <2>1, <2>2, <2>4 DEF ForksAreNarrow
<1>. QED
  BY <1>1, ForkInvariance, PTL

\* On SQLite an audit is one step: every row links to the one before it.
AuditIInv ==
    /\ AuditTypeOK
    /\ backend = "sqlite"
    /\ \A a \in Auditor : auditor[a].at = "idle"
    /\ \A i \in 1..lastId : \E e \in events : e.id = i
    /\ \A e \in events : e.id \in 1..lastId /\ e.prev = e.id - 1

\* With BEGIN IMMEDIATE the chain verifies after any number of audits: what the run
\* audit_fork shows is due to PostgreSQL alone.
THEOREM ChainOnSQLite == AuditSpec /\ backend = "sqlite" => []ChainVerifies
<1>1. AuditInit /\ backend = "sqlite" => AuditIInv
  BY DEF AuditInit, AuditIInv, AuditTypeOK, NoAudit, Transaction
<1>2. ASSUME AuditIInv, [AuditNext]_auditVars PROVE AuditIInv'
  <2>1. CASE UNCHANGED auditVars
    BY <1>2, <2>1 DEF auditVars, AuditIInv, AuditTypeOK
  <2>2. ASSUME NEW a \in Auditor, Audit(a) PROVE AuditIInv'
    <3>1. PICK h \in 0..lastId : IsHead(h) /\ events' = events \union {[id |-> lastId + 1, prev |-> h]}
      BY <2>2 DEF Audit
    <3>2. lastId \in Nat /\ lastId' = lastId + 1 /\ UNCHANGED <<backend, auditor>>
      BY <1>2, <2>2 DEF Audit, AuditIInv, AuditTypeOK
    <3>3. h = lastId
      BY <1>2, <3>1, <3>2 DEF IsHead, AuditIInv
    <3>4. [id |-> lastId + 1, prev |-> h] \in Event
      BY <3>1, <3>2 DEF Event
    <3>5. AuditTypeOK'
      BY <1>2, <3>1, <3>2, <3>4 DEF AuditIInv, AuditTypeOK
    <3>6. \A i \in 1..lastId' : \E e \in events' : e.id = i
      <4>1. \A i \in 1..lastId : \E e \in events : e.id = i
        BY <1>2 DEF AuditIInv
      <4>2. \E e \in events' : e.id = lastId'
        <5>1. [id |-> lastId + 1, prev |-> h] \in events'
          BY <3>1
        <5>2. [id |-> lastId + 1, prev |-> h].id = lastId'
          BY <3>2
        <5>. QED
          BY <5>1, <5>2
      <4>3. \A i \in 1..lastId' : i = lastId' \/ i \in 1..lastId
        BY <3>2
      <4>. QED
        BY <3>1, <4>1, <4>2, <4>3
    <3>7. \A e \in events' : e.id \in 1..lastId' /\ e.prev = e.id - 1
      BY <1>2, <3>1, <3>2, <3>3 DEF AuditIInv
    <3>. QED
      BY <1>2, <3>1, <3>2, <3>5, <3>6, <3>7 DEF AuditIInv
  <2>3. ASSUME NEW a \in Auditor PROVE ~ReadHead(a) /\ ~InsertEvent(a) /\ ~CommitEvent(a) /\ ~AuditLost(a)
    BY <1>2 DEF AuditIInv, ReadHead, InsertEvent, CommitEvent, AuditLost
  <2>. QED
    BY <1>2, <2>1, <2>2, <2>3 DEF AuditNext
<1>3. AuditIInv => ChainVerifies
  <2> SUFFICES ASSUME AuditIInv, NEW e \in events
               PROVE  /\ e.prev \in {0} \union {f.id : f \in events}
                      /\ e.prev < e.id
                      /\ \A f \in events : ~(e.prev < f.id /\ f.id < e.id)
    BY DEF ChainVerifies
  <2>1. lastId \in Nat /\ e.id \in 1..lastId /\ e.prev = e.id - 1
    BY DEF AuditIInv, AuditTypeOK
  <2>2. \A f \in events : f.id \in 1..lastId
    BY DEF AuditIInv
  <2>3. CASE e.id = 1
    BY <2>1, <2>2, <2>3
  <2>4. CASE e.id # 1
    <3>1. e.id - 1 \in 1..lastId
      BY <2>1, <2>4
    <3>2. PICK f \in events : f.id = e.id - 1
      BY <3>1 DEF AuditIInv
    <3>. QED
      BY <2>1, <2>2, <3>2
  <2>. QED
    BY <2>3, <2>4
<1>. QED
  BY <1>1, <1>2, <1>3, PTL DEF AuditSpec
-----------------------------------------------------------------------------
(***************************************************************************)
(* The turns of executions and their budgets.                              *)
(***************************************************************************)
\* The executions whose check of s has passed and whose usage is not yet recorded.
Flying(s) == {e \in Execution : turn[e].at # "idle" /\ s \in ScopesOf[e] \ turn[e].left}

Unspent(s) == spent[s] = 0 /\ Flying(s) = {}

\* A turn of each of them still fits.
Covered(s) ==
    spent[s] + MaxCost * Cardinality(Flying(s))
        < ceiling[s] + MaxCost * Cardinality(Spenders(s))

\* A turn reads limits that are no higher than the highest there was, has budgets of
\* its own left to check, and none once it is past the check, and asks who there is.
TurnFine(e, q) ==
    /\ q.left \subseteq ScopesOf[e]
    /\ q.at # "budget" => q.left = {}
    /\ \A s \in Scope : q.at = "budget" => q.limit[s] <= ceiling[s]
    /\ q.at \in {"calling", "answered", "failed", "counted"} => q.rank \in Provider

\* The invariant: what is spent and what is in flight together stay below the ceiling.
SpendIInv ==
    /\ TurnTypeOK
    /\ \A s \in Scope : limit[s] <= ceiling[s]
    /\ \A e \in Execution : TurnFine(e, turn[e])
    /\ \A s \in Scope : Unspent(s) \/ Covered(s)

\* Products with the cost of a turn.
LEMMA CostTimes ==
    /\ \A n \in Nat : MaxCost * n \in Nat /\ MaxCost * (n + 1) = MaxCost * n + MaxCost
    /\ \A n, k \in Nat : n <= k => MaxCost * n <= MaxCost * k
<1>1. MaxCost \in Nat
  BY TurnAssumption
<1>2. \A n \in Nat : MaxCost * n \in Nat /\ MaxCost * (n + 1) = MaxCost * n + MaxCost
  BY <1>1, SMT
<1>3. ASSUME NEW n \in Nat, NEW k \in Nat, n <= k PROVE MaxCost * n <= MaxCost * k
  <2>1. k - n \in Nat /\ k = n + (k - n)
    BY <1>3
  <2>2. MaxCost * (n + (k - n)) = MaxCost * n + MaxCost * (k - n)
    BY <1>1, <2>1, SMT
  <2>3. MaxCost * n \in Nat /\ MaxCost * (k - n) \in Nat
    BY <1>1, <2>1, SMT
  <2>. QED
    BY <2>1, <2>2, <2>3
<1>. QED
  BY <1>2, <1>3

\* Those that fly are among those that count against a budget, which are finitely many.
LEMMA SpendersFinite ==
    \A s : /\ IsFiniteSet(Spenders(s))
           /\ Cardinality(Spenders(s)) \in Nat
           /\ IsFiniteSet(Flying(s))
           /\ Cardinality(Flying(s)) \in Nat
           /\ Cardinality(Flying(s)) <= Cardinality(Spenders(s))
<1>. TAKE s
<1>1. IsFiniteSet(Spenders(s))
  BY TurnAssumption, FS_Subset DEF Spenders
<1>2. Flying(s) \in SUBSET Spenders(s)
  BY DEF Flying, Spenders
<1>3. IsFiniteSet(Flying(s)) /\ Cardinality(Flying(s)) <= Cardinality(Spenders(s))
  BY <1>1, <1>2, FS_Subset
<1>. QED
  BY <1>1, <1>3, FS_CardinalityType

\* A step that starts no new spender, spends nothing and lowers no ceiling.
LEMMA StaysCovered ==
    ASSUME NEW s \in Scope, TurnTypeOK, TurnTypeOK', Unspent(s) \/ Covered(s),
           Flying(s)' \in SUBSET Flying(s), spent'[s] \in {0, spent[s]},
           ceiling[s] <= ceiling'[s]
    PROVE  Unspent(s)' \/ Covered(s)'
<1>1. CASE Unspent(s)
  BY <1>1 DEF Unspent
<1>2. CASE Covered(s)
  <2>. DEFINE n == Cardinality(Flying(s))  k == Cardinality(Flying(s)')
              m == Cardinality(Spenders(s))
  <2>1. n \in Nat /\ k \in Nat /\ m \in Nat /\ k <= n
    BY SpendersFinite, FS_Subset, FS_CardinalityType
  <2>2. MaxCost * k <= MaxCost * n /\ MaxCost * k \in Nat /\ MaxCost * n \in Nat
        /\ MaxCost * m \in Nat
    BY <2>1, CostTimes
  <2>3. spent[s] \in Nat /\ spent'[s] \in Nat /\ ceiling[s] \in Nat /\ ceiling'[s] \in Nat
    BY DEF TurnTypeOK
  <2>4. spent[s] + MaxCost * n < ceiling[s] + MaxCost * m
    BY <1>2 DEF Covered
  <2>. HIDE DEF n, k, m
  <2>5. spent'[s] <= spent[s]
    BY <2>3
  <2>6. spent'[s] + MaxCost * k < ceiling'[s] + MaxCost * m
    BY <2>2, <2>3, <2>4, <2>5
  <2>. QED
    BY <2>6 DEF n, k, m, Covered, Spenders
<1>. QED
  BY <1>1, <1>2

\* A turn may begin to fly while the sum is below the ceiling.
LEMMA TakesOff ==
    ASSUME NEW s \in Scope, TurnTypeOK, spent[s] < ceiling[s], UNCHANGED <<spent, ceiling>>
    PROVE  Covered(s)'
<1>. DEFINE k == Cardinality(Flying(s)')  m == Cardinality(Spenders(s))
<1>1. k \in Nat /\ m \in Nat /\ k <= m
  <2>1. Flying(s)' \in SUBSET Spenders(s)
    BY DEF Flying, Spenders
  <2>. QED
    BY <2>1, SpendersFinite, FS_Subset, FS_CardinalityType
<1>2. MaxCost * k <= MaxCost * m /\ MaxCost * k \in Nat /\ MaxCost * m \in Nat
  BY <1>1, CostTimes
<1>3. spent[s] \in Nat /\ ceiling[s] \in Nat
  BY DEF TurnTypeOK
<1>. HIDE DEF k, m
<1>4. spent[s] + MaxCost * k < ceiling[s] + MaxCost * m
  BY <1>2, <1>3
<1>. QED
  BY <1>4 DEF k, m, Covered, Spenders

\* A turn that moves on keeps the invariant, if what it now knows is true and if the
\* budgets it has passed just now had room.
LEMMA MoveOnKeeps ==
    ASSUME SpendIInv, NEW e \in Execution, NEW local \in Turn, MoveOn(e, local),
           health' \in [Provider -> Health], TurnFine(e, local),
           \A s \in Scope : local.at # "idle" /\ s \in ScopesOf[e] \ local.left =>
               e \in Flying(s) \/ spent[s] < ceiling[s]
    PROVE  SpendIInv'
<1>1. UNCHANGED <<spent, limit, ceiling, turnDeaths>>
      /\ \A f \in Execution : turn'[f] = IF f = e THEN local ELSE turn[f]
  BY DEF MoveOn, SpendIInv, TurnTypeOK
<1>2. TurnTypeOK'
  BY <1>1 DEF MoveOn, SpendIInv, TurnTypeOK
<1>3. \A s \in Scope : (limit[s] <= ceiling[s])'
  BY <1>1 DEF SpendIInv
<1>4. \A f \in Execution : TurnFine(f, turn[f])'
  BY <1>1 DEF SpendIInv, TurnFine
<1>5. ASSUME NEW s \in Scope PROVE Unspent(s)' \/ Covered(s)'
  <2>1. CASE spent[s] < ceiling[s]
    BY <1>1, <2>1, TakesOff DEF SpendIInv
  <2>2. CASE ~(spent[s] < ceiling[s])
    <3>1. Flying(s)' \in SUBSET Flying(s)
      BY <1>1, <2>2 DEF Flying
    <3>2. ceiling[s] <= ceiling'[s] /\ spent'[s] = spent[s]
      BY <1>1 DEF SpendIInv, TurnTypeOK
    <3>. QED
      BY <1>2, <3>1, <3>2, StaysCovered DEF SpendIInv
  <2>. QED
    BY <2>1, <2>2
<1>. QED
  BY <1>2, <1>3, <1>4, <1>5 DEF SpendIInv

\* A turn that has not begun knows nothing.
LEMMA NoTurnFine ==
    ASSUME NEW e \in Execution
    PROVE  /\ NoTurn \in Turn /\ TurnFine(e, NoTurn) /\ NoTurn.at = "idle"
           /\ \A a \in {"pick", "usage"} :
                 LET q == [NoTurn EXCEPT !.at = a]
                 IN  q \in Turn /\ TurnFine(e, q) /\ q.left = {} /\ q.at = a
BY TurnAssumption DEF NoTurn, NoLimit, Turn, TurnFine, Provider

\* The budgets are checked.
LEMMA BudgetSteps ==
    ASSUME SpendIInv, NEW e \in Execution,
           \/ BeginTurn(e)
           \/ \E s \in Scope : PassBudget(e, s) \/ MeetLimit(e, s)
    PROVE  SpendIInv'
<1>1. turn[e] \in Turn /\ TurnFine(e, turn[e]) /\ ScopesOf[e] \subseteq Scope
      /\ health \in [Provider -> Health]
  BY TurnAssumption DEF SpendIInv, TurnTypeOK
<1>2. CASE BeginTurn(e)
  <2>1. CASE ScopesOf[e] = {}
    <3>. DEFINE q == [NoTurn EXCEPT !.at = "pick"]
    <3>1. MoveOn(e, q) /\ health' = health
      BY <1>2, <2>1 DEF BeginTurn
    <3>2. q \in Turn /\ TurnFine(e, q)
      BY NoTurnFine
    <3>. HIDE DEF q
    <3>. QED
      BY <1>1, <2>1, <3>1, <3>2, MoveOnKeeps
  <2>2. CASE ScopesOf[e] # {}
    <3>. DEFINE q == [NoTurn EXCEPT !.at = "budget", !.left = ScopesOf[e], !.limit = limit]
    <3>1. MoveOn(e, q) /\ health' = health
      BY <1>2, <2>2 DEF BeginTurn
    <3>2. q \in Turn /\ q.left = ScopesOf[e] /\ q.limit = limit /\ q.at = "budget"
      <4>1. limit \in [Scope -> Nat] /\ NoTurn \in Turn
        BY NoTurnFine DEF SpendIInv, TurnTypeOK
      <4>. QED
        BY <1>1, <4>1 DEF Turn
    <3>3. TurnFine(e, q)
      BY <3>2 DEF TurnFine, SpendIInv
    <3>. HIDE DEF q
    <3>. QED
      BY <1>1, <3>1, <3>2, <3>3, MoveOnKeeps
  <2>. QED
    BY <2>1, <2>2
<1>3. ASSUME NEW s \in Scope, PassBudget(e, s) PROVE SpendIInv'
  <2>1. turn[e].at = "budget" /\ s \in turn[e].left /\ spent[s] < ceiling[s]
        /\ health' = health
    <3>1. turn[e].limit[s] <= ceiling[s] /\ ~(spent[s] >= turn[e].limit[s])
      BY <1>1, <1>3 DEF PassBudget, Exhausted, TurnFine
    <3>2. spent[s] \in Nat /\ turn[e].limit[s] \in Nat /\ ceiling[s] \in Nat
      BY <1>1 DEF Turn, SpendIInv, TurnTypeOK
    <3>. QED
      BY <1>3, <3>1, <3>2 DEF PassBudget
  <2>2. \A r \in Scope : r \in ScopesOf[e] \ turn[e].left => e \in Flying(r)
    BY <2>1 DEF Flying
  <2>3. CASE turn[e].left = {s}
    <3>. DEFINE q == [NoTurn EXCEPT !.at = "pick"]
    <3>1. MoveOn(e, q)
      BY <1>3, <2>3 DEF PassBudget
    <3>2. q \in Turn /\ TurnFine(e, q) /\ q.left = {}
      BY NoTurnFine
    <3>. HIDE DEF q
    <3>. QED
      BY <1>1, <2>1, <2>2, <2>3, <3>1, <3>2, MoveOnKeeps
  <2>4. CASE turn[e].left # {s}
    <3>. DEFINE q == [turn[e] EXCEPT !.left = @ \ {s}]
    <3>1. MoveOn(e, q)
      BY <1>3, <2>4 DEF PassBudget
    <3>2. q \in Turn /\ q.left = turn[e].left \ {s} /\ q.at = turn[e].at
          /\ q.limit = turn[e].limit /\ q.rank = turn[e].rank
      BY <1>1 DEF Turn
    <3>3. TurnFine(e, q)
      BY <1>1, <2>1, <3>2 DEF TurnFine
    <3>. HIDE DEF q
    <3>. QED
      BY <1>1, <2>1, <2>2, <3>1, <3>2, <3>3, MoveOnKeeps
  <2>. QED
    BY <2>3, <2>4
<1>4. ASSUME NEW s \in Scope, MeetLimit(e, s) PROVE SpendIInv'
  BY <1>1, <1>4, NoTurnFine, MoveOnKeeps DEF MeetLimit
<1>. QED
  BY <1>2, <1>3, <1>4

\* A turn past its budgets flies on.
LEMMA FliesOn ==
    ASSUME SpendIInv, NEW e \in Execution, turn[e].at \notin {"idle", "budget"},
           NEW local \in Turn, MoveOn(e, local), health' \in [Provider -> Health],
           TurnFine(e, local)
    PROVE  SpendIInv'
<1>1. \A s \in Scope : s \in ScopesOf[e] => e \in Flying(s)
  BY DEF SpendIInv, TurnFine, Flying
<1>. QED
  BY <1>1, MoveOnKeeps

\* The providers are asked.
LEMMA ProviderSteps ==
    ASSUME SpendIInv, NEW e \in Execution,
           \/ Pick(e) \/ GiveUp(e) \/ Respond(e)
           \/ RecordSuccess(e) \/ CountFailures(e) \/ RecordFailure(e)
    PROVE  SpendIInv'
<1>. DEFINE q == turn[e]
<1>1. q \in Turn /\ TurnFine(e, q) /\ health \in [Provider -> Health]
  BY DEF SpendIInv, TurnTypeOK
<1>2. \A a \in {"calling", "answered", "failed"} :
          q.rank \in Provider /\ q.at \notin {"idle", "budget"} =>
              [q EXCEPT !.at = a] \in Turn /\ TurnFine(e, [q EXCEPT !.at = a])
  BY <1>1 DEF Turn, TurnFine
<1>3. CASE Pick(e)
  <2>1. q.at = "pick" /\ q.rank \in Provider /\ health' = health
    BY <1>3 DEF Pick
  <2>2. [q EXCEPT !.rank = @ + 1] \in Turn /\ TurnFine(e, [q EXCEPT !.rank = @ + 1])
    BY <1>1, <2>1, TurnAssumption DEF Turn, TurnFine, Provider
  <2>3. CASE health[q.rank].open
    <3>1. MoveOn(e, [q EXCEPT !.rank = @ + 1])
      BY <1>3, <2>3 DEF Pick
    <3>. QED
      BY <1>1, <2>1, <2>2, <3>1, FliesOn
  <2>4. CASE ~health[q.rank].open
    <3>1. MoveOn(e, [q EXCEPT !.at = "calling"])
      BY <1>3, <2>4 DEF Pick
    <3>. QED
      BY <1>1, <1>2, <2>1, <3>1, FliesOn
  <2>. QED
    BY <2>3, <2>4
<1>4. CASE GiveUp(e)
  BY <1>1, <1>4, NoTurnFine, FliesOn DEF GiveUp
<1>5. CASE Respond(e)
  <2>1. q.at = "calling" /\ q.rank \in Provider /\ health' = health
    BY <1>1, <1>5 DEF Respond, TurnFine
  <2>2. PICK a \in {"answered", "failed"} : MoveOn(e, [q EXCEPT !.at = a])
    BY <1>5 DEF Respond
  <2>. QED
    BY <1>1, <1>2, <2>1, <2>2, FliesOn
<1>6. CASE RecordSuccess(e)
  <2>1. q.at = "answered" /\ MoveOn(e, [NoTurn EXCEPT !.at = "usage"])
    BY <1>6 DEF RecordSuccess
  <2>2. [failures |-> 0, open |-> FALSE] \in Health
    BY TurnAssumption DEF Health
  <2>3. health' \in [Provider -> Health]
    BY <1>1, <1>6, <2>2 DEF RecordSuccess
  <2>. QED
    BY <2>1, <2>3, NoTurnFine, FliesOn
<1>7. CASE CountFailures(e)
  <2>1. q.at = "failed" /\ q.rank \in Provider /\ health' = health
    BY <1>1, <1>7 DEF CountFailures, TurnFine
  <2>2. health[q.rank].failures \in 0..Threshold
    BY <1>1, <2>1 DEF Health
  <2>3. FailuresWith(q.rank) \in 0..Threshold
    BY <2>2, TurnAssumption DEF FailuresWith
  <2>. DEFINE n == FailuresWith(q.rank)  r == [q EXCEPT !.at = "counted", !.count = n]
  <2>4. MoveOn(e, r)
    BY <1>7 DEF CountFailures
  <2>. HIDE DEF n
  <2>5. r \in Turn /\ TurnFine(e, r)
    BY <1>1, <2>1, <2>3 DEF Turn, TurnFine, n
  <2>. QED
    BY <1>1, <2>1, <2>4, <2>5, FliesOn
<1>8. CASE RecordFailure(e)
  <2>1. q.at = "counted" /\ q.rank \in Provider
    BY <1>1, <1>8 DEF RecordFailure, TurnFine
  <2>. DEFINE r == [q EXCEPT !.at = "pick", !.rank = @ + 1, !.count = 0]
  <2>2. MoveOn(e, r)
    BY <1>8 DEF RecordFailure
  <2>3. r \in Turn /\ TurnFine(e, r)
    <3>1. q.rank + 1 \in 1..ProviderCount + 1 /\ 0 \in 0..Threshold
      BY <2>1, TurnAssumption DEF Provider
    <3>2. r \in Turn /\ r.at = "pick" /\ r.left = q.left
      BY <1>1, <3>1 DEF Turn
    <3>. QED
      BY <1>1, <2>1, <3>2 DEF TurnFine
  <2>4. [failures |-> q.count, open |-> q.count >= Threshold] \in Health
    BY <1>1 DEF Turn, Health
  <2>5. health' \in [Provider -> Health]
    BY <1>1, <1>8, <2>4 DEF RecordFailure
  <2>. QED
    BY <2>1, <2>2, <2>3, <2>5, FliesOn
<1>. QED
  BY <1>3, <1>4, <1>5, <1>6, <1>7, <1>8

\* What a turn costs was set aside for it when it took off.
LEMMA RecordUsageKeeps ==
    ASSUME SpendIInv, NEW e \in Execution, RecordUsage(e)
    PROVE  SpendIInv'
<1>1. PICK cost \in 0..MaxCost :
          spent' = [s \in Scope |-> IF s \in ScopesOf[e] THEN spent[s] + cost ELSE spent[s]]
  BY DEF RecordUsage
<1>2. UNCHANGED <<limit, ceiling, health, turnDeaths>> /\ turn[e].at = "usage"
      /\ \A f \in Execution : turn'[f] = IF f = e THEN NoTurn ELSE turn[f]
  BY DEF RecordUsage, SpendIInv, TurnTypeOK
<1>3. cost \in Nat /\ cost <= MaxCost /\ MaxCost \in Nat
  BY TurnAssumption
<1>4. spent' \in [Scope -> Nat]
  BY <1>1, <1>3 DEF SpendIInv, TurnTypeOK
<1>5. TurnTypeOK'
  BY <1>2, <1>4, NoTurnFine DEF RecordUsage, SpendIInv, TurnTypeOK
<1>6. \A s \in Scope : (limit[s] <= ceiling[s])'
  BY <1>2 DEF SpendIInv
<1>7. \A f \in Execution : TurnFine(f, turn[f])'
  BY <1>2, NoTurnFine DEF SpendIInv, TurnFine
<1>8. ASSUME NEW s \in Scope PROVE Unspent(s)' \/ Covered(s)'
  <2>1. CASE s \notin ScopesOf[e]
    <3>1. Flying(s)' \in SUBSET Flying(s)
      BY <1>2, <2>1 DEF Flying
    <3>2. ceiling[s] <= ceiling'[s] /\ spent'[s] = spent[s]
      BY <1>1, <1>2, <2>1 DEF SpendIInv, TurnTypeOK
    <3>. QED
      BY <1>5, <3>1, <3>2, StaysCovered DEF SpendIInv
  <2>2. CASE s \in ScopesOf[e]
    <3>1. e \in Flying(s)
      BY <1>2, <2>2 DEF SpendIInv, TurnFine, Flying
    <3>2. Flying(s)' = Flying(s) \ {e}
      BY <1>2, NoTurnFine DEF Flying
    <3>. DEFINE n == Cardinality(Flying(s))  k == Cardinality(Flying(s)')
                m == Cardinality(Spenders(s))
    <3>3. n \in Nat /\ k \in Nat /\ m \in Nat /\ n = k + 1
      <4>1. IsFiniteSet(Flying(s) \ {e})
            /\ Cardinality(Flying(s) \ {e}) = Cardinality(Flying(s)) - 1
        BY <3>1, SpendersFinite, FS_RemoveElement
      <4>. QED
        BY <3>2, <4>1, SpendersFinite, FS_CardinalityType
    <3>4. spent[s] + MaxCost * n < ceiling[s] + MaxCost * m
      BY <3>1 DEF SpendIInv, Unspent, Covered
    <3>. HIDE DEF n, k, m
    <3>5. MaxCost * n = MaxCost * k + MaxCost /\ MaxCost * k \in Nat /\ MaxCost * m \in Nat
      BY <3>3, CostTimes
    <3>6. spent[s] \in Nat /\ ceiling[s] \in Nat /\ spent'[s] = spent[s] + cost
      BY <1>1, <2>2 DEF SpendIInv, TurnTypeOK
    <3>7. spent'[s] + MaxCost * k < ceiling[s] + MaxCost * m
      BY <1>3, <3>4, <3>5, <3>6
    <3>. QED
      BY <1>2, <3>7 DEF n, k, m, Covered, Spenders
  <2>. QED
    BY <2>1, <2>2
<1>. QED
  BY <1>5, <1>6, <1>7, <1>8 DEF SpendIInv

\* A step that spends nothing, lowers no ceiling, and at most ends turns.
LEMMA QuietKeeps ==
    ASSUME SpendIInv, TurnTypeOK',
           \A e \in Execution : turn'[e] \in {turn[e], NoTurn},
           \A s \in Scope : /\ limit'[s] <= ceiling'[s]
                           /\ ceiling[s] <= ceiling'[s]
                           /\ spent'[s] \in {0, spent[s]}
    PROVE  SpendIInv'
<1>1. \A e \in Execution : TurnFine(e, turn[e])'
  <2>. TAKE e \in Execution
  <2>1. TurnFine(e, turn[e]) /\ TurnFine(e, NoTurn)
    BY NoTurnFine DEF SpendIInv
  <2>2. \A s \in Scope : ceiling[s] \in Nat /\ ceiling'[s] \in Nat
                        /\ turn[e].limit[s] \in Nat
    BY DEF SpendIInv, TurnTypeOK, Turn
  <2>3. CASE turn'[e] = turn[e]
    BY <2>1, <2>2, <2>3 DEF TurnFine
  <2>4. CASE turn'[e] = NoTurn
    BY <2>1, <2>4, NoTurnFine DEF TurnFine
  <2>. QED
    BY <2>3, <2>4
<1>2. ASSUME NEW s \in Scope PROVE Unspent(s)' \/ Covered(s)'
  <2>1. Flying(s)' \in SUBSET Flying(s)
    BY NoTurnFine DEF Flying
  <2>. QED
    BY <2>1, StaysCovered DEF SpendIInv
<1>. QED
  BY <1>1, <1>2 DEF SpendIInv

\* Deaths, and what administrators and the clock do.
LEMMA OtherTurnSteps ==
    ASSUME SpendIInv,
           \/ \E e \in Execution : TurnDies(e)
           \/ \E s \in Scope : NewPeriod(s) \/ \E n \in Limits : SetBudget(s, n)
           \/ \E p \in Provider : CircuitCloses(p)
           \/ UNCHANGED turnVars
    PROVE  SpendIInv'
<1>1. /\ spent \in [Scope -> Nat] /\ limit \in [Scope -> Nat] /\ ceiling \in [Scope -> Nat]
      /\ turn \in [Execution -> Turn] /\ health \in [Provider -> Health]
      /\ \A s \in Scope : limit[s] <= ceiling[s]
  BY DEF SpendIInv, TurnTypeOK
<1>2. ASSUME NEW e \in Execution, TurnDies(e) PROVE SpendIInv'
  <2>1. TurnTypeOK'
    BY <1>1, <1>2, NoTurnFine DEF TurnDies, SpendIInv, TurnTypeOK
  <2>. QED
    BY <1>1, <1>2, <2>1, QuietKeeps DEF TurnDies
<1>3. ASSUME NEW s \in Scope, NewPeriod(s) PROVE SpendIInv'
  <2>1. TurnTypeOK'
    BY <1>1, <1>3 DEF NewPeriod, SpendIInv, TurnTypeOK
  <2>2. \A r \in Scope : spent'[r] \in {0, spent[r]}
    BY <1>1, <1>3 DEF NewPeriod
  <2>. QED
    BY <1>1, <1>3, <2>1, <2>2, QuietKeeps DEF NewPeriod
<1>4. ASSUME NEW s \in Scope, NEW n \in Limits, SetBudget(s, n) PROVE SpendIInv'
  <2>1. n \in Nat
    BY TurnAssumption
  <2>2. \A r \in Scope : /\ limit'[r] = IF r = s THEN n ELSE limit[r]
                        /\ ceiling'[r] = IF r = s /\ n > ceiling[s] THEN n ELSE ceiling[r]
    BY <1>1, <1>4 DEF SetBudget
  <2>3. TurnTypeOK'
    BY <1>1, <1>4, <2>1 DEF SetBudget, SpendIInv, TurnTypeOK
  <2>4. \A r \in Scope : limit'[r] <= ceiling'[r] /\ ceiling[r] <= ceiling'[r]
    BY <1>1, <2>1, <2>2
  <2>. QED
    BY <1>1, <1>4, <2>3, <2>4, QuietKeeps DEF SetBudget
<1>5. ASSUME NEW p \in Provider, CircuitCloses(p) PROVE SpendIInv'
  <2>1. [health[p] EXCEPT !.open = FALSE] \in Health
    BY <1>1 DEF Health
  <2>2. TurnTypeOK'
    BY <1>1, <1>5, <2>1 DEF CircuitCloses, SpendIInv, TurnTypeOK
  <2>. QED
    BY <1>1, <1>5, <2>2, QuietKeeps DEF CircuitCloses
<1>6. CASE UNCHANGED turnVars
  <2>1. TurnTypeOK'
    BY <1>6 DEF turnVars, SpendIInv, TurnTypeOK
  <2>. QED
    BY <1>1, <1>6, <2>1, QuietKeeps DEF turnVars
<1>. QED
  BY <1>2, <1>3, <1>4, <1>5, <1>6

\* Whatever overlaps, the sum of what is spent and what is in flight stays bounded.
LEMMA SpendInvariance == TurnSpec => []SpendIInv
<1>1. TurnInit => SpendIInv
  <2> SUFFICES ASSUME TurnInit PROVE SpendIInv
    OBVIOUS
  <2>1. limit \in [Scope -> Nat] /\ ceiling = limit
    BY TurnAssumption DEF TurnInit
  <2>2. [failures |-> 0, open |-> FALSE] \in Health
    BY TurnAssumption DEF Health
  <2>3. TurnTypeOK
    BY <2>1, <2>2, NoTurnFine DEF TurnInit, TurnTypeOK
  <2>4. \A e \in Execution : TurnFine(e, turn[e]) /\ turn[e].at = "idle"
    BY NoTurnFine DEF TurnInit
  <2>5. \A s \in Scope : Unspent(s)
    BY <2>4 DEF TurnInit, Unspent, Flying
  <2>. QED
    BY <2>1, <2>3, <2>4, <2>5 DEF SpendIInv
<1>2. SpendIInv /\ [TurnNext]_turnVars => SpendIInv'
  <2> SUFFICES ASSUME SpendIInv, [TurnNext]_turnVars PROVE SpendIInv'
    OBVIOUS
  <2>1. ASSUME NEW e \in Execution, BeginTurn(e) \/ TurnStep(e) PROVE SpendIInv'
    BY <2>1, BudgetSteps, ProviderSteps, RecordUsageKeeps DEF TurnStep
  <2>. QED
    BY <2>1, OtherTurnSteps DEF TurnNext
<1>. QED
  BY <1>1, <1>2, PTL DEF TurnSpec

\* For any number of executions, budgets and providers: executions that check a budget
\* together overspend it by one turn each at most.
THEOREM SpendStaysBounded == TurnSpec => []SpendIsBounded
<1>1. SpendIInv => SpendIsBounded
  <2> SUFFICES ASSUME SpendIInv, NEW s \in Scope
      PROVE  spent[s] = 0 \/ spent[s] < ceiling[s] + MaxCost * Cardinality(Spenders(s))
    BY DEF SpendIsBounded
  <2>. DEFINE n == Cardinality(Flying(s))  m == Cardinality(Spenders(s))
  <2>1. n \in Nat /\ m \in Nat /\ MaxCost * n \in Nat /\ MaxCost * m \in Nat
    BY SpendersFinite, CostTimes
  <2>2. spent[s] \in Nat /\ ceiling[s] \in Nat
    BY DEF SpendIInv, TurnTypeOK
  <2>3. spent[s] = 0 \/ spent[s] + MaxCost * n < ceiling[s] + MaxCost * m
    BY DEF SpendIInv, Unspent, Covered
  <2>. HIDE DEF n, m
  <2>4. spent[s] = 0 \/ spent[s] < ceiling[s] + MaxCost * m
    BY <2>1, <2>2, <2>3
  <2>. QED
    BY <2>4 DEF m
<1>. QED
  BY <1>1, SpendInvariance, PTL

\* A turn stores no count below one on record that it reads, nor below the one it
\* holds; every other step leaves counts alone.
LEMMA FailuresStep ==
    ASSUME SpendIInv, [TurnNext]_turnVars, NEW p \in Provider, NEW n \in 1..Threshold,
           AtLeast(p, n),
           ~\E e \in Execution : turn[e].at = "answered" /\ turn[e].rank = p
    PROVE  AtLeast(p, n)'
<1>1. turn \in [Execution -> Turn] /\ health \in [Provider -> Health]
  BY DEF SpendIInv, TurnTypeOK
<1>2. NoTurn.at = "idle" /\ n \in Nat /\ Threshold \in Nat
  BY TurnAssumption DEF NoTurn
<1>3. ASSUME NEW e \in Execution, NEW q, turn' = [turn EXCEPT ![e] = q],
             q.at = "counted" /\ q.rank = p => q.count >= n,
             health'[p].failures >= n
      PROVE  AtLeast(p, n)'
  BY <1>1, <1>3 DEF AtLeast
<1>4. ASSUME NEW e \in Execution, NEW q, turn' = [turn EXCEPT ![e] = q],
             q.at # "counted", health' = health
      PROVE  AtLeast(p, n)'
  BY <1>3, <1>4 DEF AtLeast
<1>5. ASSUME NEW e \in Execution,
             \/ BeginTurn(e) \/ Pick(e) \/ GiveUp(e) \/ Respond(e) \/ RecordUsage(e)
             \/ TurnDies(e) \/ \E s \in Scope : PassBudget(e, s) \/ MeetLimit(e, s)
      PROVE  AtLeast(p, n)'
  <2>1. turn[e] \in Turn
    BY <1>1
  <2>2. \E q : turn' = [turn EXCEPT ![e] = q] /\ q.at # "counted"
    <3>1. CASE BeginTurn(e)
      <4>1. /\ [NoTurn EXCEPT !.at = "pick"].at = "pick"
            /\ [NoTurn EXCEPT !.at = "budget", !.left = ScopesOf[e], !.limit = limit].at
                  = "budget"
        BY DEF NoTurn
      <4>2. \/ MoveOn(e, [NoTurn EXCEPT !.at = "pick"])
            \/ MoveOn(e, [NoTurn EXCEPT !.at = "budget", !.left = ScopesOf[e], !.limit = limit])
        BY <3>1 DEF BeginTurn
      <4>. QED
        BY <4>1, <4>2 DEF MoveOn
    <3>2. CASE Pick(e)
      BY <2>1, <3>2 DEF Pick, MoveOn, Turn
    <3>3. CASE GiveUp(e) \/ RecordUsage(e) \/ TurnDies(e)
      BY <1>2, <3>3 DEF GiveUp, RecordUsage, TurnDies, MoveOn
    <3>4. CASE Respond(e)
      <4>1. PICK a \in {"answered", "failed"} : MoveOn(e, [turn[e] EXCEPT !.at = a])
        BY <3>4 DEF Respond
      <4>. QED
        BY <2>1, <4>1 DEF MoveOn, Turn
    <3>5. ASSUME NEW s \in Scope, PassBudget(e, s) \/ MeetLimit(e, s)
          PROVE  \E q : turn' = [turn EXCEPT ![e] = q] /\ q.at # "counted"
      BY <1>2, <2>1, <3>5 DEF PassBudget, MeetLimit, MoveOn, NoTurn, Turn
    <3>. QED
      BY <1>5, <3>1, <3>2, <3>3, <3>4, <3>5
  <2>3. health' = health
    BY <1>5 DEF BeginTurn, Pick, GiveUp, Respond, RecordUsage, TurnDies, PassBudget, MeetLimit
  <2>. QED
    BY <1>4, <2>2, <2>3
<1>6. ASSUME NEW e \in Execution, RecordSuccess(e) PROVE AtLeast(p, n)'
  <2>1. turn[e].rank # p /\ health'[p] = health[p]
    BY <1>1, <1>6 DEF RecordSuccess
  <2>2. turn' = [turn EXCEPT ![e] = [NoTurn EXCEPT !.at = "usage"]]
    BY <1>6 DEF RecordSuccess, MoveOn
  <2>3. [NoTurn EXCEPT !.at = "usage"].at = "usage"
    BY DEF NoTurn
  <2>. QED
    BY <1>3, <2>1, <2>2, <2>3 DEF AtLeast
<1>7. ASSUME NEW e \in Execution, CountFailures(e) PROVE AtLeast(p, n)'
  <2>. DEFINE q == [turn[e] EXCEPT !.at = "counted", !.count = FailuresWith(turn[e].rank)]
  <2>1. q.rank = turn[e].rank /\ q.count = FailuresWith(turn[e].rank)
    BY <1>1 DEF Turn
  <2>2. FailuresWith(p) >= n
    BY <1>1, <1>2 DEF FailuresWith, AtLeast, Health
  <2>3. turn' = [turn EXCEPT ![e] = q] /\ health' = health
    BY <1>7 DEF CountFailures, MoveOn
  <2>. HIDE DEF q
  <2>. QED
    BY <1>3, <2>1, <2>2, <2>3 DEF AtLeast
<1>8. ASSUME NEW e \in Execution, RecordFailure(e) PROVE AtLeast(p, n)'
  <2>. DEFINE q == [turn[e] EXCEPT !.at = "pick", !.rank = @ + 1, !.count = 0]
  <2>1. q.at = "pick"
    BY <1>1 DEF Turn
  <2>2. health'[p].failures >= n
    BY <1>1, <1>8 DEF RecordFailure, AtLeast
  <2>3. turn' = [turn EXCEPT ![e] = q]
    BY <1>8 DEF RecordFailure, MoveOn
  <2>. HIDE DEF q
  <2>. QED
    BY <1>3, <2>1, <2>2, <2>3
<1>9. ASSUME NEW r \in Provider, CircuitCloses(r) PROVE AtLeast(p, n)'
  BY <1>1, <1>9 DEF CircuitCloses, AtLeast, Health
<1>10. CASE \E s \in Scope : NewPeriod(s) \/ \E m \in Limits : SetBudget(s, m)
  BY <1>10 DEF NewPeriod, SetBudget, AtLeast
<1>11. CASE UNCHANGED turnVars
  BY <1>11 DEF turnVars, AtLeast
<1>. QED
  BY <1>5, <1>6, <1>7, <1>8, <1>9, <1>10, <1>11 DEF TurnNext, TurnStep

\* Failures on record, with no older count in flight, stay until a success.
THEOREM FailuresAlwaysKept == TurnSpec => FailuresAreKept
<1>1. SpendIInv /\ [TurnNext]_turnVars =>
         [\A p \in Provider, n \in 1..Threshold : AtLeast(p, n) =>
             \/ AtLeast(p, n)'
             \/ \E e \in Execution : turn[e].at = "answered" /\ turn[e].rank = p]_turnVars
  BY FailuresStep
<1>. QED
  BY <1>1, SpendInvariance, PTL DEF TurnSpec, FailuresAreKept
=============================================================================
