------------------------------- MODULE Outbox -------------------------------
(***************************************************************************)
(* The webhook outbox: the rows of outbox3 (db_automation.py) and the      *)
(* dispatchers that deliver them (outbox.py).                              *)
(*                                                                         *)
(* A dispatcher takes the service lease before a tick and does not look at *)
(* it during the tick, which may well outlast it: ticks overlap as they    *)
(* like, and the lease is not part of the model. What keeps dispatchers    *)
(* apart is the claim of a row: its owner, one name per process, and the   *)
(* time at which others may take it over.                                  *)
(*                                                                         *)
(* Time is two facts per row: its claim has expired or not, its next       *)
(* attempt is due or not.                                                  *)
(***************************************************************************)
EXTENDS Naturals, FiniteSets

CONSTANTS
    Parcel,        \* ids of outbox rows
    Dispatcher,    \* dispatcher processes
    NoDispatcher,
    ClaimLimit,    \* _claim_limit
    OverrunBound,  \* bound: claims that expire while their owner is at work
    DeathBound     \* bound: deaths of dispatchers

ASSUME OutboxAssumption ==
    /\ IsFiniteSet(Parcel)
    /\ NoDispatcher \notin Dispatcher
    /\ ClaimLimit \in Nat \ {0}
    /\ OverrunBound \in Nat
    /\ DeathBound \in Nat

VARIABLES
    parcel,      \* parcel[i]: the row of parcel i
    accepted,    \* the parcels that their destination ever accepted
    dispatcher,  \* dispatcher[d]: its batch, and the parcel it is delivering
    overruns,
    deaths

outboxVars == <<parcel, accepted, dispatcher, overruns, deaths>>

ParcelRow == [status : {"none", "pending", "processing", "delivered"}, due : BOOLEAN,
              owner : Dispatcher \union {NoDispatcher}, expired : BOOLEAN]

DispatcherState == [batch : SUBSET Parcel, answer : {"none", "accepted", "refused"},
                    current : SUBSET Parcel]

Waiting == [batch |-> {}, answer |-> "none", current |-> {}]

OutboxInit ==
    /\ parcel = [i \in Parcel |-> [status |-> "none", due |-> TRUE,
                                   owner |-> NoDispatcher, expired |-> FALSE]]
    /\ accepted = {}
    /\ dispatcher = [d \in Dispatcher |-> Waiting]
    /\ overruns = 0
    /\ deaths = 0

EnqueueParcel(i) ==
    /\ parcel[i].status = "none"
    /\ parcel' = [parcel EXCEPT ![i].status = "pending"]
    /\ UNCHANGED <<accepted, dispatcher, overruns, deaths>>

ToClaim(i) ==
    \/ parcel[i].status = "pending" /\ parcel[i].due
    \/ parcel[i].status = "processing" /\ parcel[i].expired

\* claim_outbox: as many rows as there are, up to the limit.
ClaimParcels(d) ==
    LET claimable == {i \in Parcel : ToClaim(i)} IN
    /\ dispatcher[d] = Waiting
    /\ \E batch \in SUBSET claimable \ {{}} :
          /\ Cardinality(batch) <= ClaimLimit
          /\ Cardinality(batch) = ClaimLimit \/ batch = claimable
          /\ parcel' = [i \in Parcel |-> IF i \in batch
                THEN [status |-> "processing", due |-> parcel[i].due, owner |-> d,
                      expired |-> FALSE]
                ELSE parcel[i]]
          /\ dispatcher' = [dispatcher EXCEPT ![d].batch = batch]
    /\ UNCHANGED <<accepted, overruns, deaths>>

\* The destination accepts and the answer arrives, it accepts and the answer is
\* lost, or it does not accept.
PostParcel(d) ==
    /\ dispatcher[d].answer = "none"
    /\ \E i \in dispatcher[d].batch : \E answer \in {"accepted", "refused"} :
          /\ accepted' = accepted \union {i} \/ (answer = "refused" /\ UNCHANGED accepted)
          /\ dispatcher' = [dispatcher EXCEPT ![d] =
                [batch |-> dispatcher[d].batch \ {i}, answer |-> answer, current |-> {i}]]
    /\ UNCHANGED <<parcel, overruns, deaths>>

\* An error: the owner of the claim is not compared.
OwnsAny(d, i) == parcel[i].status = "processing"
OwnsClaim(d, i) == parcel[i].status = "processing" /\ parcel[i].owner = d

\* An error: failures are recorded as deliveries.
SettledAnyhow(i, ok) == [status |-> "delivered", due |-> FALSE, owner |-> NoDispatcher, expired |-> FALSE]

\* What finish_outbox writes.
Settled(i, ok) ==
    [status |-> IF ok THEN "delivered" ELSE "pending", due |-> FALSE,
     owner |-> NoDispatcher, expired |-> FALSE]

\* The row changes if the claim is still the dispatcher's; it goes on either way.
FinishParcel(d) ==
    /\ dispatcher[d].answer # "none"
    /\ parcel' = [i \in Parcel |->
          IF i \in dispatcher[d].current /\ OwnsClaim(d, i)
          THEN Settled(i, dispatcher[d].answer = "accepted") ELSE parcel[i]]
    /\ dispatcher' = [dispatcher EXCEPT ![d].answer = "none", ![d].current = {}]
    /\ UNCHANGED <<accepted, overruns, deaths>>

\* finish_outbox is inside the try: if it fails, the parcel counts as refused.
FinishRaises(d) ==
    /\ dispatcher[d].answer = "accepted"
    /\ dispatcher' = [dispatcher EXCEPT ![d].answer = "refused"]
    /\ UNCHANGED <<parcel, accepted, overruns, deaths>>

\* The process dies, or the loop ends with the exception of a second finish.
DispatcherDies(d) ==
    /\ dispatcher[d] # Waiting
    /\ deaths < DeathBound
    /\ deaths' = deaths + 1
    /\ dispatcher' = [dispatcher EXCEPT ![d] = Waiting]
    /\ UNCHANGED <<parcel, accepted, overruns>>

AtWork(i) ==
    \E d \in Dispatcher :
        parcel[i].owner = d /\ i \in dispatcher[d].batch \union dispatcher[d].current

\* The claim of a slow dispatcher: urlopen applies its time-out to every read.
ClaimOverruns(i) ==
    /\ parcel[i].status = "processing" /\ ~ parcel[i].expired
    /\ AtWork(i)
    /\ overruns < OverrunBound
    /\ overruns' = overruns + 1
    /\ parcel' = [parcel EXCEPT ![i].expired = TRUE]
    /\ UNCHANGED <<accepted, dispatcher, deaths>>

\* The claim of a dispatcher that has died.
ClaimExpires(i) ==
    /\ parcel[i].status = "processing" /\ ~ parcel[i].expired
    /\ ~ AtWork(i)
    /\ parcel' = [parcel EXCEPT ![i].expired = TRUE]
    /\ UNCHANGED <<accepted, dispatcher, overruns, deaths>>

\* The delay after a failure has passed.
RetryIsDue(i) ==
    /\ parcel[i].status = "pending" /\ ~ parcel[i].due
    /\ parcel' = [parcel EXCEPT ![i].due = TRUE]
    /\ UNCHANGED <<accepted, dispatcher, overruns, deaths>>

DispatcherStep(d) == ClaimParcels(d) \/ PostParcel(d) \/ FinishParcel(d)

OutboxNext ==
    \/ \E i \in Parcel :
          EnqueueParcel(i) \/ ClaimOverruns(i) \/ ClaimExpires(i) \/ RetryIsDue(i)
    \/ \E d \in Dispatcher : DispatcherStep(d) \/ FinishRaises(d) \/ DispatcherDies(d)

\* The loop of a dispatcher goes on, and time passes.
OutboxFairness ==
    /\ \A d \in Dispatcher : WF_outboxVars(DispatcherStep(d))
    /\ \A i \in Parcel : WF_outboxVars(ClaimExpires(i)) /\ WF_outboxVars(RetryIsDue(i))

OutboxSpec == OutboxInit /\ [][OutboxNext]_outboxVars

-----------------------------------------------------------------------------

OutboxTypeOK ==
    /\ parcel \in [Parcel -> ParcelRow]
    /\ accepted \in SUBSET Parcel
    /\ dispatcher \in [Dispatcher -> DispatcherState]
    /\ overruns \in 0..OverrunBound
    /\ deaths \in 0..DeathBound

\* Delivered means delivered: no slow dispatcher, lost answer or claim taken over by
\* another marks a parcel that its destination never accepted (tick, finish_outbox).
DeliveredWasAccepted ==
    \A i \in Parcel : parcel[i].status = "delivered" => i \in accepted

\* A dispatcher that lost its claim changes nothing when it finishes: as long as a
\* claim is live, the row is touched by its owner alone.
LiveClaimIsRespected ==
    [][\A i \in Parcel : \A d \in Dispatcher :
         /\ parcel[i].status = "processing" /\ parcel[i].owner = d /\ ~ parcel[i].expired
         /\ parcel'[i].status # "processing" \/ parcel'[i].owner # d
         => i \in dispatcher[d].current /\ i \notin dispatcher'[d].current
      ]_outboxVars

\* Whoever dies or dawdles with it, a claimed parcel is delivered or comes back to be
\* tried again.
ClaimedParcelIsReleased ==
    \A i \in Parcel : parcel[i].status = "processing" ~> parcel[i].status # "processing"
=============================================================================
