----------------------- MODULE PublicationQueue_proofs -----------------------
(***************************************************************************)
(* Proofs about PublicationQueue, for any items, pages, publishers and     *)
(* bounds.                                                                 *)
(***************************************************************************)
EXTENDS PublicationQueue, TLAPS

Held == {"publishing", "published", "deleted"}

\* What holds of a row and of what was posted of it.
RowOK(i) ==
    /\ row[i].status = "none" => row[i].attempt = 0 /\ post[i].count = 0 /\ post[i].pages = {}
    /\ post[i].count <= row[i].attempt
    /\ row[i].attempt <= MaxAttempts + row[i].retries
    /\ row[i].status \in {"pending_review", "pending", "retry_wait"}
          => row[i].attempt < MaxAttempts + row[i].retries
    /\ row[i].review = "due"
          => row[i].status \in {"pending_review", "cancelled", "deleted"} /\ post[i].count = 0
    /\ post[i].pages \subseteq {row[i].page, DefaultPage}

\* What holds of a publisher that took item i: nobody else moves the row, other than to
\* delete it, and the attempt that the claim counted is still to be spent.
HolderOK(w, i) ==
    /\ pub[w].at \notin {"idle", "started"}
    /\ row[i].status \in Held
    /\ pub[w].at \in {"claimed", "posted"} => row[i].status \in {"publishing", "deleted"}
    /\ pub[w].at = "recorded" => row[i].status \in {"published", "deleted"}
    /\ row[i].review # "due"
    /\ row[i].attempt > 0
    /\ pub[w].page \in {row[i].page, DefaultPage}
    /\ pub[w].at = "claimed" => post[i].count < row[i].attempt

Rows == \A i \in Item : RowOK(i)
Holders == \A w \in Publisher : \A i \in Item : Holds(w, i) => HolderOK(w, i)
Busy == \A w \in Publisher : pub[w].at \notin {"idle", "started"} => pub[w].item \in Item
Apart == \A v, w \in Publisher : \A i \in Item : Holds(v, i) /\ Holds(w, i) => v = w
Owned == \A i \in Item : Claimed(i) =>
            \E w \in Publisher : Holds(w, i) /\ pub[w].at # "recorded"

IInv == PublicationTypeOK /\ Rows /\ Holders /\ Busy /\ Apart /\ Owned

-----------------------------------------------------------------------------

LEMMA StartTyped == PublicationInit => PublicationTypeOK
  BY PublicationAssumption DEF PublicationInit, PublicationTypeOK, QueueRow, RowStatus, Posts,
     PublisherState, Stage, Resting

\* What the updates make of a row is a row.
LEMMA RowsUpdated ==
  ASSUME NEW r \in QueueRow, NEW s \in RowStatus
  PROVE  /\ Taken(r) \in QueueRow
         /\ Failed(r) \in QueueRow
         /\ Overwritten(r, s) \in QueueRow
<1>1. Taken(r) \in QueueRow
  <2>1. r.attempt + 1 \in Nat /\ "publishing" \in RowStatus
    BY DEF QueueRow, RowStatus
  <2> QED
    BY <2>1 DEF Taken, QueueRow
<1>2. Failed(r) \in QueueRow
  BY DEF Failed, QueueRow, RowStatus
<1>3. Overwritten(r, s) \in QueueRow
  BY DEF Overwritten, QueueRow
<1> QED
  BY <1>1, <1>2, <1>3

LEMMA RowAdded ==
  ASSUME NEW page \in Page, NEW s \in RowStatus
  PROVE  Added(page, s) \in QueueRow
  BY PublicationAssumption DEF Added, QueueRow, RowStatus

\* A row enters by one of two handlers, with some status.
AddedBy(i) == \E page \in Page : AddToQueue(i, page) \/ RunAiAutoPost(i, page)

LEMMA AddedTyped ==
  ASSUME NEW i \in Item, AddedBy(i)
  PROVE  \E page \in Page : \E s \in RowStatus \ {"none", "deleted"} : Insert(i, page, s)
<1>1. PICK page \in Page : AddToQueue(i, page) \/ RunAiAutoPost(i, page)
  BY DEF AddedBy
<1>2. CASE AddToQueue(i, page)
  BY <1>2 DEF AddToQueue
<1>3. CASE RunAiAutoPost(i, page)
  <2>1. PICK allowed \in BOOLEAN : Insert(i, page, IF allowed THEN "pending" ELSE "pending_review")
    BY <1>3 DEF RunAiAutoPost
  <2> QED
    BY <2>1 DEF RowStatus
<1> QED
  BY <1>1, <1>2, <1>3

LEMMA RestingTyped == Resting \in PublisherState
  BY PublicationAssumption DEF Resting, PublisherState, Stage

LEMMA TakenTyped ==
  ASSUME PublicationTypeOK, NEW i \in Item, NEW w \in Publisher, NEW c \in PublisherState,
         row' = [row EXCEPT ![i] = Taken(row[i])], pub' = [pub EXCEPT ![w] = c],
         UNCHANGED <<post, gone>>
  PROVE  PublicationTypeOK'
<1>1. row[i] \in QueueRow
  BY DEF PublicationTypeOK
<1>2. Taken(row[i]) \in QueueRow
  BY <1>1, RowsUpdated DEF RowStatus
<1> QED
  BY <1>2 DEF PublicationTypeOK

\* A row that is written at most at one item.
LEMMA OneRowTyped ==
  ASSUME PublicationTypeOK, NEW i, NEW r, i \in Item => r \in QueueRow,
         row' = [row EXCEPT ![i] = r], post' \in [Item -> Posts], pub' \in [Publisher -> PublisherState],
         gone' = gone
  PROVE  PublicationTypeOK'
  BY DEF PublicationTypeOK

\* A publisher that moves on.
LEMMA GotoTyped ==
  ASSUME PublicationTypeOK, NEW w \in Publisher, NEW at \in Stage, Goto(w, at)
  PROVE  pub' \in [Publisher -> PublisherState]
  BY DEF Goto, PublicationTypeOK, PublisherState

LEMMA RestTyped ==
  ASSUME PublicationTypeOK, NEW w \in Publisher, pub' = [pub EXCEPT ![w] = Resting]
  PROVE  pub' \in [Publisher -> PublisherState]
  BY RestingTyped DEF PublicationTypeOK

LEMMA StepTyped ==
  ASSUME PublicationTypeOK, [PublicationNext]_publicationVars
  PROVE  PublicationTypeOK'
<1> USE PublicationAssumption
<1>1. ASSUME NEW i \in Item, AddedBy(i)
      PROVE  PublicationTypeOK'
  <2>1. PICK page \in Page, s \in RowStatus \ {"none", "deleted"} : Insert(i, page, s)
    BY <1>1, AddedTyped
  <2> QED
    BY <2>1, RowAdded DEF Insert, PublicationTypeOK
<1>2. ASSUME NEW i \in Item,
             ApproveQueueItem(i) \/ RemoveFromQueue(i) \/ RetryQueueItem(i)
      PROVE  PublicationTypeOK'
  BY <1>2 DEF PublicationTypeOK, ApproveQueueItem, RemoveFromQueue, RetryQueueItem, QueueRow, RowStatus
<1>3. ASSUME NEW page \in Page, ClearQueue(page) \/ DeletePage(page)
      PROVE  PublicationTypeOK'
  BY <1>3 DEF PublicationTypeOK, ClearQueue, DeletePage, QueueRow, RowStatus
<1>4. ASSUME NEW w \in Publisher, NEW page \in Page, StartAutoPost(w, page)
      PROVE  PublicationTypeOK'
  BY <1>4 DEF PublicationTypeOK, StartAutoPost, PublisherState, Stage
<1>5. ASSUME NEW w \in Publisher, NEW i \in Item, PublishQueueItem(w, i)
      PROVE  PublicationTypeOK'
  <2> PICK c : c = [at |-> "claimed", item |-> i, page |-> row[i].page, manual |-> TRUE]
    OBVIOUS
  <2>1. c \in PublisherState
    BY DEF PublicationTypeOK, QueueRow, PublisherState, Stage
  <2> QED
    BY <1>5, <2>1, TakenTyped DEF PublishQueueItem
<1>6. ASSUME NEW w \in Publisher, ClaimPending(w)
      PROVE  PublicationTypeOK'
  <2>1. CASE \E i \in Pickable(w) : /\ row' = [row EXCEPT ![i] = Taken(row[i])]
                                    /\ pub' = [pub EXCEPT ![w].at = "claimed", ![w].item = i]
    <3>1. PICK i \in Item : /\ row' = [row EXCEPT ![i] = Taken(row[i])]
                            /\ pub' = [pub EXCEPT ![w].at = "claimed", ![w].item = i]
      BY <2>1 DEF Pickable
    <3> PICK c : c = [pub[w] EXCEPT !.at = "claimed", !.item = i]
      OBVIOUS
    <3>2. c \in PublisherState /\ pub' = [pub EXCEPT ![w] = c]
      BY <3>1 DEF PublicationTypeOK, PublisherState, Stage
    <3> QED
      BY <1>6, <3>1, <3>2, TakenTyped DEF ClaimPending
  <2>2. CASE pub' = [pub EXCEPT ![w] = Resting] /\ UNCHANGED row
    BY <1>6, <2>2, RestTyped DEF ClaimPending, PublicationTypeOK
  <2> QED
    BY <1>6, <2>1, <2>2 DEF ClaimPending
<1>7. ASSUME NEW w \in Publisher, Publish(w)
      PROVE  PublicationTypeOK'
  <2>1. pub' \in [Publisher -> PublisherState]
    BY <1>7, GotoTyped DEF Publish, Stage
  <2>2. Target(w) \in Page
    BY DEF Target, PublicationTypeOK, PublisherState
  <2>3. post' \in [Item -> Posts]
    BY <1>7, <2>2 DEF Publish, PublicationTypeOK, Posts
  <2> QED
    BY <1>7, <2>1, <2>3 DEF Publish, PublicationTypeOK
<1>8. ASSUME NEW w \in Publisher, RecordPublished(w)
      PROVE  PublicationTypeOK'
  <2>1. pub' \in [Publisher -> PublisherState]
    BY <1>8, GotoTyped DEF RecordPublished, Stage
  <2>2. pub[w].item \in Item => Overwritten(row[pub[w].item], "published") \in QueueRow
    BY RowsUpdated DEF RowStatus, PublicationTypeOK
  <2> QED
    BY <1>8, <2>1, <2>2, OneRowTyped DEF RecordPublished, PublicationTypeOK
<1>9. ASSUME NEW w \in Publisher, AddHistory(w)
      PROVE  PublicationTypeOK'
  <2>1. pub' \in [Publisher -> PublisherState]
    BY <1>9, GotoTyped, RestTyped DEF AddHistory, Stage
  <2> QED
    BY <1>9, <2>1 DEF AddHistory, PublicationTypeOK
<1>10. ASSUME NEW w \in Publisher, Catch(w)
       PROVE  PublicationTypeOK'
  <2> DEFINE i == pub[w].item
  <2>1. pub' \in [Publisher -> PublisherState] /\ UNCHANGED <<post, gone>>
    BY <1>10, RestTyped DEF Catch
  <2>2. i \in Item => Overwritten(row[i], "error") \in QueueRow /\ Failed(row[i]) \in QueueRow
    BY RowsUpdated DEF RowStatus, PublicationTypeOK
  <2>3. post' \in [Item -> Posts] /\ gone' = gone /\ gone' \in SUBSET Page
    BY <2>1 DEF PublicationTypeOK
  <2>4. \/ row' = [row EXCEPT ![i] = Overwritten(row[i], "error")]
        \/ row' = [row EXCEPT ![i] = Failed(row[i])]
        \/ row' = row
    BY <1>10 DEF Catch, Fails
  <2> HIDE DEF i
  <2> QED
    BY <2>1, <2>2, <2>3, <2>4, OneRowTyped DEF PublicationTypeOK
<1>11. ASSUME NEW w \in Publisher, Crash(w)
       PROVE  PublicationTypeOK'
  <2>1. pub' \in [Publisher -> PublisherState]
    BY <1>11, GotoTyped DEF Crash, Stage
  <2> QED
    BY <1>11, <2>1 DEF Crash, PublicationTypeOK
<1>12. CASE UNCHANGED publicationVars
  BY <1>12 DEF publicationVars, PublicationTypeOK
<1> QED
  BY <1>1, <1>2, <1>3, <1>4, <1>5, <1>6, <1>7, <1>8, <1>9, <1>10, <1>11, <1>12
     DEF PublicationNext, PublisherStep, AddedBy

\* Every reachable state is well typed: rows, posts and publishers.
THEOREM PublicationTypeCorrect == PublicationSpec => []PublicationTypeOK
<1>1. PublicationTypeOK /\ [PublicationNext]_publicationVars => PublicationTypeOK'
  BY StepTyped
<1> QED
  BY <1>1, StartTyped, PTL DEF PublicationSpec

-----------------------------------------------------------------------------
(* The inductive invariant *)

\* A row that says the same, of an item of which the same was posted, is as well.
LEMMA SameRow ==
  ASSUME NEW i \in Item, RowOK(i), row'[i] = row[i], post'[i] = post[i]
  PROVE  RowOK(i)'
  BY DEF RowOK

LEMMA SameHolder ==
  ASSUME NEW i \in Item, NEW w \in Publisher, HolderOK(w, i),
         row'[i] = row[i], post'[i] = post[i], pub'[w] = pub[w]
  PROVE  HolderOK(w, i)'
  BY DEF HolderOK

\* The handlers edit rows that nobody holds, and leave them so: what they insert as
\* "publishing" was never claimed.
LEMMA EditKeeps ==
  ASSUME IInv, PublicationTypeOK', UNCHANGED <<post, pub>>,
         \A i \in Item : \/ row'[i] = row[i]
                         \/ /\ row[i].status \notin Held
                            /\ row'[i].status \in Held => row'[i].attempt = 0
                            /\ RowOK(i)'
  PROVE  IInv'
<1> USE DEF IInv
<1>1. Rows'
  BY SameRow DEF Rows
<1>2. Holders'
  <2> SUFFICES ASSUME NEW w \in Publisher, NEW i \in Item, Holds(w, i)
               PROVE  HolderOK(w, i)'
    BY DEF Holders, Holds
  <2>1. HolderOK(w, i) /\ row[i].status \in Held
    BY DEF Holders, HolderOK
  <2> QED
    BY <2>1, SameHolder
<1>3. Busy' /\ Apart'
  BY DEF Busy, Apart, Holds
<1>4. Owned'
  BY DEF Owned, Claimed, Holds, Held
<1> QED
  BY <1>1, <1>2, <1>3, <1>4

\* A page takes its rows with it, the ones that are held too.
LEMMA DeleteKeeps ==
  ASSUME IInv, NEW page \in Page, DeletePage(page), PublicationTypeOK'
  PROVE  IInv'
<1> USE DEF IInv
<1>1. UNCHANGED <<post, pub>>
  BY DEF DeletePage
<1>2. ASSUME NEW i \in Item
      PROVE  \/ row'[i] = row[i]
             \/ row[i].status # "none" /\ row'[i] = [row[i] EXCEPT !.status = "deleted"]
  BY DEF DeletePage
<1>3. ASSUME NEW i \in Item
      PROVE  /\ row'[i].attempt = row[i].attempt /\ row'[i].page = row[i].page
             /\ row'[i].retries = row[i].retries /\ row'[i].review = row[i].review
             /\ row'[i].status = row[i].status \/ row'[i].status = "deleted"
  BY <1>2 DEF PublicationTypeOK, QueueRow
<1>4. Rows'
  <2> SUFFICES ASSUME NEW i \in Item
               PROVE  RowOK(i)'
    BY DEF Rows
  <2>1. RowOK(i)
    BY DEF Rows
  <2> QED
    BY <1>1, <1>3, <2>1 DEF RowOK
<1>5. Holders'
  <2> SUFFICES ASSUME NEW w \in Publisher, NEW i \in Item, Holds(w, i)
               PROVE  HolderOK(w, i)'
    BY <1>1 DEF Holders, Holds
  <2>1. HolderOK(w, i)
    BY DEF Holders
  <2> QED
    BY <1>1, <1>3, <2>1 DEF HolderOK, Held
<1>6. Busy' /\ Apart'
  BY <1>1 DEF Busy, Apart, Holds
<1>7. Owned'
  BY <1>1, <1>3 DEF Owned, Claimed, Holds
<1> QED
  BY <1>4, <1>5, <1>6, <1>7

\* A claim takes a row that nobody holds.
LEMMA ClaimKeeps ==
  ASSUME IInv, PublicationTypeOK', NEW w \in Publisher, NEW i \in Item, NEW c \in PublisherState,
         pub[w].at \in {"idle", "started"}, row[i].status \in Claimable,
         c.at = "claimed", c.item = i, c.page \in {row[i].page, DefaultPage},
         row' = [row EXCEPT ![i] = Taken(row[i])], pub' = [pub EXCEPT ![w] = c], post' = post
  PROVE  IInv'
<1> USE DEF IInv
<1>1. /\ row'[i].status = "publishing" /\ row'[i].attempt = row[i].attempt + 1
      /\ row'[i].page = row[i].page /\ row'[i].retries = row[i].retries
      /\ row'[i].review = row[i].review
  BY DEF Taken, PublicationTypeOK, QueueRow
<1>2. \A j \in Item : j # i => row'[j] = row[j]
  BY DEF PublicationTypeOK
<1>3. pub'[w] = c /\ \A v \in Publisher : v # w => pub'[v] = pub[v]
  BY DEF PublicationTypeOK
<1>4. \A v \in Publisher : ~Holds(v, i)
  BY DEF Holders, HolderOK, Held, Claimable
<1>5. RowOK(i)
  BY DEF Rows
<1>6. row[i].attempt \in Nat /\ row[i].retries \in Nat /\ post[i].count \in Nat
  BY PublicationAssumption DEF PublicationTypeOK, QueueRow, Posts
<1>7. RowOK(i)'
  BY <1>1, <1>5, <1>6, PublicationAssumption DEF RowOK, Claimable
<1>8. HolderOK(w, i)'
  BY <1>1, <1>3, <1>5, <1>6 DEF RowOK, HolderOK, Claimable, Held
<1>9. Rows'
  BY <1>2, <1>7, SameRow DEF Rows
<1>10. Holders'
  <2> SUFFICES ASSUME NEW v \in Publisher, NEW j \in Item, Holds(v, j)'
               PROVE  HolderOK(v, j)'
    BY DEF Holders
  <2>1. CASE v = w
    BY <1>3, <1>8, <2>1 DEF Holds
  <2>2. CASE v # w
    <3>1. Holds(v, j) /\ j # i
      BY <1>3, <1>4, <2>2 DEF Holds
    <3> QED
      BY <1>2, <1>3, <2>2, <3>1, SameHolder DEF Holders
  <2> QED
    BY <2>1, <2>2
<1>11. Busy'
  BY <1>3 DEF Busy
<1>12. Apart'
  BY <1>3, <1>4 DEF Apart, Holds
<1>13. Owned'
  <2> SUFFICES ASSUME NEW j \in Item, Claimed(j)'
               PROVE  \E v \in Publisher : Holds(v, j)' /\ pub'[v].at # "recorded"
    BY DEF Owned
  <2>1. CASE j = i
    BY <1>3, <2>1 DEF Holds
  <2>2. CASE j # i
    <3>1. PICK v \in Publisher : Holds(v, j) /\ pub[v].at # "recorded"
      BY <1>2, <2>2 DEF Owned, Claimed
    <3>2. v # w
      BY <3>1 DEF Holders, HolderOK
    <3> QED
      BY <1>3, <3>1, <3>2 DEF Holds
  <2> QED
    BY <2>1, <2>2
<1> QED
  BY <1>9, <1>10, <1>11, <1>12, <1>13

\* A publisher that holds item i moves on: what is asked of it and of its row afterwards.
LEMMA HolderMoves ==
  ASSUME IInv, PublicationTypeOK', NEW w \in Publisher, NEW i \in Item, Holds(w, i),
         \A j \in Item : j # i => row'[j] = row[j] /\ post'[j] = post[j],
         \A v \in Publisher : v # w => pub'[v] = pub[v],
         RowOK(i)',
         \/ Holds(w, i)' /\ HolderOK(w, i)' /\ (row'[i].status = "publishing" => pub'[w].at # "recorded")
         \/ pub'[w] = Resting /\ row'[i].status # "publishing"
  PROVE  IInv'
<1> USE DEF IInv
<1>1. Rows'
  BY SameRow DEF Rows
<1>2. ASSUME NEW v \in Publisher, NEW j \in Item, v # w, Holds(v, j)
      PROVE  j # i /\ HolderOK(v, j)'
  <2>1. j # i
    BY <1>2 DEF Apart
  <2> QED
    BY <1>2, <2>1, SameHolder DEF Holders
<1>3. ASSUME NEW j \in Item, Holds(w, j)'
      PROVE  j = i /\ HolderOK(w, i)'
  BY <1>3, PublicationAssumption DEF Holds, Resting
<1>4. Holders'
  <2> SUFFICES ASSUME NEW v \in Publisher, NEW j \in Item, Holds(v, j)'
               PROVE  HolderOK(v, j)'
    BY DEF Holders
  <2>1. CASE v = w
    BY <1>3, <2>1
  <2>2. CASE v # w
    BY <1>2, <2>2 DEF Holds
  <2> QED
    BY <2>1, <2>2
<1>5. Busy'
  BY DEF Busy, Holds, Resting
<1>6. Apart'
  <2> SUFFICES ASSUME NEW u \in Publisher, NEW v \in Publisher, NEW j \in Item,
                      Holds(u, j)', Holds(v, j)', u # v
               PROVE  FALSE
    BY DEF Apart
  <2>1. CASE u = w
    BY <1>2, <1>3, <2>1 DEF Holds
  <2>2. CASE v = w
    BY <1>2, <1>3, <2>2 DEF Holds
  <2>3. CASE u # w /\ v # w
    BY <2>3 DEF Apart, Holds
  <2> QED
    BY <2>1, <2>2, <2>3
<1>7. Owned'
  <2> SUFFICES ASSUME NEW j \in Item, Claimed(j)'
               PROVE  \E v \in Publisher : Holds(v, j)' /\ pub'[v].at # "recorded"
    BY DEF Owned
  <2>1. CASE j = i
    BY <2>1 DEF Claimed, Resting
  <2>2. CASE j # i
    <3>1. PICK v \in Publisher : Holds(v, j) /\ pub[v].at # "recorded"
      BY <2>2 DEF Owned, Claimed
    <3>2. v # w
      BY <2>2, <3>1 DEF Holds
    <3> QED
      BY <3>1, <3>2 DEF Holds
  <2> QED
    BY <2>1, <2>2
<1> QED
  BY <1>1, <1>4, <1>5, <1>6, <1>7

\* A publisher between two items says nothing about a row.
LEMMA IdleMoves ==
  ASSUME IInv, PublicationTypeOK', NEW w \in Publisher, NEW c \in PublisherState,
         pub[w].item \notin Item, c.item \notin Item, c.at \in {"idle", "started"},
         pub' = [pub EXCEPT ![w] = c], UNCHANGED <<row, post>>
  PROVE  IInv'
<1> USE DEF IInv
<1>1. pub'[w] = c /\ \A v \in Publisher : v # w => pub'[v] = pub[v]
  BY DEF PublicationTypeOK
<1>2. \A v \in Publisher, j \in Item :
         /\ Holds(v, j)' => v # w /\ Holds(v, j)
         /\ Holds(v, j) => v # w /\ Holds(v, j)'
  BY <1>1 DEF Holds
<1>3. Rows'
  BY SameRow DEF Rows
<1>4. Holders'
  BY <1>1, <1>2, SameHolder DEF Holders
<1>5. Busy' /\ Apart'
  BY <1>1, <1>2 DEF Busy, Apart
<1>6. Owned'
  BY <1>1, <1>2 DEF Owned, Claimed
<1> QED
  BY <1>3, <1>4, <1>5, <1>6

LEMMA StartKept == PublicationInit => IInv
<1> SUFFICES ASSUME PublicationInit PROVE IInv
  OBVIOUS
<1>1. PublicationTypeOK
  BY StartTyped
<1>2. Rows /\ Owned
  BY PublicationAssumption DEF PublicationInit, Rows, RowOK, Owned, Claimed
<1>3. Holders /\ Busy /\ Apart
  BY PublicationAssumption DEF PublicationInit, Holders, Busy, Apart, Holds, Resting
<1> QED
  BY <1>1, <1>2, <1>3 DEF IInv

\* What the handlers make of a row that nobody holds.
LEMMA EditorKeeps ==
  ASSUME IInv, PublicationTypeOK', NEW i \in Item,
         \/ AddedBy(i)
         \/ ApproveQueueItem(i) \/ RemoveFromQueue(i) \/ RetryQueueItem(i)
  PROVE  IInv'
<1> USE DEF IInv
<1>1. UNCHANGED <<post, pub>> /\ \A j \in Item : j # i => row'[j] = row[j]
  BY AddedTyped DEF PublicationTypeOK, Insert, ApproveQueueItem, RemoveFromQueue, RetryQueueItem
<1>2. RowOK(i) /\ row[i] \in QueueRow /\ post[i] \in Posts
  BY DEF Rows, PublicationTypeOK
<1>3. /\ RowOK(i)' /\ row[i].status \notin Held
      /\ row'[i].status \in Held => row'[i].attempt = 0
  <2>1. CASE AddedBy(i)
    <3>1. PICK page \in Page, s \in RowStatus \ {"none", "deleted"} : Insert(i, page, s)
      BY <2>1, AddedTyped
    <3>2. row'[i] = Added(page, s) /\ row[i].status = "none" /\ post'[i] = post[i]
      BY <3>1 DEF Insert, PublicationTypeOK
    <3> QED
      BY <1>2, <3>2, PublicationAssumption DEF RowOK, Added, Held
  <2>2. CASE ApproveQueueItem(i)
    <3>1. /\ row[i].status = "pending_review" /\ post'[i] = post[i]
          /\ row'[i] = [row[i] EXCEPT !.status = "pending", !.review = "done"]
      BY <2>2 DEF ApproveQueueItem, PublicationTypeOK
    <3> QED
      BY <1>2, <3>1 DEF RowOK, Held, QueueRow
  <2>3. CASE RemoveFromQueue(i)
    <3>1. /\ row[i].status \in Cancellable /\ post'[i] = post[i]
          /\ row'[i] = [row[i] EXCEPT !.status = "cancelled"]
      BY <2>3 DEF RemoveFromQueue, PublicationTypeOK
    <3> QED
      BY <1>2, <3>1 DEF RowOK, Held, QueueRow, Cancellable
  <2>4. CASE RetryQueueItem(i)
    <3>1. /\ row[i].status \in Retryable /\ post'[i] = post[i]
          /\ row'[i] = [row[i] EXCEPT !.status = "pending", !.retries = row[i].retries + 1]
      BY <2>4 DEF RetryQueueItem, PublicationTypeOK
    <3>2. /\ row'[i].status = "pending" /\ row'[i].retries = row[i].retries + 1
          /\ row'[i].attempt = row[i].attempt /\ row'[i].page = row[i].page
          /\ row'[i].review = row[i].review
      BY <1>2, <3>1 DEF QueueRow
    <3>3. row[i].attempt \in Nat /\ row[i].retries \in Nat /\ post[i].count \in Nat
      BY <1>2, PublicationAssumption DEF QueueRow, Posts
    <3> QED
      BY <1>2, <3>1, <3>2, <3>3, PublicationAssumption DEF RowOK, Held, Retryable
  <2> QED
    BY <2>1, <2>2, <2>3, <2>4
<1> QED
  BY <1>1, <1>3, EditKeeps

LEMMA ClearKeeps ==
  ASSUME IInv, PublicationTypeOK', NEW page \in Page, ClearQueue(page)
  PROVE  IInv'
<1> USE DEF IInv
<1>1. UNCHANGED <<post, pub>>
  BY DEF ClearQueue
<1>2. ASSUME NEW i \in Item
      PROVE  \/ row'[i] = row[i]
             \/ /\ row[i].status \in Cancellable
                /\ row'[i] = [row[i] EXCEPT !.status = "cancelled"]
  BY DEF ClearQueue
<1>3. ASSUME NEW i \in Item, row[i].status \in Cancellable,
             row'[i] = [row[i] EXCEPT !.status = "cancelled"]
      PROVE  row[i].status \notin Held /\ row'[i].status \notin Held /\ RowOK(i)'
  <2>1. RowOK(i) /\ row[i] \in QueueRow
    BY DEF Rows, PublicationTypeOK
  <2> QED
    BY <1>1, <1>3, <2>1 DEF RowOK, Held, QueueRow, Cancellable
<1> QED
  BY <1>1, <1>2, <1>3, EditKeeps

LEMMA PublisherKeeps ==
  ASSUME IInv, PublicationTypeOK', NEW w \in Publisher,
         Publish(w) \/ RecordPublished(w) \/ AddHistory(w) \/ Catch(w) \/ Crash(w)
  PROVE  IInv'
<1> USE DEF IInv
<1>1. pub[w].at \in {"claimed", "posted", "recorded", "failing"}
  BY DEF Publish, RecordPublished, AddHistory, Catch, Crash
<1>0. PICK i \in Item : i = pub[w].item
  BY <1>1 DEF Busy
<1>2. i \in Item /\ Holds(w, i)
  BY <1>0 DEF Holds
<1>3. HolderOK(w, i) /\ RowOK(i)
  BY <1>2 DEF Holders, Rows
<1>4. /\ row[i] \in QueueRow /\ post[i] \in Posts /\ pub[w] \in PublisherState
      /\ row[i].attempt \in Nat /\ row[i].retries \in Nat /\ post[i].count \in Nat
  BY <1>2, PublicationAssumption DEF PublicationTypeOK, QueueRow, Posts
<1>5. /\ \A v \in Publisher : v # w => pub'[v] = pub[v]
      /\ \A j \in Item : j # i => row'[j] = row[j] /\ post'[j] = post[j]
  BY <1>0 DEF PublicationTypeOK, Publish, RecordPublished, AddHistory, Catch, Crash, Goto, Fails
<1>6. ASSUME NEW at \in Stage, Goto(w, at)
      PROVE  /\ pub'[w].at = at /\ pub'[w].page = pub[w].page /\ Holds(w, i)'
  BY <1>0, <1>6, <1>4 DEF Goto, Holds, PublicationTypeOK, PublisherState
<1>7. ASSUME pub' = [pub EXCEPT ![w] = Resting]
      PROVE  pub'[w] = Resting
  BY <1>7 DEF PublicationTypeOK
<1>8. CASE Publish(w)
  <2>1. row' = row /\ pub[w].at = "claimed"
    BY <1>8 DEF Publish
  <2>2. Target(w) \in {row[i].page, DefaultPage}
    BY <1>3 DEF Target, HolderOK
  <2>3. post'[i] = post[i] \/ post'[i] = [count |-> post[i].count + 1, pages |-> post[i].pages \union {Target(w)}]
    BY <1>0, <1>8 DEF Publish, PublicationTypeOK
  <2>4. Holds(w, i)' /\ pub'[w].at \in {"posted", "failing"} /\ pub'[w].page = pub[w].page
    BY <1>6, <1>8 DEF Publish, Stage
  <2>5. RowOK(i)'
    BY <1>3, <1>4, <2>1, <2>2, <2>3 DEF RowOK, HolderOK, Held
  <2>6. HolderOK(w, i)' /\ pub'[w].at # "recorded"
    BY <1>3, <2>1, <2>4 DEF HolderOK
  <2> QED
    BY <1>2, <1>5, <2>4, <2>5, <2>6, HolderMoves
<1>9. CASE RecordPublished(w)
  <2>1. post' = post /\ pub[w].at = "posted"
    BY <1>9 DEF RecordPublished
  <2>2. \/ row'[i] = Overwritten(row[i], "published") /\ Goto(w, "recorded")
        \/ row'[i] = row[i] /\ Goto(w, "failing")
    BY <1>0, <1>9 DEF RecordPublished, PublicationTypeOK
  <2>3. /\ row'[i].attempt = row[i].attempt /\ row'[i].page = row[i].page
        /\ row'[i].retries = row[i].retries /\ row'[i].review = row[i].review
    BY <1>4, <2>2 DEF Overwritten, QueueRow
  <2>4. \/ row'[i].status \in {"published", "deleted"} /\ pub'[w].at = "recorded"
        \/ row'[i].status = row[i].status /\ pub'[w].at = "failing"
    BY <1>4, <1>6, <2>2 DEF Overwritten, QueueRow, Stage
  <2>5. Holds(w, i)' /\ pub'[w].page = pub[w].page
    BY <1>6, <2>2 DEF Stage
  <2>6. RowOK(i)'
    BY <1>3, <1>4, <2>1, <2>3, <2>4 DEF RowOK, HolderOK, Held
  <2>7. HolderOK(w, i)' /\ (row'[i].status = "publishing" => pub'[w].at # "recorded")
    BY <1>3, <2>1, <2>3, <2>4, <2>5 DEF HolderOK, Held
  <2> QED
    BY <1>2, <1>5, <2>5, <2>6, <2>7, HolderMoves
<1>10. CASE AddHistory(w)
  <2>1. row' = row /\ post' = post /\ pub[w].at = "recorded"
    BY <1>10 DEF AddHistory
  <2>2. RowOK(i)'
    BY <1>2, <1>3, <2>1, SameRow
  <2>3. row'[i].status # "publishing"
    BY <1>3, <2>1 DEF HolderOK
  <2>4. CASE Goto(w, "failing")
    <3>1. Holds(w, i)' /\ pub'[w].at = "failing" /\ pub'[w].page = pub[w].page
      BY <1>6, <2>4 DEF Stage
    <3>2. HolderOK(w, i)'
      BY <1>3, <2>1, <3>1 DEF HolderOK
    <3> QED
      BY <1>2, <1>5, <2>2, <2>3, <3>1, <3>2, HolderMoves
  <2>5. CASE pub' = [pub EXCEPT ![w] = Resting]
    BY <1>2, <1>5, <1>7, <2>2, <2>3, <2>5, HolderMoves
  <2> QED
    BY <1>10, <2>4, <2>5 DEF AddHistory
<1>11. CASE Catch(w)
  <2>1. post' = post /\ pub'[w] = Resting
    BY <1>7, <1>11 DEF Catch
  <2>2. \/ row'[i] = Overwritten(row[i], "error")
        \/ row[i].status = "publishing" /\ row'[i] = Failed(row[i])
        \/ row[i].status # "publishing" /\ row'[i] = row[i]
    BY <1>0, <1>11 DEF Catch, Fails, PublicationTypeOK
  <2>3. /\ row'[i].attempt = row[i].attempt /\ row'[i].page = row[i].page
        /\ row'[i].retries = row[i].retries /\ row'[i].review = row[i].review
        /\ row'[i].status # "publishing"
        /\ row'[i].status \in {"retry_wait", "error", "failed"} \/ row'[i].status = row[i].status
        /\ row'[i].status = "retry_wait" => row[i].attempt < MaxAttempts \/ row[i].status = "retry_wait"
    BY <1>4, <2>2 DEF Overwritten, Failed, QueueRow
  <2>4. RowOK(i)'
    BY <1>3, <1>4, <2>1, <2>3, PublicationAssumption DEF RowOK, HolderOK, Held
  <2> QED
    BY <1>2, <1>5, <2>1, <2>3, <2>4, HolderMoves
<1>12. CASE Crash(w)
  <2>1. row' = row /\ post' = post
    BY <1>12 DEF Crash
  <2>2. Holds(w, i)' /\ pub'[w].at = "dead" /\ pub'[w].page = pub[w].page
    BY <1>6, <1>12 DEF Crash, Stage
  <2>3. RowOK(i)'
    BY <1>2, <1>3, <2>1, SameRow
  <2>4. HolderOK(w, i)'
    BY <1>3, <2>1, <2>2 DEF HolderOK
  <2> QED
    BY <1>2, <1>5, <2>2, <2>3, <2>4, HolderMoves
<1> QED
  BY <1>8, <1>9, <1>10, <1>11, <1>12

LEMMA StepKeeps ==
  ASSUME IInv, [PublicationNext]_publicationVars
  PROVE  IInv'
<1> USE DEF IInv
<1>1. PublicationTypeOK'
  BY StepTyped
<1>2. ASSUME NEW w \in Publisher, pub[w].at \in {"idle", "started"}
      PROVE  pub[w].item \notin Item
  BY <1>2 DEF Holders, HolderOK, Holds
<1>3. ASSUME NEW i \in Item, AddedBy(i)
      PROVE  IInv'
  BY <1>1, <1>3, EditorKeeps
<1>4. ASSUME NEW i \in Item, ApproveQueueItem(i) \/ RemoveFromQueue(i) \/ RetryQueueItem(i)
      PROVE  IInv'
  BY <1>1, <1>4, EditorKeeps
<1>5. ASSUME NEW page \in Page, ClearQueue(page) \/ DeletePage(page)
      PROVE  IInv'
  BY <1>1, <1>5, ClearKeeps, DeleteKeeps
<1>6. ASSUME NEW w \in Publisher, NEW page \in Page, StartAutoPost(w, page)
      PROVE  IInv'
  <2> PICK c : c = [pub[w] EXCEPT !.at = "started", !.page = page]
    OBVIOUS
  <2>1. pub[w] = Resting /\ pub' = [pub EXCEPT ![w] = c]
    BY <1>6 DEF StartAutoPost
  <2>2. c.at = "started" /\ c.item = NoItem
    BY <2>1 DEF Resting
  <2>3. c \in PublisherState /\ c.item \notin Item
    BY <2>2, PublicationAssumption DEF PublicationTypeOK, PublisherState, Stage
  <2>4. pub[w].item \notin Item
    BY <2>1, PublicationAssumption DEF Resting
  <2> QED
    BY <1>1, <1>6, <2>1, <2>2, <2>3, <2>4, IdleMoves DEF StartAutoPost
<1>7. ASSUME NEW w \in Publisher, NEW i \in Item, PublishQueueItem(w, i)
      PROVE  IInv'
  <2> PICK c : c = [at |-> "claimed", item |-> i, page |-> row[i].page, manual |-> TRUE]
    OBVIOUS
  <2>1. /\ c \in PublisherState /\ c.at = "claimed" /\ c.item = i
        /\ c.page \in {row[i].page, DefaultPage}
    BY DEF PublicationTypeOK, QueueRow, PublisherState, Stage
  <2>2. pub[w].at = "idle" /\ pub' = [pub EXCEPT ![w] = c]
    BY <1>7 DEF PublishQueueItem, Resting
  <2> QED
    BY <1>1, <1>7, <2>1, <2>2, ClaimKeeps DEF PublishQueueItem
<1>8. ASSUME NEW w \in Publisher, ClaimPending(w)
      PROVE  IInv'
  <2>1. CASE \E i \in Pickable(w) : /\ row' = [row EXCEPT ![i] = Taken(row[i])]
                                    /\ pub' = [pub EXCEPT ![w].at = "claimed", ![w].item = i]
    <3>1. PICK i \in Pickable(w) : /\ row' = [row EXCEPT ![i] = Taken(row[i])]
                                   /\ pub' = [pub EXCEPT ![w].at = "claimed", ![w].item = i]
      BY <2>1
    <3>2. /\ i \in Item /\ row[i].status \in Claimable
          /\ pub[w].page \in {row[i].page, DefaultPage}
      BY DEF Pickable, Concerns
    <3> PICK c : c = [pub[w] EXCEPT !.at = "claimed", !.item = i]
      OBVIOUS
    <3>3. /\ c \in PublisherState /\ pub' = [pub EXCEPT ![w] = c]
          /\ c.at = "claimed" /\ c.item = i /\ c.page = pub[w].page
      BY <3>1, <3>2 DEF PublicationTypeOK, PublisherState, Stage
    <3> QED
      BY <1>1, <1>8, <3>1, <3>2, <3>3, ClaimKeeps DEF ClaimPending
  <2>2. CASE pub' = [pub EXCEPT ![w] = Resting] /\ UNCHANGED row
    <3>1. Resting.item \notin Item /\ Resting.at = "idle" /\ Resting \in PublisherState
      BY RestingTyped, PublicationAssumption DEF Resting
    <3> QED
      BY <1>1, <1>2, <1>8, <2>2, <3>1, IdleMoves DEF ClaimPending
  <2> QED
    BY <1>8, <2>1, <2>2 DEF ClaimPending
<1>9. ASSUME NEW w \in Publisher,
             Publish(w) \/ RecordPublished(w) \/ AddHistory(w) \/ Catch(w) \/ Crash(w)
      PROVE  IInv'
  BY <1>1, <1>9, PublisherKeeps
<1>10. CASE UNCHANGED publicationVars
  <2>1. UNCHANGED <<row, post, pub>>
    BY <1>10 DEF publicationVars
  <2> QED
    BY <1>1, <2>1, EditKeeps
<1> QED
  BY <1>3, <1>4, <1>5, <1>6, <1>7, <1>8, <1>9, <1>10 DEF PublicationNext, PublisherStep, AddedBy

\* The inductive invariant of the queue: types, who holds which row, and what a row
\* owes to its review, its attempts and its page.
THEOREM Invariance == PublicationSpec => []IInv
<1>1. IInv /\ [PublicationNext]_publicationVars => IInv'
  BY StepKeeps
<1> QED
  BY <1>1, StartKept, PTL DEF PublicationSpec

-----------------------------------------------------------------------------

\* A row that was claimed and is being published has exactly one publisher, and one that
\* was never claimed has none, whatever status it was inserted with (claims, retries,
\* crashes).
THEOREM EveryPublishingIsOwned == PublicationSpec => []PublishingIsOwned
<1>1. IInv => PublishingIsOwned
  <2> SUFFICES ASSUME IInv
               PROVE  PublishingIsOwned
    OBVIOUS
  <2>1. ASSUME NEW i \in Item, NEW w \in Publisher, Holds(w, i)
        PROVE  row[i].attempt # 0
    BY <2>1 DEF IInv, Holders, HolderOK
  <2> QED
    BY <2>1 DEF IInv, Owned, Apart, PublishingIsOwned
<1> QED
  BY <1>1, Invariance, PTL

\* What was queued for review is posted only after an approval, and on its own page or
\* that of the settings, whatever page is deleted.
THEOREM EveryPostWasQueued == PublicationSpec => []PostedAsQueued
<1>1. IInv => PostedAsQueued
  <2> SUFFICES ASSUME IInv, NEW i \in Item
               PROVE  /\ ~ (post[i].count > 0 /\ row[i].review = "due")
                      /\ post[i].pages \subseteq {row[i].page, DefaultPage}
    BY DEF PostedAsQueued
  <2>1. RowOK(i)
    BY DEF IInv, Rows
  <2> QED
    BY <2>1 DEF RowOK
<1> QED
  BY <1>1, Invariance, PTL

\* No interleaving of jobs, requests and lost answers posts an item more often than
\* max_attempts and its manual retries allow.
THEOREM EveryPostWasBudgeted == PublicationSpec => []PostsAreBudgeted
<1>1. IInv => PostsAreBudgeted
  BY DEF IInv, Rows, RowOK, PostsAreBudgeted
<1> QED
  BY <1>1, Invariance, PTL

\* Both of these.
THEOREM EveryPostIsInOrder == PublicationSpec => []PostsAreInOrder
  BY EveryPostWasQueued, EveryPostWasBudgeted, PTL DEF PostsAreInOrder

\* Only the request that published a row by hand, failing afterwards, takes it back.
THEOREM EveryPublishedIsKept == PublicationSpec => PublishedIsKept
<1>1. ASSUME IInv, PublicationNext, NEW i \in Item, row[i].status = "published"
      PROVE  \/ row'[i].status \in {"published", "deleted"}
             \/ \E w \in Publisher : Holds(w, i) /\ pub[w].manual /\ pub[w].at = "failing"
  <2> USE <1>1 DEF IInv
  <2>1. row[i] \in QueueRow
    BY DEF PublicationTypeOK
  <2>2. ASSUME NEW j \in Item, NEW page \in Page, AddToQueue(j, page) \/ RunAiAutoPost(j, page)
        PROVE  row'[i] = row[i]
    BY <2>2 DEF AddToQueue, RunAiAutoPost, Insert, PublicationTypeOK
  <2>3. ASSUME NEW j \in Item, ApproveQueueItem(j) \/ RemoveFromQueue(j) \/ RetryQueueItem(j)
        PROVE  row'[i] = row[i]
    BY <2>3 DEF ApproveQueueItem, RemoveFromQueue, RetryQueueItem, Cancellable, Retryable, PublicationTypeOK
  <2>4. ASSUME NEW page \in Page, ClearQueue(page)
        PROVE  row'[i] = row[i]
    BY <2>4 DEF ClearQueue, Cancellable
  <2>5. ASSUME NEW page \in Page, DeletePage(page)
        PROVE  row'[i].status \in {"published", "deleted"}
    BY <2>1, <2>5 DEF DeletePage, QueueRow
  <2>6. ASSUME NEW w \in Publisher,
               \/ \E page \in Page : StartAutoPost(w, page)
               \/ Publish(w) \/ AddHistory(w) \/ Crash(w)
        PROVE  row'[i] = row[i]
    BY <2>6 DEF StartAutoPost, Publish, AddHistory, Crash
  <2>7. ASSUME NEW w \in Publisher, ClaimPending(w) \/ \E j \in Item : PublishQueueItem(w, j)
        PROVE  row'[i] = row[i]
    BY <2>7 DEF ClaimPending, PublishQueueItem, Pickable, Claimable, PublicationTypeOK
  <2>8. ASSUME NEW w \in Publisher, RecordPublished(w)
        PROVE  row'[i].status \in {"published", "deleted"}
    <3>1. \/ row'[i] = row[i]
          \/ row'[i] = Overwritten(row[i], "published")
      BY <2>8 DEF RecordPublished, PublicationTypeOK
    <3> QED
      BY <2>1, <3>1 DEF Overwritten, QueueRow
  <2>9. ASSUME NEW w \in Publisher, Catch(w)
        PROVE  \/ row'[i] = row[i]
               \/ \E v \in Publisher : Holds(v, i) /\ pub[v].manual /\ pub[v].at = "failing"
    <3>1. CASE pub[w].manual /\ pub[w].item = i
      BY <2>9, <3>1 DEF Catch, Holds
    <3>2. CASE ~(pub[w].manual /\ pub[w].item = i)
      BY <2>9, <3>2 DEF Catch, Fails, PublicationTypeOK
    <3> QED
      BY <3>1, <3>2
  <2> QED
    BY <2>2, <2>3, <2>4, <2>5, <2>6, <2>7, <2>8, <2>9 DEF PublicationNext, PublisherStep
<1>2. IInv /\ [PublicationNext]_publicationVars =>
         [\A i \in Item :
            row[i].status = "published" =>
               \/ row'[i].status \in {"published", "deleted"}
               \/ \E w \in Publisher : Holds(w, i) /\ pub[w].manual /\ pub[w].at = "failing"
         ]_publicationVars
  BY <1>1
<1> QED
  BY <1>2, Invariance, PTL DEF PublicationSpec, PublishedIsKept
=============================================================================
