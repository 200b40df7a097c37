-------------------------- MODULE PublicationQueue --------------------------
(***************************************************************************)
(* Zeto's publication queue: the rows of publication_queue                 *)
(* (operationalStore.js), the scheduler that drains it (scheduler.js), the *)
(* handlers that edit it and publish by hand (fbController.js), and the    *)
(* AI poster that feeds it (aiAutoPoster.js).                              *)
(*                                                                         *)
(* A publisher awaits the provider between its claim and the write of the  *)
(* result: the answer may be lost, the write may fail, the process may die. *)
(*                                                                         *)
(* Left out: available_at (a row that waits may be due at any time), the   *)
(* order in which due rows are picked, and what a job reads before it      *)
(* claims (kill switch, token age, credentials): a job it stops has done   *)
(* nothing.                                                                *)
(***************************************************************************)
EXTENDS Naturals, FiniteSets

CONSTANTS
    Item,         \* ids of queue rows
    Page,         \* pages, DefaultPage among them
    DefaultPage,  \* the page of a row without one, and of the credentials in app_settings
    Publisher,    \* scheduler jobs and publishing requests in service at the same time
    NoItem,
    MaxAttempts,  \* max_attempts of a row
    RetryBound    \* bound: manual retries of a row

ASSUME PublicationAssumption ==
    /\ DefaultPage \in Page
    /\ NoItem \notin Item
    /\ MaxAttempts \in Nat \ {0}
    /\ RetryBound \in Nat

VARIABLES
    row,   \* row[i]: the row of item i
    post,  \* post[i]: what the provider accepted of item i
    pub,   \* pub[w]: what publisher w is doing
    gone   \* pages that were deleted

publicationVars == <<row, post, pub, gone>>

\* "none": not inserted yet; "deleted": removed together with its page.
RowStatus == {"none", "deleted", "pending_review", "pending", "publishing",
              "published", "retry_wait", "failed", "error", "cancelled"}

QueueRow == [status : RowStatus, attempt : Nat, page : Page,
             retries : 0..RetryBound,          \* manual retries so far
             review : {"none", "due", "done"}]  \* whether it entered by pending_review

Posts == [count : Nat, pages : SUBSET Page]

Stage == {"idle", "started", "claimed", "posted", "recorded", "failing", "dead"}

PublisherState == [at : Stage, item : Item \union {NoItem}, page : Page, manual : BOOLEAN]

Resting == [at |-> "idle", item |-> NoItem, page |-> DefaultPage, manual |-> FALSE]

PublicationInit ==
    /\ row = [i \in Item |-> [status |-> "none", attempt |-> 0, page |-> DefaultPage,
                              retries |-> 0, review |-> "none"]]
    /\ post = [i \in Item |-> [count |-> 0, pages |-> {}]]
    /\ pub = [w \in Publisher |-> Resting]
    /\ gone = {}

-----------------------------------------------------------------------------
(* The rows: one UPDATE each *)

Claimable == {"pending", "retry_wait"}
Cancellable == {"pending_review", "pending", "retry_wait"}

\* An error: everything that has not been published may be tried again.
RetryableAny == RowStatus \ {"none", "deleted", "published", "publishing"}
Retryable == {"failed", "error", "retry_wait"}

\* What names no page concerns the rows of every page.
Concerns(page, i) == page = DefaultPage \/ row[i].page = page

Added(page, status) ==
    [status |-> status, attempt |-> 0, page |-> page, retries |-> 0,
     review |-> IF status = "pending_review" THEN "due" ELSE "none"]

\* claimPending, claimById
Taken(r) == [r EXCEPT !.status = "publishing", !.attempt = r.attempt + 1]

\* An error: only the last failure is written.
FailedQuietly(r) == IF r.attempt < MaxAttempts THEN r ELSE [r EXCEPT !.status = "failed"]

\* queue.fail
Failed(r) == [r EXCEPT !.status = IF r.attempt < MaxAttempts THEN "retry_wait" ELSE "failed"]

\* updateStatus: whatever the row says, if there still is one.
Overwritten(r, status) == IF r.status = "deleted" THEN r ELSE [r EXCEPT !.status = status]

-----------------------------------------------------------------------------
(* The handlers that edit the queue *)

Insert(i, page, status) ==
    /\ row[i].status = "none"
    /\ page \notin gone
    /\ row' = [row EXCEPT ![i] = Added(page, status)]
    /\ UNCHANGED <<post, pub, gone>>

\* The dashboard names no status, and the row is pending; the status that another
\* client names is inserted as it is, whatever the table admits.
AddToQueue(i, page) ==
    \E status \in RowStatus \ {"none", "deleted"} : Insert(i, page, status)

\* Generated content is queued, for review unless the autopilot gate lets it pass.
RunAiAutoPost(i, page) ==
    \E allowed \in BOOLEAN : Insert(i, page, IF allowed THEN "pending" ELSE "pending_review")

ApproveQueueItem(i) ==
    /\ row[i].status = "pending_review"
    /\ row' = [row EXCEPT ![i].status = "pending", ![i].review = "done"]
    /\ UNCHANGED <<post, pub, gone>>

RemoveFromQueue(i) ==
    /\ row[i].status \in Cancellable
    /\ row' = [row EXCEPT ![i].status = "cancelled"]
    /\ UNCHANGED <<post, pub, gone>>

RetryQueueItem(i) ==
    /\ row[i].status \in Retryable
    /\ row[i].retries < RetryBound
    /\ row' = [row EXCEPT ![i].status = "pending", ![i].retries = row[i].retries + 1]
    /\ UNCHANGED <<post, pub, gone>>

ClearQueue(page) ==
    /\ row' = [i \in Item |-> IF row[i].status \in Cancellable /\ Concerns(page, i)
                              THEN [row[i] EXCEPT !.status = "cancelled"] ELSE row[i]]
    /\ UNCHANGED <<post, pub, gone>>

\* ON DELETE CASCADE, whatever the rows' status.
DeletePage(page) ==
    /\ page \notin gone \union {DefaultPage}
    /\ gone' = gone \union {page}
    /\ row' = [i \in Item |-> IF row[i].status # "none" /\ row[i].page = page
                              THEN [row[i] EXCEPT !.status = "deleted"] ELSE row[i]]
    /\ UNCHANGED <<post, pub>>

-----------------------------------------------------------------------------
(* The publishers *)

Goto(w, at) == pub' = [pub EXCEPT ![w].at = at]

\* A job runs in the context of a page, or of none.
StartAutoPost(w, page) ==
    /\ pub[w] = Resting
    /\ page \notin gone
    /\ pub' = [pub EXCEPT ![w].at = "started", ![w].page = page]
    /\ UNCHANGED <<row, post, gone>>

\* An error: the row that was picked may have been taken in between.
PickableLate(w) == {i \in Item : row[i].status \in Claimable \union {"publishing"} /\ Concerns(pub[w].page, i)}
Pickable(w) == {i \in Item : row[i].status \in Claimable /\ Concerns(pub[w].page, i)}

\* claimPending, FOR UPDATE SKIP LOCKED; the job ends when nothing is due.
ClaimPending(w) ==
    /\ pub[w].at = "started"
    /\ \/ \E i \in Pickable(w) :
             /\ row' = [row EXCEPT ![i] = Taken(row[i])]
             /\ pub' = [pub EXCEPT ![w].at = "claimed", ![w].item = i]
       \/ pub' = [pub EXCEPT ![w] = Resting] /\ UNCHANGED row
    /\ UNCHANGED <<post, gone>>

\* The request publishes on the page of the row.
PublishQueueItem(w, i) ==
    /\ pub[w] = Resting
    /\ row[i].status \in Claimable
    /\ row' = [row EXCEPT ![i] = Taken(row[i])]
    /\ pub' = [pub EXCEPT ![w] = [at |-> "claimed", item |-> i, page |-> row[i].page,
                                  manual |-> TRUE]]
    /\ UNCHANGED <<post, gone>>

\* The credentials of a page that is gone are those of the settings.
Target(w) == IF pub[w].page \in gone THEN DefaultPage ELSE pub[w].page

\* The provider accepts the post and answers, accepts it and its answer is lost,
\* or does not accept it.
Publish(w) ==
    LET i == pub[w].item IN
    /\ pub[w].at = "claimed"
    /\ \/ /\ post' = [post EXCEPT ![i] = [count |-> post[i].count + 1,
                                          pages |-> post[i].pages \union {Target(w)}]]
          /\ Goto(w, "posted") \/ Goto(w, "failing")
       \/ Goto(w, "failing") /\ UNCHANGED post
    /\ UNCHANGED <<row, gone>>

\* The row is marked, or the write fails.
RecordPublished(w) ==
    LET i == pub[w].item IN
    /\ pub[w].at = "posted"
    /\ \/ row' = [row EXCEPT ![i] = Overwritten(row[i], "published")] /\ Goto(w, "recorded")
       \/ Goto(w, "failing") /\ UNCHANGED row
    /\ UNCHANGED <<post, gone>>

AddHistory(w) ==
    /\ pub[w].at = "recorded"
    /\ Goto(w, "failing") \/ pub' = [pub EXCEPT ![w] = Resting]
    /\ UNCHANGED <<row, post, gone>>

\* An error: the job's catch writes like the request's.
FailsHardAlways(w, i) == [row EXCEPT ![i] = Overwritten(row[i], "error")]

\* What the catch writes: a job fails a row that is being published, a request
\* writes error over whatever it finds.
Fails(w, i) ==
    IF pub[w].manual THEN [row EXCEPT ![i] = Overwritten(row[i], "error")]
    ELSE IF row[i].status = "publishing" THEN [row EXCEPT ![i] = Failed(row[i])]
    ELSE row

Catch(w) ==
    /\ pub[w].at = "failing"
    /\ row' = Fails(w, pub[w].item)
    /\ pub' = [pub EXCEPT ![w] = Resting]
    /\ UNCHANGED <<post, gone>>

\* The process stops, or the catch fails as well; nothing ever looks for the row
\* that was being published.
Crash(w) ==
    /\ pub[w].at \in {"claimed", "posted", "recorded", "failing"}
    /\ Goto(w, "dead")
    /\ UNCHANGED <<row, post, gone>>

PublisherStep(w) ==
    ClaimPending(w) \/ Publish(w) \/ RecordPublished(w) \/ AddHistory(w) \/ Catch(w)

PublicationNext ==
    \/ \E i \in Item :
          \/ \E page \in Page : AddToQueue(i, page) \/ RunAiAutoPost(i, page)
          \/ ApproveQueueItem(i) \/ RemoveFromQueue(i) \/ RetryQueueItem(i)
    \/ \E page \in Page : ClearQueue(page) \/ DeletePage(page)
    \/ \E w \in Publisher :
          \/ \E page \in Page : StartAutoPost(w, page)
          \/ \E i \in Item : PublishQueueItem(w, i)
          \/ PublisherStep(w) \/ Crash(w)

\* The event loop runs a publisher on: every await of it has a time-out.
PublicationFairness == \A w \in Publisher : WF_publicationVars(PublisherStep(w))

PublicationSpec == PublicationInit /\ [][PublicationNext]_publicationVars

-----------------------------------------------------------------------------

PublicationTypeOK ==
    /\ row \in [Item -> QueueRow]
    /\ post \in [Item -> Posts]
    /\ pub \in [Publisher -> PublisherState]
    /\ gone \in SUBSET Page

Holds(w, i) == pub[w].item = i

\* Claimed, and not inserted as "publishing" by a client: such a row is nobody's.
Claimed(i) == row[i].status = "publishing" /\ row[i].attempt > 0

\* A row that was claimed and is being published has exactly one publisher, alive or
\* dead, who has not recorded it; nobody works on a row that was never claimed, and two
\* publishers never hold the same row (claimPending and claimById against each other,
\* retries and the catches of slow publishers).
PublishingIsOwned ==
    \A i \in Item :
        /\ Claimed(i) => \E w \in Publisher : Holds(w, i) /\ pub[w].at # "recorded"
        /\ row[i].attempt = 0 => ~ \E w \in Publisher : Holds(w, i)
        /\ \A v, w \in Publisher : Holds(v, i) /\ Holds(w, i) => v = w

\* What is posted is what was queued. However often it is retried, cleared or
\* published by hand, an item queued for review is posted only after an approval
\* (approve, runAiAutoPost); and it is posted on its own page or with the credentials
\* of the settings, never on a third page (getAccessToken and getPageId, deleted
\* pages, jobs without a page).
PostedAsQueued ==
    \A i \in Item :
        /\ post[i].count > 0 => row[i].review # "due"
        /\ post[i].pages \subseteq {row[i].page, DefaultPage}

\* Every post was paid for by an attempt: no interleaving of jobs, requests and
\* lost answers posts an item more than max_attempts times without a manual retry.
PostsAreBudgeted ==
    \A i \in Item : /\ post[i].count <= row[i].attempt
                    /\ row[i].attempt <= MaxAttempts + row[i].retries

\* A post is as it was queued and paid for: both of these at once.
PostsAreInOrder == PostedAsQueued /\ PostsAreBudgeted

\* A published row stays so, unless the request that published it by hand then
\* fails to write the history and takes it back (publishQueueItem's catch).
PublishedIsKept ==
    [][\A i \in Item :
         row[i].status = "published" =>
            \/ row'[i].status \in {"published", "deleted"}
            \/ \E w \in Publisher : Holds(w, i) /\ pub[w].manual /\ pub[w].at = "failing"
      ]_publicationVars

\* A row that was claimed does not stay in publishing while its publisher lives.
PublishingEnds ==
    \A i \in Item :
        Claimed(i) ~> ~ Claimed(i) \/ \E w \in Publisher : Holds(w, i) /\ pub[w].at = "dead"
=============================================================================
