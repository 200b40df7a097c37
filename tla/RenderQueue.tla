----------------------------- MODULE RenderQueue -----------------------------
(***************************************************************************)
(* The render queue of zsp-aitool: the rows of HyperFrameRenderJob, the    *)
(* workers that claim and render them (scripts/hyperframes), the handlers  *)
(* that create, cancel, retry and recover them (src/app/api/hyperframes)   *)
(* and the scripts that fail stale rows and rows without an artifact.      *)
(*                                                                         *)
(* Everything but the claim reads a row and then writes it by its id alone *)
(* (recover-stale-jobs looks at the status once more), with awaits between *)
(* the two. The limits a creation or a retry is checked against, and the   *)
(* render itself, are refusals and failures that may come or not.          *)
(***************************************************************************)
EXTENDS Naturals, FiniteSets

CONSTANTS
    Render,             \* ids of the rows that may be created
    RenderWorker,       \* worker processes; one that dies is started again
    Editor,             \* handlers and scripts in service
    NoRender,
    MaxRunning,         \* config.maxRunningJobs
    RenderAttempts,     \* config.maxAttempts
    InterventionBound,  \* bound: cancels, retries, recoveries and repairs
    StopBound           \* bound: deaths of workers

ASSUME RenderAssumption ==
    /\ IsFiniteSet(Render)
    /\ IsFiniteSet(RenderWorker)
    /\ NoRender \notin Render
    /\ MaxRunning \in Nat \ {0}
    /\ RenderAttempts \in Nat \ {0}
    /\ InterventionBound \in Nat
    /\ StopBound \in Nat

VARIABLES
    render,         \* render[j]: the row of j
    renderer,       \* renderer[w]: where processOnePendingJob of w is
    editor,         \* editor[e]: what e read and is about to write
    overtaken,      \* history: rows written over while somebody may be rendering them
    interventions,
    stops

renderVars == <<render, renderer, editor, overtaken, interventions, stops>>

\* locked: lockedAt is set.  late: running for longer than runningStaleMinutes.
RenderRow == [status : {"none", "PENDING", "RUNNING", "COMPLETED", "FAILED", "CANCELLED"},
              attempts : Nat, locked : BOOLEAN, late : BOOLEAN]

RendererState == [at : {"idle", "counted", "found", "rendering"}, job : Render \union {NoRender}]
Unoccupied == [at |-> "idle", job |-> NoRender]

\* saw: the status that was read.
EditorState == [op : {"none", "retry", "cancel", "recover", "sweep", "repair"},
                job : Render \union {NoRender},
                saw : {"none", "PENDING", "RUNNING", "COMPLETED", "FAILED", "CANCELLED"}]
Answered == [op |-> "none", job |-> NoRender, saw |-> "none"]

RenderInit ==
    /\ render = [j \in Render |-> [status |-> "none", attempts |-> 0,
                                   locked |-> FALSE, late |-> FALSE]]
    /\ renderer = [w \in RenderWorker |-> Unoccupied]
    /\ editor = [e \in Editor |-> Answered]
    /\ overtaken = {}
    /\ interventions = 0
    /\ stops = 0

Running == {j \in Render : render[j].status = "RUNNING"}
Renders(w, j) == renderer[w].at = "rendering" /\ renderer[w].job = j

\* The row after a write of its status.
Rewritten(row, status, locked) ==
    [status |-> status, attempts |-> row.attempts, locked |-> locked, late |-> FALSE]

-----------------------------------------------------------------------------
\* The routes and the smoke script that create a row.
CreateRender(j) ==
    /\ render[j].status = "none"
    /\ render' = [render EXCEPT ![j] = Rewritten(render[j], "PENDING", FALSE)]
    /\ UNCHANGED <<renderer, editor, overtaken, interventions, stops>>

\* A defect: the limit is off by one.
MayStartOneMore == Cardinality(Running) <= MaxRunning

MayStart == Cardinality(Running) < MaxRunning

\* claim: the running jobs are counted, ...
CountRunning(w) ==
    /\ renderer[w].at = "idle"
    /\ MayStart
    /\ renderer' = [renderer EXCEPT ![w].at = "counted"]
    /\ UNCHANGED <<render, editor, overtaken, interventions, stops>>

\* ... a pending job with attempts left is looked for, locked or not (the oldest;
\* here, any), ...
FindRender(w, j) ==
    /\ renderer[w].at = "counted"
    /\ render[j].status = "PENDING"
    /\ render[j].attempts < RenderAttempts
    /\ renderer' = [renderer EXCEPT ![w] = [at |-> "found", job |-> j]]
    /\ UNCHANGED <<render, editor, overtaken, interventions, stops>>

FindNothing(w) ==
    /\ renderer[w].at = "counted"
    /\ ~ \E j \in Render : render[j].status = "PENDING" /\ render[j].attempts < RenderAttempts
    /\ renderer' = [renderer EXCEPT ![w] = Unoccupied]
    /\ UNCHANGED <<render, editor, overtaken, interventions, stops>>

\* A defect: the row is updated by its id alone.
UntakenOrNot(j) == TRUE

Untaken(j) == render[j].status = "PENDING" /\ ~render[j].locked

\* ... and taken, if it is still pending and unlocked.
TakeRender(w) ==
    LET j == renderer[w].job IN
    /\ renderer[w].at = "found"
    /\ Untaken(j)
    /\ render' = [render EXCEPT ![j] =
          [status |-> "RUNNING", attempts |-> render[j].attempts + 1,
           locked |-> TRUE, late |-> FALSE]]
    /\ renderer' = [renderer EXCEPT ![w].at = "rendering"]
    /\ overtaken' = IF \E v \in RenderWorker : Renders(v, j) THEN overtaken ELSE overtaken \ {j}
    /\ UNCHANGED <<editor, interventions, stops>>

MissRender(w) ==
    /\ renderer[w].at = "found"
    /\ ~Untaken(renderer[w].job)
    /\ renderer' = [renderer EXCEPT ![w] = Unoccupied]
    /\ UNCHANGED <<render, editor, overtaken, interventions, stops>>

\* The render ends, well or not, and the row is written whatever it has become.
EndRender(w) ==
    LET j == renderer[w].job IN
    /\ renderer[w].at = "rendering"
    /\ \E status \in {"COMPLETED", "FAILED"} :
          render' = [render EXCEPT ![j] = Rewritten(render[j], status, FALSE)]
    /\ renderer' = [renderer EXCEPT ![w] = Unoccupied]
    /\ UNCHANGED <<editor, overtaken, interventions, stops>>

\* The worker dies, or a call of claim or the write of a failure fails and the
\* process exits.
StopWorker(w) ==
    /\ stops < StopBound
    /\ renderer[w].at # "idle"
    /\ renderer' = [renderer EXCEPT ![w] = Unoccupied]
    /\ stops' = stops + 1
    /\ UNCHANGED <<render, editor, overtaken, interventions>>

RunsLate(j) ==
    /\ render[j].status = "RUNNING" /\ ~render[j].late
    /\ render' = [render EXCEPT ![j].late = TRUE]
    /\ UNCHANGED <<renderer, editor, overtaken, interventions, stops>>

-----------------------------------------------------------------------------
\* What the handler or script op requires of the row it reads: the retry route, the
\* two cancel routes, the recover-stale route, recover-stale-jobs, and the inventory
\* on an artifact that is missing.
Accepts(op, row) ==
    \/ op = "retry" /\ row.status \in {"FAILED", "CANCELLED"} /\ row.attempts < RenderAttempts
    \/ op = "cancel" /\ row.status = "PENDING"
    \/ op \in {"recover", "sweep"} /\ row.status = "RUNNING" /\ row.late
    \/ op = "repair" /\ row.status = "COMPLETED"

ReadRow(e, op, j) ==
    /\ editor[e].op = "none"
    /\ interventions < InterventionBound
    /\ Accepts(op, render[j])
    /\ editor' = [editor EXCEPT ![e] = [op |-> op, job |-> j, saw |-> render[j].status]]
    /\ interventions' = interventions + 1
    /\ UNCHANGED <<render, renderer, overtaken, stops>>

\* What it then writes: a cancel and a repair leave the lock as it is.
Edited(op, row) ==
    CASE op \in {"retry", "recover"} -> Rewritten(row, "PENDING", FALSE)
      [] op = "cancel" -> Rewritten(row, "CANCELLED", row.locked)
      [] op = "sweep" -> IF row.status = "RUNNING" THEN Rewritten(row, "FAILED", FALSE) ELSE row
      [] op = "repair" -> Rewritten(row, "FAILED", row.locked)

WriteRow(e) ==
    LET j == editor[e].job
        op == editor[e].op IN
    /\ op # "none"
    /\ render' = [render EXCEPT ![j] = Edited(op, render[j])]
    /\ overtaken' = IF op \in {"recover", "sweep"} \/ render[j].status # editor[e].saw
                    THEN overtaken \union {j} ELSE overtaken
    /\ editor' = [editor EXCEPT ![e] = Answered]
    /\ UNCHANGED <<renderer, interventions, stops>>

\* The request is refused after its read (queue, plan or attempt limits), or lost.
RefuseRow(e) ==
    /\ editor[e].op # "none"
    /\ editor' = [editor EXCEPT ![e] = Answered]
    /\ UNCHANGED <<render, renderer, overtaken, interventions, stops>>

RenderNext ==
    \/ \E j \in Render : CreateRender(j) \/ RunsLate(j)
    \/ \E w \in RenderWorker :
          \/ CountRunning(w) \/ FindNothing(w) \/ TakeRender(w) \/ MissRender(w)
          \/ EndRender(w) \/ StopWorker(w)
          \/ \E j \in Render : FindRender(w, j)
    \/ \E e \in Editor :
          \/ \E j \in Render, op \in {"retry", "cancel", "recover", "sweep", "repair"} :
                ReadRow(e, op, j)
          \/ WriteRow(e) \/ RefuseRow(e)

RenderSpec == RenderInit /\ [][RenderNext]_renderVars

-----------------------------------------------------------------------------

RenderTypeOK ==
    /\ render \in [Render -> RenderRow]
    /\ renderer \in [RenderWorker -> RendererState]
    /\ editor \in [Editor -> EditorState]
    /\ overtaken \in SUBSET Render
    /\ interventions \in Nat
    /\ stops \in Nat

\* Two workers render one job only after a stale recovery, or after a cancel, a retry
\* or a repair that acted on an outdated read (the conditional UPDATE of claim). And
\* no pending row is locked: claim looks for a row without regard to its lock but
\* takes only an unlocked one, so that one such row would block the queue for all.
RenderingIsOwned ==
    \A j \in Render :
        /\ render[j].status = "PENDING" => ~render[j].locked
        /\ \A w \in RenderWorker : j \notin overtaken /\ Renders(w, j) =>
              /\ render[j].status = "RUNNING" /\ render[j].locked
              /\ \A v \in RenderWorker : Renders(v, j) => v = w

\* The limit on running jobs is read before the claim and enforced by nothing else:
\* whatever dies, is recovered or retried, it is exceeded by at most one job for each
\* further worker, and with the one worker of the service unit not at all (claim).
RunningIsCapped == Cardinality(Running) < MaxRunning + Cardinality(RenderWorker)
=============================================================================
