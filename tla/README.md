# zWorkforce: verification notes

TLA+ models of the parts of this repository in which several processes share
state, the TLC runs that check them on small instances, and TLAPS proofs that
hold for instances of any size. `PROJECT.json` maps every definition to the
lines it models, and lists the runs, the hazards and the theorems.

## 1. The system

Five code bases of the repository have state of their own.

**zworkforce** (Python) is the control plane. Worker threads, API handlers,
a scheduler and an outbox dispatcher run in any number of processes and meet
only in the database (SQLite or PostgreSQL).

| component | state it keeps | operations | who shares it | what must hold |
|---|---|---|---|---|
| Task queue (`db_tasks.py`, `db.py`) | `tasks2`, `approvals2` | create, claim, heartbeat, release, sweep of expired leases, decision, unconditional `update_task` | workers, handlers | one execution per claim, attempt budget, approval quorum, no task stranded |
| Engine (`engine.py`) | locals of an execution, a heartbeat thread | `_execute_claimed` (turns, tools, delegation), submit, approve, reject, cancel, retry | as above | every execution ends, failures are retried or recorded |
| Browser effect ledger (`db_browser_effects.py`) | `browser_effects3` | begin, claim, finish, reconcile | zider calls over HTTP, administrators | a mutation is performed at most once and only as approved |
| Scheduler (`scheduler.py`), leases (`db_automation.py`) | `service_leases3`, `schedules3`, `events3` | acquire, release, tick | replicas | one leader dispatches; a slot or an event is dispatched once |
| Workflow (`workflow.py`) | `workflow_runs3`, `workflow_steps3` | start, tick | scheduler, handlers | dependencies before dependents, a verdict is final |
| Outbox (`outbox.py`) | `outbox3` | enqueue, claim, deliver, finish | dispatchers | delivered at least once, not by two dispatchers at a time |
| Conversations (`db_workspace.py`, `workspace_api.py`) | `workspace_projects5`, `workspace_conversations5`, `workspace_messages5` | create, rename, pin, archive, move, delete, append | handlers | messages numbered without gaps, none lost, holds respected |
| Audit chain (`db_governance.py`) | `audit_events2` | audit, verify | handlers, workers, ticks | every event links to the one before it |
| Providers (`providers.py`, `db_governance.py`) | `provider_health2` | chat, with the circuit of each provider | workers | a provider that is down is passed over |
| Budgets (`db_finops.py`) | `budgets2`, `usage_events2` | set, check, record | workers, handlers | a budget is overspent by little, whoever checks it together |
| Worktrees, policy | their tables | read-modify-write calls | handlers, workers | a worktree is ready or gone |

**zeto**, **zarvis** and **zsp-aitool** (JavaScript and TypeScript) are
asynchronous servers: a handler gives up control at every `await`, so that two
requests, or a request and a scheduler job, interleave there. zeto keeps its
state in PostgreSQL, zsp-aitool too (through Prisma), the zarvis gateways in
`jsonl` and JSON files.

| component | state it keeps | operations | who shares it | what must hold |
|---|---|---|---|---|
| Operator session (zeto: `operatorStateMachine.js`, `operatorRuntimeService.js`, `operatorRepository.js`) | `operator_sessions`, `operator_plans`, `operator_events` | transition, pause, resume, cancel, emergency stop, plan, approve, reject | requests and pipelines | a checkpoint can be resumed, stops revoke for good, decisions are on the record |
| Publication queue (zeto: `operationalStore.js`, `scheduler.js`, `fbController.js`, `aiAutoPoster.js`) | `publication_queue` | add, review, claim, publish, retry, clear, delete a page | scheduler jobs, requests, the AI poster | reviewed before posted, no more posts than attempts, one publisher per row |
| Factory runs (zeto: `workflowRepository.js`, `factoryWorkflow.js`, `factoryWorkflowService.js`) | `workflow_runs`, `workflow_steps`, assets | start, approve, cancel, claim, succeed, fail, block, requeue | the runners inside the requests | stages in order, publication only after approval, verdicts final |
| Task gateway (zarvis: `orchestrator-core.mjs`, `runtime.mjs`, `durable-adapters.mjs`) | `jobs.jsonl`, `queue.json` | submit, approve, pause, resume, cancel, retry, run | requests | nothing runs unasked, attempts are limited, an end is an end |
| Action gateway (zarvis: `zarvis-action-gateway`) | `local-state.json`, `action-events.jsonl` | preview, approve, execute, roll back, emergency stop, resume | requests, one after the other, and the worker | log and state tell the same, nothing is applied unapproved or after a stop |
| Render queue (zsp-aitool: `scripts/hyperframes`, `src/app/api/hyperframes`) | `HyperFrameRenderJob` | create, claim, complete, fail, cancel, retry, recover, sweep, repair | workers, handlers, scripts | one renderer per job, a bounded number of running jobs |
| AI content queue (zsp-aitool) | `AIContentJob` | claim, complete, cancel, retry | workers, handlers | one worker per job |

**zider** (Python, extension and web) drives a browser; every approved mutation
goes through the ledger above.

The hard behaviours: a worker that outlives its lease and writes anyway (no
write of `update_task` names the lease owner); handlers that read a status and
write in a second statement; PostgreSQL, where the code that SQLite serialises
with `BEGIN IMMEDIATE` runs under READ COMMITTED; workers that die; HTTP calls
that are lost or late; tasks cancelled at an `await`; in the JavaScript services,
a row that is read, awaited on and written by its id whatever it has become. `PROJECT.json` gives each
hazard its line and its properties.

## 2. What is modelled now

### TaskQueue

Variables: `task` (the rows, with their approvals; `round` and `touched` are
history), `worker` (the locals of a worker thread: where it is in
`_execute_claimed`, the attempt it was given, the attempt it last read, turns,
tool calls, children, whether its heartbeat thread lives, the rows of an
unfinished sweep), `client` (a handler between two statements), `crashes`.

One action is one statement, or one transaction where the code opens one:

| actions | code |
|---|---|
| `Claim` | `claim_next_task`; the PostgreSQL version (`db.py`) differs by SKIP LOCKED, so it need not take the most urgent row |
| `Sweep`, `Requeue` | the SELECT and each UPDATE of `requeue_expired_leases` |
| `Begin`, `ReadTurn`, `ProviderChat`, `ReadTool`, `PlainTool`, `MutatingTool`, `Delegate` | the loop of `_execute_claimed` |
| `Finish`, `WriteCanceled`, `ReadProviderError`, `Release`, `ReadError`, `Fail` | its ends, with the row read again before the write that depends on it |
| `Heartbeat`, `LeaseExpires`, `Crash`, `RetryDelayPasses` | `_heartbeat_loop`, time, death of a worker |
| `Submit` | `submit`, `create_task` |
| `Decide` (SQLite); `DecideRead`, `DecideInsert`, `DecideCommit` (PostgreSQL) | `approval_decision` |
| `CancelRead`, `CancelWrite`, `RetryRead`, `RetryWrite` | `Engine.cancel`, `Engine.retry` |

The answer of the provider, the effect of a tool and the verdict of the
evaluation are nondeterministic. Time is two facts per row: the lease is live
or expired, the row is due or not. The lease of a worker that beats expires only
for members of `SlowWorkers`; a dead worker's lease expires as time passes.

### BrowserEffect and EffectLedger

`BrowserEffect` is a call of zider's `DurableBrowserEffectExecutor.execute`
against the ledger: `effect` (the row of a key), `approval` (what the checks of
the ledger see of an approval task: pending, refused, valid, withdrawn), `call`
(the `await` at which a call waits), `requests` (in flight) and `browser` (what
the browser does for a call). `HandleBegin`, `HandleClaim` and `HandleFinish`
are the endpoints; their answer is delivered or lost in the same step, and a
request may be handled after its caller gave up. `Fault` and `Cancel` are the
`except` branches, `Act` is the browser, which may act after the call stopped
waiting. `Reconcile` is the administrator, `Approve` the approval task.
`EffectLedger` is the abstract promise: begun, claimed once, performed at most
once and only after the claim, one outcome, and only an unknown one revised.
The refinement maps `status` to that of the row (`effectStatus`) and `performers` to the calls for which
the browser acted.

### Workflow and DagRun

`Workflow` is `WorkflowOrchestrator.tick` with the tables it reads and writes:
`run`, `step` (status, and whether the task is linked), `task` (the task under
the idempotency key of a step, seen from outside: its status, the steps whose
results its prompt quotes, and as history whether it ever succeeded or failed)
and `tick` (where a tick is, the runs it has still to visit, its copy of the
steps, the steps left in the present loop).

| actions | code |
|---|---|
| `Active`, `Load`, `Check` | the three SELECTs of a tick |
| `Poll`, `Record` | `get_task`, and the write of its outcome |
| `Submit`, `Insert` | `engine.submit`; on PostgreSQL the key is looked up in one step and taken in the next, where a second insert fails on the constraint and the exception ends the tick |
| `Link` | the write of `submitted` and `task_id` |
| `Lose`, `Win` | `finish_workflow_run` |
| `Raise`, `Crash` | an exception of `submit`, for good (`Doomed`) or in passing; a death at any step |
| `Start`, `End`, `Overturn` | `create_workflow_run`; the task ends, or changes after it ended (a manual retry, a stale worker, a racing cancel) |

Any number of tickers run at once: the scheduler leader, its successor once the
lease is lost (a tick never looks at the lease again), the tick endpoint and the
command line. The lease therefore constrains nothing here.

`DagRun` is the abstract promise, over the histories of the tasks: a step starts
after its dependencies succeeded, a run succeeds when every step did, fails when
one did, and what was won or lost is never forgotten. A verdict may be written
again, by a ticker that decided on an older copy, but only an earned one.

### OperatorSession

One session of zeto's operator runtime: `session` (its row: state, the states
of its checkpoint, grants, kill switch, a deferred pause), `plan` (the rows of its plans),
`logged` (which decisions and endings the event log holds) and `call` (what each
request has still to do, and the update it has computed but not applied). The
table `Transitions` and the operators `Leads`, `Resolved`, `NextResume` and
`PausePolicy` are `operatorStateMachine.js`. `Receive` is the arrival of a request;
a request is a list of awaited calls, and each call is an action: `ReadSession`
(and the computation of the target from what it read), `ApplyTransition` (the
transaction of `applyTransition`, whose UPDATE names the row only), `DecidePause`,
`SetPendingPause`, `InsertPlan`, `CheckPlan`, `CheckAwaiting`, `AppendEvents`,
`UpdatePlanStatus`.

### PublicationQueue and FactoryRun

`PublicationQueue`: `row` (a row of `publication_queue`), `post` (history: what the
provider accepted), `pub` (where a publisher is) and `gone` (deleted pages). Each
UPDATE of `operationalStore.js` is one action, or part of the one that awaits it:
`AddToQueue`, `RunAiAutoPost`, `ApproveQueueItem`, `RemoveFromQueue`,
`RetryQueueItem`, `ClearQueue`, `DeletePage`. A publisher is a scheduler job
(`StartAutoPost`, `ClaimPending`) or a request that publishes by hand
(`PublishQueueItem`); both go on with `Publish` (the provider, whose answer may be
lost), `RecordPublished`, `AddHistory`, `Catch`; `Crash` is the death of its
process. `AddToQueue` inserts a row with any status that the table admits, as the
route takes it from the body and nothing looks at it; a row that is inserted as
`publishing` has no attempt and no publisher.

`FactoryRun`: `run`, `step` (the rows), `assets` (what is reviewed and published)
and `runner` (the loop of `factoryWorkflow.js` inside a request). `ClaimStage`,
`BlockStage`, `SucceedStage`, `FailStage`, `CancelRun` and `RequeueStuck` are the
transactions of `workflowRepository.js`, `HandleStage` the handler of a stage with
its effect, which may be followed by an error. The rows keep no owner, because the
owner of the code is `factory-<pid>`, which does not tell runners apart. Of what the
stages hand on, the approval decision is kept, with where it comes from: `StartRun`
takes the body as the input of the first stage, with an `approvalDecision` if the
caller put one there (`starter`), `ApproveRun` writes that of a reviewer into the
blocked stage, `ClaimStage` hands on what the stage before put out, or on a later
attempt the stage's own input (`Artifact`).

### PlanTask and Outbox

`PlanTask`: `job` (the last snapshot of a job), `tickets` (the attempts queued),
`caller` (a request with the whole job it read and is about to save), `lapsed`
and `granted` (history: the owner asked for the approval). One action per awaited
save or queue operation; `stale` is a history that says that another request saved
in between.

`Outbox`: `parcel` (rows), `accepted` (history: what the destination took),
`dispatcher` (its batch and the parcel in hand). `ClaimParcels` is `claim_outbox`,
`PostParcel` the POST, `FinishParcel` and `FinishRaises` the guarded
`finish_outbox` and its failure, `ClaimOverruns` a claim that expires while its
owner works, `DispatcherDies` and `ClaimExpires` a death and what ends it.

### RenderQueue

`render` (rows), `renderer` (where `processOnePendingJob` of a worker is), `editor`
(the row a handler or a script has read and is about to write), `overtaken`
(history: rows that a recovery, or a write on an outdated read, changed while
somebody may still be rendering them). `CountRunning`, `FindRender` and `TakeRender`
are the three statements of `claim`; `EndRender` is the unconditional write of the
result; `ReadRow` and `WriteRow` are the retry, cancel and recover routes, the
sweep script and the inventory, which differ in `Accepts` and `Edited`.

### ActionGateway

`stateFile` and `status` (the state file, and what the log says of each action),
`temp` and `writer` (the one temporary file through which the state file is written,
and how far each `atomicWrite` has come with it, and which file its handle has become),
`preview` (the values an action goes from and to), `request` (the operation a
client waits for: the copy of the state file it read, the events it has still to
append), `listed` (what a worker has left of its round), `jammed` (`writeChain` is
rejected) and `torn` (half a line in the log); `written`, `parted`, `halted` and
`disturbed` are histories: what an action last did to the state file, the actions
whose event an accident took or whose write was disturbed, those that a completed stop
found open, and the operations that a stray write of the defaults has come across.

The initialisation is not a step before all others. `initialize` runs at the
beginning of every read, and the reads of the first requests of a fresh directory each
find no state file, and each write the defaults, beside `mutate` and `writeChain`. A
`Visitor` is such a read. Of the temporary file the model says what the file system
does: to open it empties it for whoever else has it open; a rename takes it away, so
that a second rename fails and a handle that was open goes on writing into the state
file; a short text written over a longer one leaves the end of that, which is no JSON.

| actions | code |
|---|---|
| `PreviewAction`, `ApproveAction`, `RollBackAction`, `SwitchActions`, `ExecuteAction` | the start of a request, up to its first write, when those before it have ended (`createSerialExecutor`) |
| `ListApproved` | the list for the worker, which waits for nobody |
| `CompareState` | `readState` and the comparison with the preview |
| `WriteTemp`; `SetPreference`, `SwitchState` | `writeState`: the open and the write of the temporary file; the rename, with which it is done |
| `MissTemp` | a rename that finds no temporary file, which rejects `writeChain` |
| `FindNoFile`, `WriteDefault` | `initialize` in a read: the read that ends in ENOENT; open, write and rename of `DEFAULT_STATE` |
| `FindOpen`, `LogEvent` | the read of the log in an emergency stop; `appendEvent` |
| `WriteFails`, `MeetJam`, `ServerDies` | a failing write, the writes after it, a death between any two steps |
| `WindowEnds` | the approval window of the oldest preview ends |

### Scheduler

`Scheduler` is the rest of the scheduler's tick: `schedule`, `rule`, `event` (the rows),
`lease` (the row `scheduler` of `service_leases3`, and whether it has expired),
`ticker` (the locals of a tick: its copies of the due rows and of the rules, the
dispatch in hand, and where it is), `dispatched` (what was created under a key, in
each of the two tables that keep one), `clock` (of which a slot is a time); `owed` is
a history: the rules that have selected an event ever since it was emitted.

| actions | code |
|---|---|
| `EditSchedule`, `EditRule`, `EmitEvent` | `upsert_schedule`, `upsert_event_rule`, `emit_event` |
| `TakeLead`, `Leave`, `LeaseLapses` | `acquire_service_lease`, `release_service_lease` on the way out of `loop`, `expires_at` |
| `ReadSchedules`, `ReadEvents`, `NextEvent` | `due_schedules`, `pending_events`, and `list_event_rules` with the filter |
| `Dispatch`, `InsertOrder` | `_dispatch`: a refusal, the key found, or a creation; on PostgreSQL the key is looked up in one step and taken in the next, where a second workflow run is found and a second task is an error |
| `MarkSchedule`, `FinishEvent`, `EndTick` | `mark_schedule_run` and `finish_event`, which name the row by its id only; `workflows.tick`, which may raise |
| `StatementRaises`, `TickerDies`, `TimePasses` | the `except` branches of `tick`, a death at any step, time |

The lease is compared at `TakeLead` and nowhere else: ticks of a leader whose lease
lapsed, of its successor, of `POST /scheduler-tick` and of `scheduler --once` overlap
at every step. Processes of one host take the lease under one name (`LeaseName`).

### ChatTurn

What `ProviderChat` of `TaskQueue` stands for, for any number of executions: `spent` and `limit`
(what a budget has used up in its period, and its row), `ceiling` (history: the highest
limit it has had), `health` (rows of `provider_health2`: consecutive failures, up to the
threshold, and whether `open_until` lies ahead) and `turn` (where an execution is, the
budgets it has still to check with the limits it read, the provider it has come to, the
count it is about to store).

| actions | code |
|---|---|
| `BeginTurn`, `PassBudget`, `MeetLimit` | `budget_violation`: the limits in one SELECT, each sum in one of its own; an exhausted budget fails the task |
| `Pick`, `Respond`, `GiveUp` | the loop of `ProviderPool.chat`: a provider whose circuit is open is passed over, the next one is asked after a failure |
| `RecordSuccess` | one statement that resets count and circuit |
| `CountFailures`, `RecordFailure` | the two statements of `record_provider_failure` |
| `RecordUsage` | `record_usage`, after which the next turn may begin |
| `SetBudget`, `NewPeriod`, `CircuitCloses`, `TurnDies` | an administrator, midnight, `open_until`, a death or an error |

### What is checked together

`MCAutomation` puts `Scheduler`, `Workflow` and `ChatTurn` side by side. The two parts of
a tick share no row, apart from the creation of a run, which `Workflow` has as `Start`; a
turn shares none with either. `ChatTurn` is seen twice, once with providers that fail and
nothing spent, once with budgets and providers that answer, as health and money meet only
in that a turn which nobody answers spends nothing. The fairness of each is stated while
its part is on.

`MCHandlers` puts the operator session, the render queue, a job of the task gateway,
a conversation and the decisions on a task side by side. The last is `TaskQueue` on
SQLite once more (`Queue`), for one task that needs two approvals of three actors, with
cancels and retries: a quorum may be half complete, or complete and late, or overtaken by a
rejection. `MCServices` puts the six services side by side; of the action gateway it
sees a state file that was kept, and a fresh directory.

### Conversation, Transcript and AuditChain

`Conversation`: `chat` (rows of conversations: status, project, compliance hold),
`folder` (the status of a project), `message` (rows, with their ordinal and what they
reply to) and `poster` (the request a handler serves, with the row it read and is about
to write). An append is one transaction, modelled as it runs on PostgreSQL; what SQLite
allows is among it, as the transaction then excludes the others.

| actions | code |
|---|---|
| `CreateChat`, `InsertChat` | `create_workspace_conversation`: the look at the project, the INSERT |
| `ReadChat`, `ReadForMove`, `CheckFolder`, `WriteChat` | `update_workspace_conversation`: the SELECT, the project it moves to, the UPDATE of every column |
| `ReadForDelete`, `DeleteChat` | `delete_workspace_conversation`: the SELECT with the policy, the DELETE, which cascades |
| `ReadFolder`, `WriteFolder` | `update_workspace_project` |
| `BeginAppend`, `ReadStatus`, `Refuse`, `LockChat`, `ChatIsGone`, `CountMessages`, `InsertMessage` | the statements of `append_workspace_message`; from `LockChat` to `InsertMessage`, which commits, the row of the conversation is locked (`Locked`), so that `WriteChat`, `DeleteChat` and the `LockChat` of others wait |
| `PosterDies` | a death, or a lost connection: the transaction is rolled back |

`Transcript` is the abstract promise: a conversation is a list that grows at its end, a
reply names a message before it, a hold keeps it from being deleted, it is deleted as a
whole, and a message that is gone does not come back. The refinement reads off the rows
what a client is shown: `phase` (absent, open, held, deleted), `log` (the messages of a
conversation listed by their ordinals, which is a sequence only if they have no gap and
no ordinal is given twice) and `used`. Only three statements of the code are steps of it:
`InsertChat`, `InsertMessage` and `DeleteChat`; all others must stutter.

`AuditChain`: `backend` (which never changes), `events` (committed rows, whose hash is
told apart by their id), `lastId` (the sequence) and `auditor` (an open transaction).
`Audit` is the transaction on SQLite; `ReadHead`, `InsertEvent`, `CommitEvent` are its
statements on PostgreSQL, and `AuditLost` its rollback.

### Runs

| run | instance | what it shows |
|---|---|---|
| `task_queue` | 1 gated task, budget 2, 2 slow workers, 2 handlers, 2 actors, PostgreSQL, 1 manual retry | `ApprovalGate`, `ClaimsHold` (running rows are leased, claims of one task are told apart), `AttemptsAreCounted` (no attempt beyond the budget, none taken back), `EndsAtRestStay` (the end of a task nobody is busy with is only overridden by a retry) under every interleaving (about 1.6 million states) |
| `task_queue_fair` | a gated parent and an open child, 2 workers of which 1 is slow, 1 crash, SQLite, no cancel | the liveness properties `TasksSettle`, `StaleTasksAreRecovered` (about 415,000 states) |
| `automation` | side by side: a schedule with a slot ahead, or an event with 2 rules ahead, a replica and a single tick, PostgreSQL, times 0 to 2, 1 edit or 1 mishap; 1 run of a join (step 3 needs 1 and 2 and quotes both), 2 tickers, PostgreSQL, 1 crash or passing exception, 1 overturned task; 2 executions with 2 providers, threshold 3, and with 2 shared budgets of 1 or 2, turns of at most 2, 1 death | dispatches: `OccurrencesAreSingle`, `NothingDueIsDropped`, and `DueIsReached`: what is due is got to; runs: `PromptsAreComplete`, the refinement `ImplementsDagRun`, and `RunsSettle`: the run gets its verdict; turns: `SpendIsBounded`, and `DownProviderIsLeftAlone`: the circuit of a provider that only fails opens again and again (about 362,000 states) |
| `workflow_stall` | 2 runs of one step, the step of the first is refused, 1 ticker | violated: the second run never advances (`RunsSettle`) |
| `handlers` | side by side: a session with 2 requests (one of a pipeline) and 1 plan; 3 render jobs, 2 workers, 1 handler, limit 1, 2 attempts, 1 intervention, 1 death; a plan task with 2 requests and 1 retry; 1 conversation, 1 project, 3 messages, 2 handlers; 1 task that needs 2 approvals, 3 actors, 2 handlers, SQLite, cancels, 1 retry, 1 worker, 1 crash | session: `CheckpointValid`, `StopRevokes`, `DecisionIsRecorded`, `EndsAreKept`; renders: `RenderingIsOwned`, `RunningIsCapped`; task gateway: `ExecutedAsGranted`, `EndedJobStays`; conversations: `TranscriptIsInOrder` and the refinement `ImplementsTranscript`; decisions: `DecisionsStand` (a rejected task stays out of the queue, and an approval that completes the quorum is never left waiting) (about 2.75 million states) |
| `services` | side by side: publication (1 item, 2 publishers, 2 pages, 2 attempts, 1 manual retry), factory (4 stages, 2 runners), outbox (2 parcels, 2 dispatchers), action gateway (1 owner request at a time, 1 worker, 2 values, 1 accident; 2 actions on a kept state file, 1 on a fresh directory with 2 reads that find none), browser effects (2 tries of one action, a rival action with the same key, 2 approvals), audit chain (2 auditors, 3 ids, either backend) | publication: `PublishingIsOwned`, `PostsAreInOrder` (posted as queued, and within its attempts), `PublishedIsKept`; factory: `RunMatchesStages`, `PublishedAsApproved`, `RunVerdictIsFinal`; outbox: `DeliveredWasAccepted`, `LiveClaimIsRespected`; publication and outbox: `EveryClaimEnds`; action gateway: `LogMatchesState`, `StateEditsAreOwned`, `ApprovalsSettle`; browser effects: `ActedAsApproved` and the refinement `ImplementsLedger`; audit chain: `ForksAreNarrow` (about 302,000 states) |
| `operator_stop_race` | the session of `handlers` | violated: a transition computed before an emergency stop reopens the stopped session (`TerminalIsFinal`) |
| `cancel_race` | 1 worker, 1 cancel | violated: a cancel writes over a stored result (`SucceededIsFinal`) |
| `cancel_recovery` | 1 worker, 1 cancel, 1 crash | violated: a cancelled task whose worker dies stays queued for ever (`StaleTasksAreRecovered`) |
| `reject_race` | 2 decisions, PostgreSQL | violated: an approval requeues a rejected task (`RejectedStaysOut`) |
| `browser_canceled_claim` | 2 tries of one action | violated: a cancelled claim closes the effect of the other try (`CanceledIsSafe`) |
| `audit_fork` | 2 auditors, PostgreSQL, 3 ids | violated: two audits link to one head, or commit in another order than their ids (`ChainVerifies`) |

The seven violations are described in `PROJECT.json` under `findings`, with the
sentences of the documentation and the comments they contradict.

Bounds. Two workers are what it takes for a stale one: one holds the row, one
lost it. Budget 2 separates a first, a last and an excess attempt; a manual
retry makes a second round, in which writes of the first may land. Two handlers
and two actors give each race of two decisions, and of a decision with a cancel
or a retry. Two approvals of three actors make a quorum that may be incomplete,
complete, or overtaken by a rejection after its first half. Three calls give a retry and a rival at once. Two tickers are a
leader and its successor; a join has parallel and dependent steps and a dependency
of which one half may be stale; one overturned task makes copies disagree. Two
requests of a session are a stop and whatever it races. One item and two
publishers are a job and a request on one row; the second page is the one a
publisher could post on by mistake. Four stages are one before the review, the
approval, and the publication, of which two may be retried (`StageAttempts`); three
claims exceed what any of them allows. Two parcels make a batch whose second half
expires while the first is delivered. Three render jobs are one more than the two
that may run with two workers and a limit of one; one intervention overtakes a renderer (two
were tried, with the same result). A schedule at slot 1
that moves on to 2 or 3 is what a stale mark sets back or pushes past a slot; an event with two rules is half dispatched
in between; a replica and a single tick are a leader and whoever overlaps it, and two of
one name would only add leaders. One edit or one mishap, not both, keeps the run short
(with one rule both were tried, with the same result). Two actions of the gateway
are one that is rolled back, stopped or refused and one behind it in the round of
the worker, or one that sets what the other expects to find; one accident leaves
its trace in the files and the rest of the run to meet it (two were tried, with the
same result). On a fresh directory two reads that find no state file, the second after
the first, are one that makes the file and one that comes late, and they share the
temporary file with each other and with the writes of the operations; one action shows what
is put back, and what cannot be written. An item may be inserted with any of the
statuses that the table admits. An owner and a worker are two clients, of whom one waits. Three messages of a
conversation are one to reply to and two that ask for the same ordinal; two handlers
are an append and whatever it races. Two auditors fork a chain of three events, and the
third event shows whether one who comes after the fork can widen it. Two executions are two that check one budget, or
fail at one provider, together, and a turn of 2 with limits of 1 and 2 exceeds either;
three failures to open a circuit leave room for one to be set back (three executions at one
provider were tried, with the same result). The services share no state, so
that a run checks them side by side: a behaviour is one of one of them while the
others rest. What holds for these
by TLC, and is a safety property proved below, holds for all. The runs check no type
invariant: that of each module is part of the invariant proved below for all instances.

Every cfg says `CHECK_DEADLOCK FALSE`: the queue stops when all tasks have ended
and nobody submits, the ledger when all approvals are refused or all calls done, the workflows when
no run is active, a single tick when it is over, a session when it has ended and nobody calls, the queues when
everything in them has ended and the bounded retries and interventions are spent.

Fairness (`TaskQueue!Fairness`): worker threads and handlers go on
(`worker_loop` polls for ever, a handler runs to its return), sweeps happen
(every idle poll begins with one), and time passes. Nothing is assumed of
people, of crashes (at most `MaxCrashes`, so that not every execution dies), or
of the heartbeat of a slow worker. `BrowserEffect` states safety only.
`Workflow!Fairness`: the scheduler loop ticks again and again, and an active task
ends (which is `TasksSettle` of `TaskQueue`). `SchedulerFairness`: a replica asks for the
lease at every poll and its ticks go on, and the lease of somebody who does not come
back lapses; nothing is assumed of single ticks, nor of a lease that a live replica
renews. `TurnFairness`: a turn that has begun goes on, as the clients of the providers have
time-outs; that one begins, and what a provider answers, is not assumed. `PublicationFairness`: a publisher
goes on, as every call it awaits has a time-out; jobs and requests need not start.
`OutboxFairness`: `OutboxDispatcher.loop` ticks again and again, and time passes.
`GatewayFairness`: the server goes on with the request it serves, time passes, the
worker asks again every second, and, as `mutate` is first come, first served, its
requests are not overtaken for ever (strong fairness of `ExecuteAction`, which the
requests of the owner disable again and again).
`Conversation` and `AuditChain` state safety only: a request comes or does not. So do
`OperatorSession`, `FactoryRun`, `PlanTask` and `RenderQueue`:
their requests may be given up, nothing drives a run or a job on, and a render has
no time-out.

## 3. Plan

1. `TaskQueue` - done.
2. `EffectLedger`, `BrowserEffect` - done.
3. `DagRun`, `Workflow` - done.
4. `OperatorSession` - done.
5. `PublicationQueue`, `FactoryRun`, `PlanTask`, `Outbox`, `RenderQueue`,
   `ActionGateway` - done.
6. `Scheduler`, with the lease it elects its leader by, `Conversation` with
   `Transcript`, `AuditChain`, `ChatTurn` - done.
7. `ContentQueue`, the AI content queue of zsp-aitool: claims whose
   `FOR UPDATE SKIP LOCKED` holds no lock once its statement has ended, and
   cancels, retries and completions that compare nothing.
8. `PolicyDecide`, against a declarative reference: a small module. `Worktree`, once
   something calls `WorkspaceWorktreeService`: only its tests do.

## 4. What is proved

All theorems hold for every value of the constants that the named assumption
of the module allows: any sets of tasks, workers, clients, actors, calls, keys,
requests, items, runners, any bounds, either backend. Finite are only the sets
whose members are counted: `Actors`, `Parcel`, `Render`, `RenderWorker`, `Execution` and
`Auditor`.

`TaskQueue_proofs`: `TypeCorrect`. The typing invariant carries `LocalsOK`: a
busy worker has a task, a handler under way has one, a sweep found real rows.

`TaskQueueSafety_proofs`: `Invariance` of `IInv`, the inductive invariant behind
five properties. None of these is inductive alone. A stale write is harmless for
a reason that lies in the past of its writer, and `IInv` states it: a row only
moves forward in (round, attempt), a worker's or a sweep's numbers never run
ahead of the row's, a row that was ever claimed had its quorum, and a handler in
the middle of a cancel, a retry or a decision read a row that allowed it, which
stays so. The proof takes one lemma per kind of write (what it does to a row of
any content), one per group of actions for rows, workers and handlers, and puts
them together. From it: `RunningRowsAreLeased`, `NobodyBypassesApproval`,
`ClaimsStayApart`, `AttemptsStayInBudget`, and the action property
`AttemptsNeverGoBack`; the run checks them in pairs, as `ClaimsAlwaysHold` and
`AttemptsAreAlwaysCounted` state them.

No write of the queue names the status it expects, so that no end of a task is final
(`cancel_race`, `reject_race`). `EndsStayAtRest` proves what is left of it, on either backend: who may
override an end had come to the task before it ended. Its proof has one lemma per actor.
A worker takes a task that is queued (`Claim`), or goes on with the one it works on; a
handler comes to an ended task only to retry it (`RetryRead`), since a cancel and a decision compare the status
when they read it; a sweep finds tasks that are running. With `IInv`, a worker that is
idle has none of them in hand (`RunnersAreBusy`).

`Ledgers_proofs`, for browser effects: `TypeCorrect`; `Invariance` (the browser is handed an
action only by the claim that moved its own row, and the row then never returns
to a claimable status); `ActsOnceAsApproved`; `LedgerIsImplemented`, the
refinement of `EffectLedger` step by step; and `CanceledOnlyByAnother`. The comment of the
executor that a cancelled claim is safe is wrong (`browser_canceled_claim`), but if the
effect of a call that acted is recorded as canceled, then by another call of the same
action under the same approval, which handed nothing to the browser. `CancelIInv` says why: only a call that gave
up before its claim was answered sends a request to cancel (`Withdrew`), and such a call
is never handed anything afterwards. For conversations: `ChatTypeCorrect`,
`ChatInvariance`, `OrderIsKept`, `NothingIsLost`, and the refinement
`TranscriptIsImplemented`. `ChatIInv` says what the lock on
the row gives: one append at most is past `LockChat`, the conversation is there until
it ends, and the ordinal it counted is still the next one; the parent an append looked
up before its transaction either stands in the conversation or is gone with it.
`ShownIInv` adds what the list needs: ordinals in a conversation are
1 to the number of its messages and each belongs to one message, so that the insert of a
message is an `Append` to the list. For the
audit chain two theorems. `ForksStayNarrow` holds on either backend: events keep their
ids, link back to one that is there, and at most as many link to one event as there are
auditors. This is not inductive: the branches that are committed say nothing of those
that are on the way. `ForkIInv` counts both, the events that link to a head and the
auditors whose open transaction has read it, and bounds the sum; an auditor reads only
the last event, to which nothing committed links, so that only the auditors add up.
`ChainOnSQLite`: from `backend = "sqlite"`, where an audit is one step, the chain verifies, as
the ids 1 to `lastId` are all committed and each event
links to the one before it. On PostgreSQL `audit_fork` refutes it. For providers
`FailuresAlwaysKept`: a count of failures in a row is set back only by a success, or by a
turn that had read an older count, and one that is on record with none older in flight
stays on record. For budgets
`SpendStaysBounded`, which is not inductive: what has been spent says nothing of the
executions that have passed the check and not yet paid. `SpendIInv` counts these
(`Flying`): as long as anything is spent or in flight, what is spent and a turn for each
in flight stay below the ceiling and a turn for each execution. A check that passes found
less than a limit spent, so that there is room for everybody (`TakesOff`); a payment
trades a turn in flight for what it cost (`RecordUsageKeeps`); every other step lets no
execution take off and lowers nothing but what is spent (`StaysCovered`).

`Workflow_proofs`: `TypeCorrect`; `Invariance`; `PromptsComplete`; and
`DagIsImplemented`, the refinement of `DagRun` step by step. Nothing a tick
holds need still be true when it is used: its copy may be stale in every row,
and its writes go through all the same. What `IInv` says is that each status it
holds is backed by the history of a task (a step it saw succeeded has a task that
succeeded at some time), and histories only grow. So stale writes keep the rows
backed, a step is only submitted on dependencies that did succeed, and a verdict
is only written where it was earned.

Two properties of the queue hold on SQLite only, where a decision is one
transaction, and are proved from `GatesInvariance` under `Backend = "sqlite"`:
`RejectionIsFinal` (a rejected task is canceled and stays so) and
`QuorumIsNeverMissed` (no complete quorum is left waiting), together
`DecisionsAlwaysStand` (what `handlers` checks for two approvals of three
actors). On PostgreSQL
`reject_race` refutes the first.

`OperatorSession_proofs`: `TypeCorrect`; `Invariance`; `CheckpointAlwaysValid`,
`StopAlwaysRevokes`, `DecisionAlwaysRecorded`, `LatchesAlwaysHold`,
`DrainedEndIsAlwaysFinal` and, of these two, `EndsAlwaysKept`. A request applies what it computed from a state that is
gone. `IInv` says, for each call a request has still to make, what that call may
rely on (an update carries a resume state that is valid for its target, a plan is
marked only after its decision was logged), and that each of these facts survives
every step of every other request.

`PublicationQueue_proofs`: `PublicationTypeCorrect`, `EveryPublishingIsOwned`,
`EveryPostWasQueued`, `EveryPostWasBudgeted` (together `EveryPostIsInOrder`),
`EveryPublishedIsKept`. The
invariant ties the place of a publisher to the row it holds: no two hold one row,
nobody holds one that was never claimed, whatever status it was inserted with, and a
publisher that has not posted holds an attempt that is not yet spent. What is owned is
therefore a row that was claimed (`Claimed`).

`FactoryRun_proofs`: `FactoryTypeCorrect`, `EveryStageInOrder`,
`EveryVerdictMatches` (together `RunAlwaysMatchesStages`), `EveryPublicationWasApproved`, `EveryVerdictIsFinal`. The
invariant adds to the properties that stages behind an unfinished one are untouched
and that a runner at work is at a stage that was claimed: all a runner may
rely on, since any runner may settle any running stage (`RunInv`). `Carried` follows the
approval decision through the stages: wherever a decision of the caller is found, in the
input or the output of a stage or in the hands of a runner, the request that started the
run had brought it. A publication therefore has one of three origins, the verdict of the
policy, a reviewer, or that request, and no fourth.

`JobServices_proofs`: for the task gateway `PlanTypeCorrect`,
`EveryExecutionWasGranted`, `EndsStay` (every job a request holds is as sound as
the stored one, so that a stale save cannot make it worse); for the outbox
`EveryDeliveryWasAccepted`, `LiveClaimsAreRespected`; for the render queue
`RenderTypeCorrect`, `RendersAreOwned` and `RunningStaysCapped`, whose invariant
counts the workers between their count and their claim with the running rows: the
sum stays below the limit plus the number of workers; for the action gateway
`GatewayTypeCorrect`, `GatewayInvariance`, `LogAlwaysMatchesState` and
`StateEditsAlwaysOwned`. `GatewayInv` says that one operation is in service at a
time, and therefore what it may still rely on: the action it applies is approved,
its event is one the log has room for, an action a stop found open is revoked, or about
to be by the stop that is in service, and, as long as no stray read of a fresh directory
has disturbed it, its copy of the state file is the state file, its action fits, and the
temporary file holds what it is to write (`WriterOK`). A disturbed operation may write
anything, and the log still calls nothing executed whose write was not completed: of
`LogMatchesState` that half needs no exception. `StateEditsAlwaysOwned` says of each
change of the state file who made it, or that a stray was about (`Strays`). Each action is a
step of the only operation (`GatewayStep`), a stray write keeps what the others rely on
but for what it disturbs (`WriteDefaultKeeps`), and
an accident ends the operation where it is (`AbortKeeps`, `EventKeeps`, `ServerDiesKeeps`).
For the scheduler `SchedulerTypeCorrect`, `EveryOccurrenceIsSingle` and
`NothingDueIsEverDropped`, for any number of ticks. A tick works on copies of rows that
may have changed since; `SchedulerInv` says what it still may rely on: the slots it
dispatches have come and its events were emitted, which time does not undo; a slot that
it takes for dispatched, and each rule owed to the event it is about to call processed,
has something under its key, which nothing takes back. `Unedited` adds that as long as
nobody edits, its copies ask for what the rows ask for, and so for one table.

`NothingIsLost`, `CanceledOnlyByAnother`, `FailuresAlwaysKept`, `ChainOnSQLite` and the
theorems about types state properties that no listed run checks; TLC tried each on the instance
of its module before it was proved.

Only model-checked: the liveness properties `TasksSettle`,
`StaleTasksAreRecovered`, `RunsSettle`, `EveryClaimEnds`, `ApprovalsSettle`,
`DueIsReached` and `DownProviderIsLeftAlone` (fairness and ENABLED are out of the prover's reach).
Induction over data and RECURSIVE operators are out of reach too; the modules have
none.

## 5. What the models show of the code

Behaviours of the code, beyond the findings, that the models contain. The properties
are stated so that they hold all the same; where a text of the repository says
otherwise, it is quoted. What the findings leave standing is stated, and proved, too: of ended tasks
(`cancel_race`, `reject_race`) `EndsAtRestStay`, of cancelled claims
(`browser_canceled_claim`) `CanceledByAnother`, of the audit chain (`audit_fork`)
`ForksAreNarrow`, of ended sessions (`operator_stop_race`) `EndsAreKept`.

- Scheduler: the keys of tasks and of workflow runs are kept in two tables, so that an
  occurrence that two overlapping ticks dispatch before and after an edit which exchanges
  an agent for a workflow is dispatched twice, as a task and as a run, although
  `docs/PROMETA-MASTER.md:51` wants recurring and reactive work dispatched "exactly once
  per occurrence"; the mark of a slow tick sets `next_run_at` of whatever the schedule has
  become, so that a slot may be passed over or come up again; on PostgreSQL the slower of
  two dispatches of one task fails its slot, or its event, although the task is there; an
  event one of whose rules fails is failed for good, with the rules before it dispatched.
- Providers and budgets: failures that overlap count as one; a failure that was counted
  below the threshold and is stored late closes a circuit that others have opened, and a
  success that was under way resets it; executions that check a budget together may each
  spend a turn beyond it, and a limit that is changed during a check is compared as it
  was read.
- Conversations: the handlers write every column of the row they read, so that a rename
  or a pin that raced an archive or a move takes it back; on PostgreSQL an append that
  read the status before an archive committed still stores its message, and a
  conversation may be created in, or moved to, a project that was archived meanwhile.
- Operator session: a deferred pause is lost when the session moves from THINKING
  to PLANNING; a plan is inserted before the transition that may be refused, and an
  approval is logged before one; a session that was degraded twice, or paused in
  DEGRADED, has nothing to recover to.
- Publication queue: the catch of a manual publication overwrites `published` with
  `error`, and a retry posts again; a job without a page takes the rows of other
  pages and posts them with the credentials of the settings; a row that was
  being published in a crash stays so, and so does one that a client inserts as
  `publishing` (`fbController.js:839` and `865` take the status from the body): nobody
  claims it, and neither the retry nor the clear of the queue concerns it.
- Factory runs: a request that starts a run may bring the approval with it, as its body
  is passed on (`api/v1.js:99`) and the approval stage reads `approvalDecision` from
  its input (`factoryWorkflow.js:98`), although `packages/zeto/SECURITY.md:18` wants
  "QA/policy approval" before autonomous publishing; the publication of a stage in flight happens although the run is
  cancelled; `requeueStuck` has no caller, and a stage in `retry_wait` is tried
  again only by a new request.
- Task gateway: two approvals queue two executions; the last save of `approvePlan`
  can put `approved` over `running` or `succeeded`; a crash after the dequeue, or
  that save, leaves an approved job that nothing queues again; a failing audit
  event turns `succeeded` into `failed`.
- Outbox: a claim that expires during a slow delivery, and a failing
  `finish_outbox` after a POST, deliver twice. Delivery is at least once.
- Render queue: with two workers the limit of one running job
  (`HYPERFRAMES_MAX_RUNNING_JOBS=1`, `docs/hyperframes-render-worker.md:167`) is exceeded; a
  recovery puts a job that has just ended back to PENDING, or re-queues one
  without attempts left, which then waits for ever; a cancel that races a claim
  leaves a cancelled row that is rendered and completed.
- Action gateway: a crash between the state file and its event leaves an applied
  action approved, which the worker may apply again once the preference has its
  old value back; an emergency stop that fails after its first write leaves actions
  approved, and a resume then lets them run, although its README (line 17) has
  the stop revoke every pending or approved action; after one failed write every later
  one fails until the process starts anew, and behind half a line no read of the
  log succeeds again; an approved action that is refused, because the state has
  changed, ends every round of the worker until it expires. On a fresh directory, where a
  read that found no state file is slow, its defaults may land on what an operation wrote
  in between: an emergency stop is cleared, although the README (line 17) has it block
  new previews; or the two writers share the temporary file, so that the rename of one
  fails, which rejects `writeChain` if that one was an operation, or the state file is
  left illegible, and every operation that reads it fails until somebody repairs it.

## 6. What is not modelled

- Task queue: usage and budgets (they are in `ChatTurn`), idempotency keys of submissions, the doom-loop
  rule itself (it may stop any run), exceptions of the database driver, and the
  loss of worker threads without a restart. A second attempt of a parent creates its
  children anew (`engine.py:310`, the one hazard that no property covers): to count them
  takes more tasks than a run can hold, and no text says how many there may be.
- Browser effects: audit rows, tenants, agents and workspaces (one each), a
  finish posted by somebody other than a caller, the life of the approval task
  inside `TaskQueue` (it is abstracted to four values).
- Workflows: definitions and their validation, the text of the results (which may
  differ between two copies if a task succeeds twice), the limit of 200 active
  runs a tick looks at, and the tenant filter of the tick endpoint. In the runs a
  step quotes only its dependencies; the code also accepts a prompt that quotes
  another step, and then a crash between `submit` and `update_workflow_step` can
  leave a key used for a prompt that the next tick renders differently. `Doomed`
  models that refusal and the theorems cover it; `RunsSettle` would not hold.
- Scheduler: the limit of 100 due rows and their order, cron and interval arithmetic (any
  time to come), filters and templates, tenants, the emission of events with a
  `dedupe_key` seen before (the same event), metrics.
- Conversations: titles, pins and retention policies other than the hold (no handler
  changes a policy), the creation of projects (they exist from the start), context
  snapshots, lists and searches; an id the client sends is taken as a fresh one, as one
  in use is refused by the primary key.
- Turns and budgets: `max_cost_credits` of an agent, the check when a task is submitted,
  a budget that is created when its scope has already spent (every one has a limit from
  the start), executions of other tiers and providers without a model for the tier, the
  choice of the tier, the credits of a chat whose turn dies before `record_usage`.
- Audit chain: the contents of events, tampering itself, other tenants (the chains
  share the sequence of ids only), a failing statement on SQLite.
- Operator session: sequences and their resumption, tool executions, the event
  stream and its delivery, attempt budgets (the caller may or may not be out of
  attempts).
- Publication queue: `available_at`, the order in which rows are picked, schedules
  and settings, the kill switch and token checks before a claim (a job they stop has
  done nothing), `jobRepository.js`, which nothing uses.
- Factory runs: artifacts other than the approval decision, spans, costs; the deadlock of PostgreSQL between
  `succeed` and `cancel`, which lock run and steps in opposite orders and of which
  the database aborts one.
- Task gateway: the steps of a plan, the audit log, digests and grants, a second
  job in the queue.
- Outbox: the service lease (a row of its own; a tick outlasts it as in `Scheduler`), destinations, signatures
  and the count of attempts.
- Render queue: compositions, quotas (read before the creation and enforced by
  nothing else), shares, and the files: two renderers of one job share its
  directory.
- Action gateway: several preferences (a write takes the others along as it does
  the stop), the loss of the state file once it is there, a failing write of the defaults
  that leaves a piece of them, proofs, digests and nonces, and a line that was written whole but for
  its end, which only the next one spoils.
- The components that `PROJECT.json` lists as not modelled, each with its reason:
  planned (section 3), or parsing, cryptography and input/output.
