# Verification of EnterpriseCore AI Suite

TLA+ models of the concurrent parts of the EnterpriseCore backend, the TLC
configurations that check them and the TLAPS proofs about them.  Paths are
relative to `src/`; a bare file name is one of `src/backend/app`.

    tlc -workers 2 -config JobQueue.cfg MCJobQueue.tla
    tlapm JobQueueProofs.tla

## 1. Inventory

The suite is a FastAPI and SQLAlchemy backend (`backend/app`), a React frontend
and an Electron shell.  Request handlers are synchronous functions on a thread
pool; the container starts two worker processes and the Kubernetes manifests two
replicas, so every handler runs concurrently with itself in one process and
across processes.  The database is SQLite (WAL, foreign keys on) or Postgres;
Redis is optional.  A session is opened per request with `autoflush=False` and
`expire_on_commit=False`: an object keeps the values it was loaded with, also
across commits, and an update writes the columns that were changed on the
object.  There are no version columns and almost no row locks, so a value read
before a commit, a network call or a callback may be stale when it is used.
That is the recurring hazard of this code.

| Component | State | Operations | Interacts with | Hard behaviour | What makes it correct |
| --- | --- | --- | --- | --- | --- |
| Background jobs, `services/jobs.py` | `jobs`, `job_attempts`, Redis queues | enqueue, cancel, retry, `_worker_entry`, `_run_sync` | importers, webhooks, AI tasks; RQ | two stores without a transaction; a worker may die | a function is called at most once; the row tells how it ended; nothing waits for ever |
| Outbound webhooks, `services/webhook_dispatcher.py` | `webhook_subscriptions`, `webhook_deliveries` | dispatch, deliver, retry, create, patch, delete | event bus | stale copies during slow POSTs; one loop for all receivers | failures, pauses and deactivations have a cause; no receiver is passed over |
| Stripe billing, `endpoints/stripe_webhook.py`, `services/stripe_service.py` | `tenants.plan/status`, `tenant_subscriptions`, `billing_events` | webhook, checkout, portal, `expire_trials` | Stripe, housekeeping | redelivery, late and lost events, failed handlers | every event has its effect once; the newest state wins |
| Sessions, `endpoints/auth.py`, `magic_link.py`, `sso.py`, `webauthn.py` | `refresh_tokens`, `magic_link_tokens` | sign-in, refresh, logout, revoke, consume, clean up | frontend, housekeeping | test and set over two statements | a token is used once; after a logout nothing older is live |
| Collaborative documents, `services/yjs_room.py`, `endpoints/ws.py` | rooms in memory, `yjs_documents` | join, leave, ingest, persist | websocket handler | several processes over one row; failed writes | no accepted update is lost |
| Event bus, `services/event_bus.py` | subscriber lists | publish, subscribe | webhooks, Redis stream, workflows, SSE | synchronous callbacks that publish again; swallowed errors | every publish returns and reaches its subscribers |
| Workflow engine, `services/workflow_engine.py` | `workflows`, `workflow_runs` | execute, `_on_event`, test run, create, edit, delete | event bus | partial failure; workflows that trigger workflows | counters agree with the runs; a publish ends |
| Knowledge ingest, `services/knowledge.py`, `ingest_worker.py` | `knowledge_documents`, chunks, blobs | upload, requeue, delete, process | housekeeping | crash between two statuses; two leaders | what a document shows is so: ready with one set of chunks, or without any |
| Housekeeping, `services/housekeeping.py` | advisory lock, scheduler | start, stop, jobs | ingest, sessions, billing | the lock is lost with its session | one leader at a time |
| Importers, `endpoints/importers.py`, `services/importers` | `import_jobs`, imported rows | validate, preview, commit, roll back | jobs | a second commit while the first is queued; a source that breaks off | rows are imported once; a rollback removes them and no others |
| Inventory, `endpoints/inventory.py` | movements, alerts, orders, returns | move, receive, return, resolve, recompute | | read, add, write of a line | stock equals what was received; low stock has its alert |
| Finance and CRM bridge, `endpoints/finance.py`, `services/crm_finance_bridge.py` | `invoices`, `invoice_lines` | create, convert a deal, edit, delete | CRM | find, then insert; edits of loaded lines | a deal has one invoice; a total is that of its lines |
| Audit log and streaming, `services/audit.py`, `audit_streamer.py` | `audit_logs`, destinations, cursors in memory | record, flush, deactivate, edit | every endpoint | ids that commit out of order; crashes | the customer's SIEM gets every event |
| Response cache, licensing, `core/cache.py`, `endpoints/license.py`, `core/plans.py` | entries with expiry, the key in memory | look up, compute, store, invalidate, activate | billing | a value computed before an invalidation | after an activation no old answer is served |
| Realtime, SSE, `services/realtime.py`, `endpoints/sse.py` | connections, bounded queues | connect, send, drop | event bus | slow consumers lose events by design | a closed connection is not registered |
| Tenancy, permissions, rate limit, CSRF, encryption, single sign-on, SCIM | context variables, counters, keys | filters of a request | every endpoint | context inheritance | a query sees one tenant |
| Consolidation, HR, projects, marketing, construction, academic, gamification, webchat | business rows | create, read, update, delete | event bus | one transaction each | balances and totals agree |
| Search, AI gateway, observability, frontend, desktop shell | derived or external | read, call out | all | none that an interleaving decides | |

`PROJECT.json` lists every component with its files, every hazard with the line
where it bites and the properties that would catch it, and for every definition
the lines it stands for.

## 2. Plan

The modules, in the order of their importance; all are written, checked and, as
far as section 13 says, proved about.

1. **JobQueue** and the contract it implements, **JobContract**.
2. **WebhookDelivery**.
3. **StripeBilling**.
4. **AuthSessions**.
5. **YjsRooms** and what it promises, **SharedLog**.
6. **WorkflowEngine**, with the event bus that calls it and that it calls.
7. **ImportJobs**, **KnowledgeIngest** (with the election of a leader),
   **Inventory**, **Invoices**, **AuditStream**, **FeatureCache**.
8. **MCPlatform** and **MCLiveness**, which put components together into one run.

A component has a module `M`; a module `MCM` with the symmetry or the constants of
its runs, where it needs one; a configuration per run; and `MProofs` for its
theorems, which for the components that `MCPlatform` composes are in `PlatformProofs`.  All modules take their sets as CONSTANTS with named assumptions,
have one action per committed step, declare no RECURSIVE operator, and state one
type invariant, `TypeOK`, which two of the runs check and seven modules prove.
`Mutant:` marks an operator that states a plausible error; `PROJECT.json` names
for each property the definition it replaces and that TLC then finds the property
violated.

`MCPlatform` and `MCLiveness` are compositions of components that share nothing
but the server.  In a behaviour one of them, the `mover`, moves, and the others
stay in their initial states.  Since no action of one reads a variable of another,
this loses no behaviour of any component, and the state spaces add up instead of
multiplying.  Components that do share state are in one module: the engine and the
bus, the ingest, the scheduler and the lock, invoices and deals, the cache with the
plan and the key, the stream with the log and its transactions.

## 3. Background jobs: `JobQueue`, `JobContract`

Every call of `_update_job` opens a session, reads the row, sets columns and
commits.  Its columns are disjoint between concurrent writers except `status`, so
it is one atomic write, and a handler is a program counter that moves from one
such write, or one call to Redis, to the next.

| Model | Code in `services/jobs.py` |
| --- | --- |
| `status`, `attempts`, `rqid` | columns of `jobs` |
| `hist` | rows of `job_attempts` of a job, in order |
| `rq` | entries waiting in Redis; a set, because three queues and several workers give no order |
| `at`, `held`, `num` | a thread, the job of its handler and the local `attempt` |
| `Create`, `Push`, `PushFails`, `StoreRqId`, `StoreRqIdFails`, `MarkEnqueueFailed` | `enqueue`, `_create_job_row`, `_enqueue_redis` |
| `CancelRead`, `CancelRq`, `CancelWrite` | `cancel_job`: test, RQ cancel, commit |
| `RetryRead`, then `Create` | `retry_job` |
| `Dequeue` | the RQ worker takes an entry (external) |
| `ResolveFails`, `Begin`, `Count`, `Call`, `Finish`, `Record` | `_worker_entry` |
| `BeginSync`, `Call`, `Finish`, `Record` | `_run_sync`, when `get_queue()` is `None` |
| `Crash` | a thread or process dies, or a database call raises, between two steps |

`calls`, `faulty`, `enqErr` and `removed` are auxiliary: how each call of the
function ended, the jobs that lost a thread, those whose enqueue raised, those
whose Redis entry a cancel removed.  RQ runs an entry at most once: the code
configures no RQ retry, and an entry whose worker died goes to RQ's registry of
failed jobs.  Rows are never deleted, so the branches for a missing row are
unreachable.  Left out: time stamps, excerpts and error texts.

`JobContract` is the outside view of the callable: none, waiting, executing, then
an outcome or dropped.  `JobQueue` implements it under the mapping `ExecView`,
which is computed from the calls, the queue and the threads.

| Run | Bounds | Shows |
| --- | --- | --- |
| `jobs` | 2 jobs, 2 request threads, 2 workers, Redis on and off; 293 376 states up to symmetry | the invariants below, `SettledIsFinal`, `ImplementsContract` |
| `liveness` | 1 job, the same threads, fairness; the jobs of `MCLiveness` | `EveryJobSettles` |

Two jobs suffice for a retry (a second row made from the first) and two threads
of each kind for every race: a cancel, a worker and a second cancel.  No other
counter needs a bound: a job runs once.

* `AtMostOneCall`: the function of a job is called at most once.
* `OutcomeTruthful`: `completed` only if it returned, `failed` only if it raised
  or the enqueue raised.
* `AttemptTrail`: the counter is raised before the call, the attempt row is
  written after it with its outcome.
* `NoOrphan`: a queued or running row is backed by an entry or by a thread, or its
  job lost a thread.
* `RemovedNeverRuns`: a job taken off the queue by a cancel is never run.
* `SettledIsFinal`: a job with a terminal row that nothing refers to stays at rest.
* `EveryJobSettles`: every job comes to rest unless it lost a thread.  Fairness: a
  thread inside a handler goes on and a worker polls for ever, which is what the
  operating system and `jobs_worker.py` give; nobody is obliged to enqueue, and
  no fairness is assumed of a crash.

## 4. Outbound webhooks: `WebhookDelivery`

| Model | Code |
| --- | --- |
| `state`, `row` | `webhook_subscriptions`: existence, `is_active`, `consecutive_failures`, `disabled_until` against the clock |
| `log` | `webhook_deliveries`: event, `attempt_number`, outcome |
| `copy`, `todo`, `cur`, `ev`, `num`, `at` | the session of one dispatching, retrying or patching thread |
| `Dispatch`, `Skip`, `SkipRaises`, `InsertFails` | `dispatch_for_event` |
| `Unsigned`, `Flush`, `Post`, `Commit` with `Success`, `Failure`, `Changed`, `Merge` | `deliver` |
| `Retry` | `retry_delivery` and its endpoint |
| `Create`, `PatchLoad`, `PatchCommit`, `Delete` | `endpoints/webhooks.py` |
| `PauseExpires`, `Crash` | the clock; the death of a thread |

The objects are loaded once, and the loop takes seconds per receiver.  A commit
writes what was noted on the loaded copy, and only the columns that differ from
it: a reset of a counter that was loaded as 0 is not written, an increment is
"loaded value plus one".  The inserted delivery row references its subscription,
so the database refuses to delete that subscription between flush and commit
(`Locked`).  `naive`, which a behaviour keeps, is SQLite, which returns timestamps
without a zone: the comparison of the pause then raises.

| Run | Bounds | Shows |
| --- | --- | --- |
| `webhook` | 2 subscriptions, 2 events, 2 threads, budget and limit 2, 1 retry, 1 patch or delete, Postgres and SQLite; 451 888 states up to symmetry | all properties below |
| `webhook_independent` | the same with 2 retries and no patch | `Independent`, which the code does not keep |

Two overlapping threads give every stale copy there is, since a third could only
repeat one of them; a budget and limit of 2 make the last attempt, the first
pause and the first deactivation reachable.  `MaxRetries` and `MaxPatches` are the
named bounds.  Deadlock is not checked: the events and the bounds run out.

* `FailuresAreReal`: the counter never exceeds the failures that were committed.
* `DeactivatedWithCause`: only an administrator or `HardLimit` failures deactivate.
* `PausedWithCause`: a pause has the delivery on record that used up the budget.
* `AttemptChain`: attempts are numbered without a gap, in rows and in flight.
* `NoSilentLoss`: an event reaches every subscription that was selected for it,
  unless the thread died, a selected subscription was deleted meanwhile, or, on
  SQLite, some subscription had used up its budget.

What `webhook_independent` refutes: "one failing doesn't roll back the others" of
`docs/WEBHOOKS.md` (on SQLite one paused subscription stops all those after it).

Left out: the filter on event types (a subscription that does not match is not
touched), `last_delivered_at`, `last_delivery_status`, names, URLs and secrets.

## 5. Stripe billing: `StripeBilling`

| Model | Code |
| --- | --- |
| `tenant` | `tenants.plan`, `tenants.status` |
| `rows` | the tenant's `tenant_subscriptions`: `plan`, `status` |
| `logged` | `billing_events` with a `stripe_event_id` |
| `trial` | `trial_ends_at`: null, ahead or past |
| `sent`, `acked`, `Emit` | Stripe (external): events in the order they happened, those answered with 200 |
| `at`, `ev`, `loaded`, `rid`, `row` | a process: its place, its event, and its session's copies of the tenant and of the row |
| `Duplicate`, `Unattributed`, `Resolve` | `_already_processed`, `_resolve_tenant` |
| `Log`, `LogRefused`, `LogRaises` | `log_billing_event` and the `except` around it |
| `Query`, `SyncRow` with `PlanName`, `Mirror`, `Merge` | `sync_subscription_from_stripe` |
| `Downgrade`, `PaymentFailed`, `Ignore`, `HandlerRaises`, `Answer` | the handlers and the end of `stripe_webhook` |
| `ExpireRead`, `ExpireWrite` | `expire_trials` in the scheduler thread |
| `SetTrialEnd`, `Lapse` | who wants a trial to end sets it in the database, for no code does; the clock |
| `Crash` | a process dies between two steps |

The endpoint is a coroutine without an `await` after the body, so in one event loop
it runs to its end; it is interleaved with other workers, replicas and the
scheduler.  A commit writes the columns that differ from the loaded copy
(`Merge`).  `canceled` stands also for `incomplete_expired` and `unpaid`, and all
events belong to one customer.  `done`, `starts` and `orderly` are auxiliary.

| Run | Bounds | Shows |
| --- | --- | --- |
| `billing` | 2 processes, 2 events of every type and status, 1 crash, 2 plans; two processes are busy at once only with status `active` (`Narrow`, `Mixed`); 3 545 897 states up to symmetry | `StartedOnce`, `PaidWithCause`, `MirrorsInOrder` |
| `billing_trials` | 1 process, 1 event, fairness | `TrialEnds`, which the code does not keep |
| `liveness` | 2 processes, 1 event, 1 crash, fairness; the billing of `MCLiveness` | `EveryEventIsAcked`, `TrialExpires` |

Two events and two processes give every race (one event twice, two events at
once, an event beside the expiry; one event is enough for its redelivery to race
with its handler in `liveness`).  What a status does to the tenant does not depend on
the others, so all of them are tried while one process is busy at a time; with two at
work, status `active` alone leaves `deleted` events that cancel and `failed` ones that
mark as past due.  `MaxEvents`, `MaxCrashes` and, in the run, `Mixed` are the named
bounds.

* `StartedOnce`: the handler of an event is started at most once.
* `PaidWithCause`: a paid plan is one that a logged event grants.
* `MirrorsInOrder`: as long as the events come one by one and in order, tenant and row
  say what the last event says whose handler ended.  An event whose handler raised, was
  refused or died is lost, and leaves no trace, since its writes are one commit; but
  for a deletion, which has two, and after which nothing is claimed of the events
  before it (`Latest`).
* `EveryEventIsAcked`, `TrialExpires`.  Fairness: a handler that was entered goes on,
  Stripe repeats an unacknowledged event, the clock runs, and the scheduler starts
  the expiry every day.  Strong fairness is needed because a process may be busy
  whenever it is looked at.  No fairness is assumed of new events, of crashes, or of
  somebody setting the end of a trial.

What `billing_trials` refutes: `docs/BILLING.md:181`, "The signup flow sets
`tenant.trial_ends_at = now() + 14 days`", so that the trial of a new tenant ends.
Nothing in the code writes the column, so `expire_trials` never finds a tenant.

## 6. Sessions: `AuthSessions`

A request selects its rows without a lock and commits in a later step.  All
statements that write `refresh_tokens` or `magic_link_tokens` are actions, from
seven files of the code.

| Model | Code |
| --- | --- |
| `tok`, `bound`, `link`, `active` | `refresh_tokens` (revoked, expired, deleted), `device_fingerprint` (`None` for null), `magic_link_tokens`, `users.is_active` |
| `req` | a request between its reads and its commit: the rows it holds, the link, the device, what it could see |
| `Login`, `Passkey`, `SingleSignOn`, `MailLink`, `ConsumeLink`, then `SignedIn` with `Issue` and `Binding` | `login`, `authenticate_finish`, the sign-ins of `sso.py`, `issue_magic_link`, `consume_magic_link`; `_issue_tokens` |
| `Refresh` with `Present` and `Mismatch`, then `Rotate`, or `Siblings` and `Swept` | `refresh_tokens`: rotation, or the device alarm; a legacy token without a fingerprint skips the comparison |
| `RevokeOne`, `RevokeAll`, then `Revoked`, `Swept` | `logout`, `revoke_session`, `change_password` |
| `Erase`, `SetActive` | `gdpr.py`, `disable_user` |
| `ExpireToken`, `ExpireLink`, `Cleanup` | the clock, `cleanup_refresh_tokens` |
| `RolledBack` | an update that matches no row, or a process that dies before the commit |

| Run | Bounds | Shows |
| --- | --- | --- |
| `sessions` | 2 request threads, 1 device and the unknown one, 1 link, 3 tokens, the first of them a legacy one or not; 3 412 360 states up to symmetry | the four properties |

Two threads give every overlap of two requests, three tokens a token with two
successors, or a sign-in between a selection and its commit.  `MaxTokens` and `Legacy`
are the named bounds; deadlock is not checked, because the tokens run out.

* `NoLateSuccessor`: rotation takes no lock, so each request that held a token
  unrevoked may issue a successor; once it has one, no further request gets hold
  of it.  Its successors and the requests still at it are bounded by the threads.
* `NoLateConsumer`: the same of a magic link.  It allows what the code allows: two
  overlapping requests both get a session from one link, which the documents call
  single-use (section 12).
* `SweepComplete`: after a logout everywhere, a changed password, a device alarm or
  an erasure nothing is live that was issued before the request selected.
* `RotationKeepsDevice`: a successor is bound to the device that its token was bound to,
  or, if that is a legacy token with no fingerprint, to the device that presented it.
  So a session that was issued without a request (bound to the unknown device) never
  has a successor.

All are safety; nothing here must happen eventually.

## 7. Collaborative documents: `YjsRooms`, `SharedLog`

The room functions are plain calls in the event loop of a process, so a process
does one of them at a time; processes share the table only, and their statements
interleave.  `document_id` has no unique constraint.

| Model | Code |
| --- | --- |
| `log` | `update_log` of the `yjs_documents` rows, in order of insertion |
| `room`, `snap`, `count` | a process's `_RoomState`: existence, snapshot, `user_count` |
| `pc`, `blob`, `found`, `final` | where its event loop stands in `_persist`, and what it took |
| `Join`, `Load`, `LoadFails`, `Count`, `Insert` | `join_room`, `_get_or_load`, `_update_active_count` |
| `Ingest`, `Leave` | `ingest_update`, `leave_room` |
| `Select`, `Write`, `WriteFails`, `Done` | `_persist` and the end of `leave_room` |
| `Crash` | death of a process |

* `Complete`: whoever opens the document gets every accepted update, from the room
  or from the row, as long as no second process has had a room and no fault hit
  what was only in memory.
* `OnlyStrangersLose`: a write takes from a row only what the writer's room does not
  hold; a process never unwrites what it has accepted or loaded.
* `ImplementsLog`: rows and rooms together implement `SharedLog`, an append-only set
  of updates that only an exposure may shrink.

What the exceptions hide is what the code does: two processes overwrite each other's
updates, a failed write is only logged (`yjs_room.py:152`), and a failed query
leaves an empty room that is persisted over the row (`yjs_room.py:65`).  Checked in
run `platform` (section 11) with 2 processes, 2 clients and 2 updates: 25 781 states.
Two processes are enough for one to overwrite the other.

## 8. Event bus and workflows: `WorkflowEngine`

| Model | Code |
| --- | --- |
| `state`, `count`, `trigger`, `script` | `workflows`: existence and `is_active`, counters, event types, actions |
| `stack` | the running handlers of a thread: `publish` calls the engine synchronously, an action may publish again |
| `Publish`, `Handle`, `Emit`, `EmitTimesOut`, `EmitTooDeep` | `publish` and `publish_event` of the bus, `_on_event`; no connection for the next handler; no room for it on the stack (`RecursionError`) |
| `Pool`, `Depth`, `Connections`, `Connected` | the connections, those that sessions have checked out (`conn`), and the handlers that fit into the recursion limit |
| `Match`, `Act`, `Acted`, `Reload`, `Finish`, `FinishRaises`, `Done`, `Return` | `_on_event`, `execute_workflow`, the actions |
| `CountActive`, `Create`, `SetActive`, `Delete` | `endpoints/workflows.py` |

| Run | Bounds | Shows |
| --- | --- | --- |
| `workflows` | 2 workflows, 2 publishing threads, 2 connections, room for 2 handlers, 2 events, 1 edit; 2 692 716 states | `CountsAreReal`, `PassedOverWithCause` |
| `liveness` | 2 workflows, 1 thread, 2 connections, room for 3 handlers, 1 event, fairness; the workflows of `MCLiveness` | `EveryPublishReturns` |

A session has a connection from its first query to its close, except after a
rollback, which an action that fails to commit its row does (`workflow_engine.py:337`,
`356`, `404`): it gives the connection back and expires what the session had loaded.
What is read next checks one out again, or finds none.  So the pool does not bound
the nesting: handlers that have rolled back publish without a connection, and what
ends a workflow that triggers itself is the interpreter's recursion limit.  The
`RecursionError` surfaces somewhere near the top and is caught by a handler with room
to log it (`EmitTooDeep`).  An exception of `execute_workflow` is logged with `wf.id`,
which an expired or unusable session cannot give: then the loop itself ends
(`Reload`, `FinishRaises`).

The first workflow matches every event and triggers itself, or is triggered by the
second, so that handlers nest; two connections let both threads hold one and ask
for another.  `MaxEvents` and `MaxEdits` are the named bounds of the runs; `Pool` and
`Depth` are limits of the program.

* `CountsAreReal`: the counters never exceed the run rows, whatever overlapping runs
  write back, and equal them as long as no two handlers held the workflow at once.
* `PassedOverWithCause`: a handler that got its session leaves a run row for every
  matching workflow, whatever its actions do to the session; unless a workflow was
  deleted meanwhile, the handler found no connection or no stack for its own work, or
  the commit of a run was refused.
* `EveryPublishReturns`: a publisher gets its thread back, even if workflows trigger
  themselves: the nesting ends at the recursion limit, and who needs a connection that
  others hold gets an error after the pool's timeout (`EmitTimesOut`; a pool that
  made it wait would deadlock).  Fairness: a thread inside a handler goes on.

## 9. Knowledge ingest and the leader: `KnowledgeIngest`

| Model | Code |
| --- | --- |
| `status`, `chunks` | `knowledge_documents.status`; `knowledge_chunks` by the run that stored them |
| `lock`, `sched` | who holds the advisory lock; `_scheduler` of a replica |
| `work`, `req` | the ingest tick of a replica, a reindexing request, each with what its session loaded |
| `Start`, `StartUnlocked`, `LoseLock`, `Release`, `Stop` | `start_scheduler`, `_acquire_leadership`, `_release_leadership`, `stop_scheduler` |
| `Upload`, `Delete`, `Reindex`, `DropChunks`, `Requeue`, `Again`, `Abandon` | the endpoints, `requeue_document`, `delete_document_blob` |
| `Tick`, `Parse`, `Skip`, `Embed`, `Store`, `Fail`, `FailUnmarked`, `Leave` | `process_pending`, `process_document` |
| `Crash` | death of a replica |

| Run | Bounds | Shows |
| --- | --- | --- |
| `knowledge` | 2 documents, 2 replicas, 1 reindexing request, 2 chunk sets, 1 crash, lost lock or error that cannot be marked; 1 786 492 states up to symmetry | `StatusTruthful` |

Two replicas give two leaders, one document more than a tick is at gives a stale
copy in its list, and one fault loses the lock, kills a replica or makes the handler
of an error fail too (`knowledge.py:628-636`).

* `StatusTruthful`: a ready document has its chunks once, any other has none and is
  found by no search, and one in `parsing` or `embedding` is being worked on, unless a
  crash, or an error whose mark was not committed, left it there; as long as no two
  sessions held the document at once.

A document that is left in `parsing` is taken up by nobody; that is in the model and
the reason for the exception, which `left` records document by document.

## 10. Imports: `ImportJobs`

| Model | Code |
| --- | --- |
| `status`, `ids` | `import_jobs.status`, `imported_record_ids` |
| `live`, `own` | the records of the target table, by row and run; those a colleague had entered before |
| `policy`, `async`, `queue` | duplicate options, `is_async_enabled()`, commits that wait for a worker |
| `ses` | what a request or a worker run has loaded and written |
| `Accept`, `CommitInline`, `WorkerRun`, `Begin`, `ImportRow`, `SkipRow`, `Complete`, `Break`, `Missing`, `Lose` | `commit_job`, `run_importer_commit`, `import_rows` |
| `LoadRollback`, `Rollback`, `LoadValidate`, `Validate`, `Preview` | the other endpoints |

* `RowsOnce` (run `platform`, 2 sessions, 1 row, 2 runs; 45 679 states): a row of the
  file is in the table at most once and where the rollback finds it, unless two
  sessions or two commits held the job at once, a preview reopened it, or the
  source broke off.  Each of these exceptions does break it in the code.
* `NoCollateral`, refuted by run `imports_rollback`: `importers/base.py:15` promises
  "exactly the rows it created (no collateral damage)"; a row that was updated is
  put on the list too (`csv_generic.py:198`) and is deleted.

## 11. Inventory, invoices, audit stream, feature cache; the runs `platform` and `liveness`

| Model | Code |
| --- | --- |
| **Inventory**: `onhand`, `alerts` | sum of the movements; open alerts of one product |
| `po`, `quantity`, `received`, `ret` | the statuses of a purchase order and a return; the quantity of a line and the one received |
| `given`, `into` (auxiliary) | what a line, or the return, was created as received; what it has put on stock since |
| `Move`, `Look`, `Act`, `Resolve`, `Recompute` | `record_movement` (commit, then the review of the alerts), `resolve_alert`, `recompute_alerts` |
| `LoadPo`, `SetPo`, `LoadLine`, `ReceiveLine`, `DeletePo`, `LoadReturn`, `SetReturn`, `DeleteReturn`, `Abort` | `po_status`, `receive_line`, `delete_po`, `update_return`, `delete_return`; a request that is rolled back, as when its row is gone |
| **Invoices**: `live`, `number`, `mark`, `lines`, `total` | `invoices` and their lines; the deal named by the marker in `notes` |
| `Look`, `Number`, `Name`, `Insert`, `Refused` | `find_existing_invoice_for_deal`, `next_invoice_number`, a number given by hand, the insert, the unique constraint |
| `Load`, `Update`, `Delete` | `update_invoice` with `recompute_invoice`, `delete_invoice` |
| **AuditStream**: `order`, `seen` | `audit_logs` by creation; those that are committed |
| `dest`, `fails`, `cursor`, `pass` | destinations; the cursors and the pass of one process |
| `Record`, `Commit` | `record_audit`, the transaction it is part of |
| `Begin`, `Select`, `Accept`, `Reject`, `Unreachable`, `Succeed`, `Fail`, `Leave` | `flush_all`, `flush_destination`, `_send_with_retries` |
| `Patch`, `Crash` | the endpoints of a destination; death of a process |
| **FeatureCache**: `plan`, `key` | `Tenant.plan`; the license key in each process |
| `backend`, `entry` | the backend a process settled on; entries in Redis and in each memory |
| `Miss`, `ReadPlan`, `ReadFeatures`, `Store`, `Expire` | the wrapper of `core/cache.py` around `license_features` |
| `Resolve`, `Answers` | `resolve_plan`; what it answers when the lookup of the tenant may fail (`plans.py:80`) |
| `SetKey` with `NewKey`, `Valid`, `Invalid`, `RunOut`, `SetPlan` | `activate`, with the key it leaves when it is refused; the day a license expires; a change by billing |

Orders and returns start with whatever a request may create: a line may be partly
received or have a quantity below zero, an order or a return may be received already
(`Init`).  A receipt of such a line can lower the stock, and reviews no alert.  A key
stands for the plan that the local check gives it; one that the check does not know,
as one of the license server, stands for the evaluation.

* `LowIsAlerted`: once a request has reviewed the alerts after the last movement,
  and no other review or hand interfered, low stock has an open alert, until a
  receipt of a negative quantity makes the stock low.
* `StockMatchesReceipts`: a line has received what it was created with and what it has
  put on stock since, and a return that is received was restocked once or created
  so; except what is marked as received once more, or held by two requests at once.
  Even then a line that is nowhere negative has received no more than that.
* `InvoicedOnce`: a deal has one invoice, when its conversions follow one another, or
  overlap and both count before either commits: they count to the same number, and
  one of them is refused.  Two requests alone can create two invoices, when one has
  looked before the other's commit and counts after it; so can a third request that
  changes the numbers in use meanwhile, and an edit that drops the marker.  `twice` is
  the deals to which one of these has happened (section 12).
* `TotalsMatch`: a total is that of the lines, unless two edits held the invoice.
* `NothingSkipped`: what a cursor has passed was received, whatever failed or
  crashed; except events that a larger id preceded.
* `EveryEventIsStreamed`: all other events are pushed.  `audit_every_event` refutes the
  same without the exception: `docs/SOC2_CONTROLS.md:58` promises every event, and one
  that commits late, or has a smaller id within the millisecond, is skipped.
* `CacheIsCurrent`: after an activation the cache says what the new key gives; out
  of date are only entries from before a change of the plan, of the key or of what it
  stands for (a license runs out) that no valid activation of the same tenant has
  wiped, answers that were computed across the change, and answers for which the
  lookup of the tenant failed.

| Run | Bounds | Shows |
| --- | --- | --- |
| `platform` | 2 processes, 2 clients, 2 updates; 1 file row, 2 import runs; an order of 1 stocked line and a return, quantities 1 and -2, 0 or 1 received when created, one unusual thing at a time, threshold 1, 2 movements that gain 1 or lose 2; 1 deal, amounts 1 and 2, 1 number given by hand, 2 invoices, 2 edits; 3 audit ids, 1 destination, batches of 2, 2 failures disable, 1 crash; 1 tenant, 1 paid plan, 2 changes; 1 215 593 states up to symmetry | the properties above but the liveness, with `Complete`, `OnlyStrangersLose`, `ImplementsLog` (section 7) and `RowsOnce` (section 10) |
| `liveness` | 2 audit events, 1 destination, 1 process, batches of 2, 2 failures disable, 1 crash, 1 patch; 20 896 states with the jobs, the billing and the workflows | `EveryEventIsStreamed`, and what sections 3, 5 and 8 say |
| `audit_every_event` | 2 audit events, 1 destination, 1 process | `EveryEventIsPushed`, which the code does not keep |

By component these are 25 781 states of the rooms, 45 679 of the import, 164 411 of
the stock, 89 125 of the invoices, 182 674 of the stream and 707 923 of the cache.
The bounds are the smallest with the cases that matter: a receipt, a second receipt
or a sale; two invoices that want one number; a full batch and a rest, with an
event of a smaller id among them; a key that is refused and one that is accepted.
`MaxUnusual` is how many unusual things the new documents of a behaviour have: an order
or a return that is received already, a line with something received, a quantity
below zero.  Each of them meets everything else in the run; the theorems allow all four.

Fairness of the stream: each loop's own steps are weakly fair, since it sleeps and
wakes for ever, and a request that was sent is answered or fails.  A receiver that
is asked again and again answers once (strong fairness of `Accept`), which is what
the promise to a customer presupposes; and the loop, which takes the destinations of a
pass one by one, does not pass over one for ever (strong fairness of `Select`).
No fairness is assumed of new events, patches or crashes.

## 12. Other differences from the documents

Four differences are shown by runs: one paused receiver stops the others on SQLite
(`webhook_independent`, section 4), a trial never ends (`billing_trials`, section 5), a
rollback deletes records that the import had only updated (`imports_rollback`,
section 10), and the stream passes events over (`audit_every_event`, section 11).  The
models contain the steps that lead to the following ones too, unless another file is
named.

Jobs and webhooks:

* `models/jobs.py:32`: the status ladder.  A late cancel overwrites `completed`, and a
  worker overwrites `cancelled` (`CancelWrite`, `Begin`).
* `services/jobs.py:550`: "Can't retry something still queued/running".  The row of a
  running job can say `cancelled`.
* `models/jobs.py:68`: "A fresh row is written every time the worker actually starts
  the job".  It is written at the end (`Record`), so a worker that dies leaves none.
* `models/webhooks.py:30`: failures are counted and reset on a 2xx.  A commit writes
  "loaded value plus one", and no reset if the loaded value was 0 (`Changed`).
* `webhook_dispatcher.py:6`: "After 6 consecutive failures the subscription is
  paused".  The attempt number of one delivery decides (`OutOfBudget`), while the
  deactivation (line 265) compares the counter.
* `docs/WEBHOOKS.md:183`: failed deliveries are retried on a schedule.  Nothing reads
  `next_retry_at`; only a person retries.

Billing:

* `stripe_webhook.py:84`: "downgrade to evaluation".  When another event grants the plan
  between the load and the commit, the column does not differ from the stale copy
  and is not written: the tenant ends as cancelled on the paid plan.
* `docs/runbooks/stripe-webhook-not-processing.md:59`: the webhook handler was moved
  to the job queue "so retries are idempotent and persistent".  It runs in the
  request after its event was marked; a failed one is not run again.
* `models/billing.py:14`: "At most one *active* row per tenant".  Two processes insert
  one each (`Query`, then `SyncRow` with `rid` 0 in both).
* `stripe_service.py:246`: plan and status "match Stripe's source of truth".  A late
  event overwrites a newer one.
* `docs/BILLING.md:185`: only a tenant "still on `evaluation`" expires.  `ExpireWrite`
  does not test the plan again, and the status of a tenant that upgraded is
  overwritten.

Sessions:

* `magic_link.py:186`: "Single-use — the row is stamped `used_at` on success so a replay
  is rejected", and `docs/SECURITY_HARDENING.md:51`: "one-time use".  The test and the
  stamp are two steps without a lock: two overlapping requests with one link both get
  a session (`ConsumeLink` in both, then `SignedIn`).  `NoLateConsumer` allows it, and
  says that a request that begins after the first commit gets none.
* A token that is issued without a request (`magic_link.py:237`, `webauthn.py:175`,
  `sso.py:360` and `477`, `tenants.py:97` and `242`) is bound to the unknown device, so its
  first refresh (`auth.py:401`) is taken for theft and ends every session.
* Single sign-on does not test `is_active`; disabling an account, also by SCIM, leaves
  its refresh tokens alone (a refresh then tests the flag).

Workflows, knowledge, imports:

* `docs/WORKFLOWS.md:15` and `128`: at most 100 active workflows.  An update does not
  count, and two creations count before either commits (`CountActive`).
* `workflow_engine.py:483`: `_on_event` "Catches every exception so the publish loop is
  never disturbed".  A workflow that is deleted during its run, or a commit of a run that
  is refused, makes the `wf.id` in the `except` (line 503) raise, which ends the runs of all
  that matched after it.
* A document that a crash, or an error whose mark is not committed, leaves in `parsing`
  or `embedding` is taken up by nobody; a
  requeue that loaded it as `queued` leaves it `ready` without chunks
  (`knowledge.py:521`, `532`).
* `knowledge.py:618` reads `doc.knowledge_base_id`, which does not exist; the error is
  swallowed and "knowledge.document.ingested" is never published.
* `stop_scheduler` does not wait for a running tick, and a leader that lost its lock
  goes on: two replicas may ingest at once.
* `importers.py:401`: a queued import accepts a second commit, and a preview (line 383)
  reopens a completed one; both import the file twice.  A source that breaks off
  commits rows without their trail.  `validate` puts back a stale status.

Inventory, finance, stream, cache:

* A line that was received by hand is stocked again when its order is set to
  `received`, and an order or return that goes back and forth is stocked again.
* `docs/MODULE_FINANCE.md:76`: invoice numbers are monotonic.  They are counted from
  the invoices there are, so after a deletion of any but the newest the next one
  collides (`NextNumber`).
* `crm_finance_bridge.py:24` and `crm.py:243`: "Idempotent per deal", "a second call
  returns the invoice already generated".  Two overlapping calls both create one, when
  the second has found no invoice before the first commits and counts the invoices
  after it: it gets the next number, which nothing refuses (`Look` in both, `Number` and
  `Insert` in one, then in the other).  A third request that creates, deletes or
  renumbers an invoice meanwhile, and an edit that drops the marker from the notes, have
  the same effect.  `InvoicedOnce` exempts just these deals (`twice`).
* Two conversions at once may create two customers; two edits at once leave the lines of
  both and the total of one.
* `inventory.py:358`: "Auto-create alert if stock drops below threshold".  Only a movement
  by hand reviews the alerts; the receipt of an order line or a return with a negative
  quantity, which the schemas allow, lowers the stock without one (`Stock`).
* `audit_streamer.py`: three failures disable a destination, but an exception of the
  HTTP client is not counted (`Unreachable`); a restart sends everything again;
  `flush_audit_streams` is never enqueued.  The Redis stream of the event bus has no
  consumer.
* `license.py:42`: the cache entry is dropped by "the billing webhook +
  activate/deactivate handlers".  Only `activate` does, and only for the caller's
  tenant; a key that was refused stays in the settings.
* `license.py:69`: "the next /features call reflects the new plan immediately".  A key of the
  license server is not in the format that `verify_license` reads, so it resolves to the
  evaluation (`SetKey`); and an answer that was computed when the lookup of the tenant
  failed is cached like any other (`Answers`, `Store`).
* `services/gamification.py:259` (not modelled): the curve of its comment is not the
  one of `_level_threshold`; the awards of `create_invoice` are never committed
  (`finance.py:297`).

## 13. Proofs

Eight modules hold theorems.  They hold for all sets and limits that satisfy the
named assumption of the component's module; `PROJECT.json` lists those a reader
should know.  The module of a component first proves `TypeCorrect`, then the
inductive invariant (`Invariant`, for the jobs `TokenInvariant`), then the rest from it.
A property that needs more has its own invariant on top.

* **Jobs.** `OutcomeTruthful` and the others are not inductive: that a function is
  called once follows from the fact that one token goes from the creating
  thread to Redis, to a worker and out.  `TokenInv` says so (`OneToken`), says what
  is recorded while the token exists (`TokenMeaning`) and what the attempt rows
  hold (`Trail`).  `TypeCorrect` and `TokenInvariant` are proved by one step per
  action; `CalledOnce`, `StatusIsTruthful`, `TrailIsExact`, `RemovedIsCancelled`
  follow.  `OnlyCrashesOrphan` is inductive over them.  `Refinement` shows that
  each action is a step of `JobContract` or leaves `ExecView` unchanged, and
  `RestIsFinal` that no action takes up a job at rest.
* **Webhooks.** `DeliveryInv` adds to the invariants that every loaded copy is
  bounded by the failures too, that a subscription in flight exists, and that a
  retrying thread continues a recorded delivery (`ChainInv`).  Without the clause
  on copies a stale commit could raise the counter; without the clause on
  threads a deleted delivery could break the chain.  `NoInventedFailure`,
  `PauseIsEarned` and `AttemptsAreChained` follow, and `DeactivationIsEarned` is an
  action property proved from the invariant.  That no receiver is passed over depends on
  what a dispatching thread has still to do: `DispatchInv` says that every selected
  subscription is recorded or ahead of a thread (`Covered`), that what is ahead was
  selected unless its copy is paused (`SelectedAhead`), and that a copy is paused only
  if the row was (`CopiesPaused`).  `NoReceiverPassedOver` follows.
* **Billing.** `PaidWithCause` is not inductive: the plan a commit writes comes from
  a copy.  `MirrorInv` therefore demands a granting event for every copy of the
  tenant in a session (`CopiesCaused`), that an event in a handler is marked
  (`MarkedFirst`), and that marked events were sent (`LoggedWereSent`).
  `ProcessStep` shows once for all actions that a step leaves the other processes
  where they are and marks its event first.  `HandlerStartsOnce` and `PaidIsGranted`
  follow.
  For `MirrorsInOrder`, `OrderInv` says that, as long as nothing overlaps or comes out of
  order, one process at most is at work (`Single`), its copies are the tables
  (`CopiesFresh`), its event is the next (`InTurn`), between two commits the row
  already says what the tenant will (`HalfWay`), there is one row and events are marked
  in turn (`Serial`), and the last one that was handled is in the tables (`Mirrored`).
  `OrderIsMirrored` follows.
* **Sessions.** That a token is not used late is not inductive: it depends on what the
  requests hold.  `IInv` adds `ShapeOf` (what a request holds agrees with the rows,
  and a sweeping one holds every live token up to what it has `seen`) and `Past` (a
  token that has a successor, or a link that was consumed, is not live again).  The
  bound follows from two counting lemmas, `OneMoves` and `FewerRequests`: each step that adds a
  successor takes a request away.  It needs finitely many threads.  `SuccessorsAreBounded`,
  `ConsumersAreBounded`, `SweepsAreComplete` and `DeviceIsKept` are the results; the last
  says of a token without a fingerprint that it is bound to the first device that
  presents it.
* **Knowledge.** `StatusTruthful` says nothing of who holds a document.  `IInv` adds
  `Alone` (a document not in `raced` has one holder), `Faithful` (what its holder has
  loaded is so), `Absent` (a document without a row has nothing) and `Shape` (a
  tick that is at a document works on it, and a request that has dropped a document's
  chunks holds it).  A document may be left half way by a crash or by an error
  whose mark was not committed (`left`), and by nothing else.
* **Workflows.** A counter is written from what a session has held since before the
  actions ran, perhaps through nested handlers of the same workflow.  `CountInv` speaks
  of every handler on every stack: what its session holds is at most what the run rows
  show (`HeldReal`), a workflow that is not `shared` is held by one handler
  (`HeldAlone`), and that one holds what the row shows.  `CauseInv` says
  that every workflow a handler selected had a row (`SelectedOnce`) and that a creation
  in progress is of a new one (`MakingNew`), so that a workflow that was passed over was
  deleted, or a loop that still had it ahead was cut short by a failure (`broken`).
  `Remain` says once what the steps leave of the handlers below and beside.
  `CountersAreReal` and `NonePassedOver` hold for any pool and any
  bound on the depth of nesting.
* **Documents.** `Complete` says nothing of the rows while a room is open.  `IInv` says
  that a process without a room knows nothing (`Busy`), that a persist in flight
  carries the snapshot (`Persist`), that rows hold accepted updates only
  (`RowsAccepted`), that one room is alone until `shared` (`Sole`) and complete until
  `faulty` (`Whole`).  `Refinement` shows every step to be one of `SharedLog`
  or a stutter: until an exposure the content equals what was accepted.
  `DocumentIsComplete` and `WritesSpareTheirOwn` are the other results.

The components that run in `MCPlatform` have their theorems in `PlatformProofs`.
A step of the composition is a step of the component or leaves it alone, so the rooms'
theorems carry over (`DocumentInPlatform`, `WritesInPlatform`, `LogInPlatform`).
The others are proved there, each from an inductive invariant of its component.

* **Cache.** `CacheIsCurrent` is not inductive, because two keys may become equal
  again while an entry stays.  `EntriesValid` says of every entry that is not `old`,
  and `Truthful` of what a request that is not `excused` has read, that the process it
  is of resolves to the same now; `CacheInPlatform` follows.
* **Imports.** As long as nothing has `raced`, reopened or broken off, `ImportInv` says
  that one session at most is at work (`OneAtWork`: none beside it, nothing waits for
  a worker, and what it has loaded and put is of its run), and `MadeOnce` that records
  exist only under a completed job that lists them.  `RowsOnceInPlatform` follows.
* **Stock.** `ReadsHold`: what a request has read of a line or of the return is still so
  when it writes, unless two have held it (`odd`); and what it has read of a line that is
  nowhere negative (`Sound`) is no more than the line was given and has put on stock,
  which for such a line never falls (`Rising`).  `ReviewsHold`: a review that nobody
  disturbed has the open alerts before it, and has found the stock low if it is.  With
  them `StockMatchesReceipts` and `LowIsAlerted` are inductive, from any documents
  `Init` allows and for any amounts, quantities and thresholds, also negative ones;
  movements are given as `Gains` and `Losses`.
* **Invoices.** That two conversions of a deal end in one invoice rests on the unique
  number.  `Numbered` says that a request that converts a deal without an invoice holds
  the next number, or one that is taken, and `Single` that the one invoice bears its
  marker; `twice` names the deals for which a conversion has counted after the commit
  of another, or a third request or an edit has broken this.
  `OneLine` says what whoever is to rewrite an invoice has loaded.  `SumOfOne` computes
  the community modules' recursive sum over one line from its equation.
* **Stream.** `NothingSkipped` needs to know what a batch in flight passes over: nothing,
  except events that are `behind` (`Sends`).  That the oldest positions are a prefix
  (`OldestFirst`) and that the largest has the largest id (`LastOfBatch`) rests on
  `Sorted`: ids that are out of order are `behind`.  The least and the greatest of a set of numbers
  come from the well-foundedness of `<` (`LeastNat`, `GreatestNat`).

All inductive invariants were model-checked on the instances of the runs before they
were proved.  Only model-checked, because liveness under fairness is out of the
prover's reach: `EveryJobSettles`, `EveryEventIsAcked`, `TrialExpires`,
`EveryEventIsStreamed` and `EveryPublishReturns`.  Every invariant and every action
property that a run checks is a theorem, and so are both refinements, but for the
four statements that runs refute.  `TypeOK` of the platform's other components is
not a theorem as it stands; the invariants above contain the types they need.

## 14. Not modelled

The map covers some six percent of the roughly sixty thousand lines, and the reason
is what those lines are.  About half of them are endpoints, schemas and table
definitions that create, read, update and delete one row in one transaction, for
some two hundred tables.  Their only property would restate the assignment they
make, since no other actor takes part and nothing is read before a commit and used
after it.  The rest is mostly seed data, rendering (PDF, HTML, mail, exports),
arithmetic within one transaction, parsing of provider formats, prompts and
cryptography: there a model would have to repeat the code, because the data is the
point.  What remains, where several actors, several transactions, a memory beside
the database or an outside service take part, is modelled.

Components with status `not_modelled`:

* Search: ranking and SQL; read only.
* Observability, the desktop shell: counters, logs and the start of a process;
  nothing depends on them.
* Realtime and server-sent events: fan-out to the queues of one process's
  connections; a slow one loses events by design, nothing is stored or retried, and
  so there is no promise to check.
* Tenancy, permissions: a filter on every query, a decision over one read.  What they
  promise is a property of each query, with no step of another actor in between.
* Rate limiting, CSRF, headers, IP allow lists: filters of one request; the limiter's
  window is a counter under one lock.
* Encryption and key management: what could go wrong is in the bytes; a rotation
  rewrites its rows in one transaction.
* Consolidation: translation, elimination and ownership arithmetic with decimal
  rounding, over one transaction.
* HR, projects, marketing, construction, academic, gamification, webchat,
  communication, documents: rows without a protocol between requests.
* AI gateway: calls of providers in a fallback order, with one log row each.
* Frontend: its single-flight refresh makes overlapping refreshes rarer, which
  `AuthSessions` does not rely on.

Left out of the components that are modelled in part:

* Webhooks: rotation of the secret, edits of name, URL and event types.
* Billing: checkout, portal, cancel and resume (a flag of the row), metering.
* Sessions: passwords, second factors, lockout, the tenant of a session; the
  protocols of SSO and SCIM; the rest of the erasure of a user.
* Workflows: templates, the trigger filter, edits of a trigger or of the actions;
  the bus's other subscribers, which write nothing the engine reads.
* Knowledge: blobs, text, vectors, retrieval, deletion of a whole base.
* Housekeeping: the clean-up of login attempts and AI usage.
* Importers: mapping, coercion, formats, and the importers of whole projects.
* Inventory: alerts entered by hand, a change of the product's threshold or of the
  product a return names, suppliers, warehouses, shipments, prices.
* Finance: customers of a conversion, payment status, expenses, payroll, tax,
  budgets, exchange rates, reports.
* Stream: formats, credentials, the test button, the attempts within one batch.
* Cache and licensing: signatures and formats of keys, the remote check and its grace
  period, statistics; the module catalog, which is cached like the features.

Bounded in the runs and unbounded in the code: the number of events, requests,
crashes and edits.  Each bound is a constant in a guard, named in the module that
declares it; the theorems of section 13 hold for every value of them.
