# Verification of the Managed Python Runner

TLA+ models of the platform in this repository, the TLC instances that check them, and
TLAPS proofs about them. Source paths below are relative to the repository root.

## The system

NiFi processors send records to operators written in Python. A release of an operator is
built into a runtime image, published, and executed by the Runner in pooled sandboxes.

| Part | State it keeps | Operations | Talks to |
| --- | --- | --- | --- |
| Runner: worker pool, quota (`runner_engine/pool.py`, `quota.py`) | idle workers per (tenant, image, profile); flags of each worker; live and creating counts | acquire, release, invalidate, reap, reset_after_restart | sandbox backend |
| Runner: sandbox backend (`runner_engine/sandbox/`) | sandboxes in the clusters | create, renew, install, run, cancel, destroy, cleanup_managed | worker agents over HTTP |
| Runner: invocations (`runner_engine/service.py`, `state.py`) | leases, idempotency claims and audit rows in PostgreSQL; active invocations in memory | leases, invoke, cancel, startup, maintenance | pool, database |
| Runner: image retirement (`runner_engine/lifecycle_*.py`) | retirement rows; acquisitions in progress | begin, cancel, finalize, status | pool, backend, `_active` |
| Worker agent (`runner_engine/worker/`) | run gate, active child, installed releases | bootstrap, run, cancel, health | Runner (HTTP), child process |
| Catalog, publisher, materializer | release directories | save, get, materialize | file system |
| Build service (`build_service/`) | environments, aliases, build jobs; retirement state | resolve, build, retire, delete artifact, finalize | Harbor, builder |
| Publish service (`publish_service/`) | contracts, variants, publish jobs, edge bundles; retirement rows | publish, publish to edge, retire | build service, Runner, object store |
| Admin (`web/admin/`) | notes, cleanup requests and executions | plan, execute (saga), notes | build, publish, Runner |
| NiFi processor (`nifi/`) | the lease of the processor | schedule, trigger, stop | Runner (gRPC) |
| Operator authoring, console, observation | none or read-only | scan, compile, show | |

What is hard in it:

* *Threads.* gRPC handler threads, Cancel handlers and the maintenance thread meet in the
  pool and in `_active`; every lock is released before the backend is called.
* *Crashes.* The Runner recovers nothing: it deletes the sandboxes it finds and resets the
  rows of its predecessor, in this order. Build jobs and publish jobs have no recovery.
  A session lock of PostgreSQL is lost with its connection, while its holder goes on.
* *Lost answers.* A sandbox may exist although its creation failed, an operator may execute
  although its request failed, a transaction may be committed although it raised.
* *Retries.* NiFi repeats a request under one idempotency key; a claim in PostgreSQL keeps
  the attempts apart and replays the result.
* *Gates across services.* An image is deleted after Build, Publish and the Runner have each
  closed a gate, by a saga that may fail or be repeated at any step.

What makes each part correct: a worker has one user and stays with its tenant; the quota
equals the capacity in use; a key is executed by one run at a time and its result replayed
until it expires; claims and audit rows agree; a claim always ends; a running invocation can
be cancelled; an operator finds nothing of an earlier one in its sandbox; an environment has one
build at a time and is handed out only with an image that can be pulled; an image is retired only
when nothing runs from it and nothing can start to, and deleted only behind three closed gates;
what a READY publish job names is complete and readable; the processor invokes with a lease the
Runner knows.

## Modules

### WorkerPool

`pool.py` with `quota.py` and the backend calls of `sandbox/opensandbox.py`, `service.cancel`
and the restart. An actor is a handler thread or the maintenance thread; `pc` is where it is
in the code. An action ends where the code releases a lock or calls the backend, so all
interleavings the locks allow are there.

| TLA+ | Code |
| --- | --- |
| `idle`, `state`, `owner`, `installed`, `tired` | `WorkerPool._idle`; `Worker.healthy`/`destroyed`; tenant, image, profile; `installed_release_ids`; idle longer than `idle_seconds` |
| `live`, `tenantLive`, `creating` | `Quota` |
| `sandboxes`, `strays` | what exists in the cluster, known to the Runner or not; of it, what a restart has lost sight of |
| `AcquirePop`, `PurgeNext`, `PurgeDone`, `Warm*`, `Reserve*`, `CreationSlot`, `Create*`, `Install*`, `Undo`, `Unreserve` | `acquire`: the pop under the lock, the loop over stale workers, the candidate, the creation and its handler |
| `ReleaseToPark`, `Park`, `ReleaseToDestroy`, `Invalidate` | `release`, which decides outside of the lock and appends later, and `invalidate` |
| `Condemn`, `AlreadyDestroyed`, `Delete*`, `Refund`, `RefundAndRaise` | `_destroy`: test-and-set, deletion, `finally` |
| `CancelLookup`, `CancelAnswered`, `CancelFails` | `service.cancel`, which keeps a worker it looked up earlier |
| `Reap`, `IdleTooLong`, `SandboxDies`, `Restart` | `reap`, time, the sandbox TTL, a new process and `cleanup_managed`, which deletes what it finds on the one page it reads |
| `LateCreation` | a creation whose client has gone, by a failure or a crash, is served all the same |

Abstractions: a bucket is a set (the code pops the newest, the model any usable worker, and
any of the expired ones with it); clocks are flags; an image stands for an image and a
profile; an identity is used again once nothing refers to it; choice of cluster and HTTP are
left out. `BackendFaults` says whether calls may fail or lose their answer. A sandbox may
die in both cases, and a creation under way at a crash may be served late in both. The listing
is not filtered by owner: `Foreign` sandboxes of others may take places of the `CleanupPage`
ones a restart sees.

### IdempotentExecution and RunnerRuns

`IdempotentExecution` is the promise: a key is free, claimed by a run, or recorded; a run
begins only on a free key; a record stays until it is forgotten. `RunnerRuns` is the code:
`service.invoke` with `begin_run`, `finish_run`, `abandon_run`, `reset_running` and the purges
of `state.py`. One action is one transaction, one section under `_active_lock`, or one call
to the pool.

| TLA+ | Code |
| --- | --- |
| `claims`, `runs` | `runner.idempotency_keys`, `runner.runs` |
| `active` | `RunnerService._active` |
| `executing`, `condemned` | runs whose operator executes in a sandbox, whoever still waits for it; those whose sandbox a failed cancel has marked destroyed |
| `server` | the phases of `startup`, before the gateway serves |
| `Invoke`, `BeginAnswered`, `BeginFindsNoRow`, `BeginAgain`, `BeginInsert`, `InsertCollides` | the checks of `invoke` and `begin_run`; `FOR UPDATE` makes one step of the case with a row, SELECT and INSERT are two when there is none |
| `Acquire*`, `Register*`, `Run*`, `Finish*`, `InvalidateWorker`, `AbandonRun`, `Leave` | the `try` block of `invoke`, its handlers and its `finally` |
| `CancelFails`, `ExecutionEnds` | `cancel` after a transport failure, and the deletion that follows |
| `Expire`, `PurgeExpired`, `PurgeOldRuns` | the retention time and the maintenance loop |
| `Crash`, `CleanSandboxes`, `ResetRunning`, `StartupPurge` | the end of the process and `startup` |

Abstractions: leases, payloads and error codes are left out, a result is final or retryable;
the pool hands every run a sandbox of its own, which is what `WorkerPool` shows; a finished
audit row may be old enough to be purged at any time. `holderBar` reads an expired or
retryable result as a free key. Faults are constants: database errors before or after a
commit, deletions that fail, cancel requests that fail.

### ImageGate and RuntimeRetirement

`ImageGate` is the promise to whoever deletes an image: it comes into use only while it is
ACTIVE, and a retirement is final only when it is out of use. `RuntimeRetirement` is the code
for one image: `lifecycle_runtime.py`, `lifecycle_store.py` and the check of
`lifecycle_service.py`, over calls (handler threads in `invoke`), admins (threads of the lifecycle
endpoints) and restarts.

| TLA+ | Code |
| --- | --- |
| `row` | `runner.runtime_image_lifecycle`; no row is ACTIVE |
| `gate`, `acquiring` | `_lifecycle_gate_lock`, `_acquiring` |
| `idle`, `active`, `sandboxes` | the buckets of the image, `RunnerService._active`, the clusters |
| `Invoke`, `PassGate`, `StoppedAtGate`, `Acquire*`, `Settle` | the early check of `invoke`; `LifecycleWorkerPool.acquire`: check and count, the acquisition, the `finally` |
| `Register*`, `RunEnds`, `Leave`, `Reap`, `SandboxGone` | the rest of `invoke`, the reaper, deletions by other threads and TTLs |
| `Begin`, `Sweep`, `Delete*`, `RetireIdleWorker` | `begin_runtime_retirement` under the gate lock, `retire_runtime`, `retire_idle_worker` |
| `ReadRow`, `ReadActive`, `ReadIdle`, `ReadAcquiring`, `ReadManaged` | `runtime_image_status`, read by read |
| `AnswerSafe`, `Finalize`, `Update`, `CancelCheck`, `CancelDelete` | the answer of begin; `finalize_runtime_retirement`; `cancel_runtime_retirement`, whose check precedes the lock |
| `Restart`, `LateCreation` | a new process and `cleanup_managed`; a creation whose call has failed or died is served late, and its sandbox is one of the `strays`: no call has it |

Abstractions: the pool is a set of idle workers and a worker is its sandbox (`WorkerPool` has
the details); a status that is not safe ends at the read that decides it, because it changes
nothing. `ListFaults` and `Cancels` say
whether the list of sandboxes may be incomplete and whether retirements are cancelled.

### RuntimeEnvironment and RuntimeBuild

`RuntimeEnvironment` is what the Build service promises of one environment: a row that is
claimed, pushed, READY or FAILED, reset, retired, finished, and reactivated only to be built
anew. `RuntimeBuild` is the code: `resolve`, `retry` and `_build` of `service.py` over the rows of
`LifecycleBuildStore`, and the deletion of an artifact in `lifecycle.py` and `harbor.py`. An action
ends at a commit or at an answer of docker or Harbor; `bind_request`, which reads and then
inserts at READ COMMITTED, is two steps.

| TLA+ | Code |
| --- | --- |
| `status`, `life`, `image`, `jobs`, `alias` | `runtime_environments`, active `build_jobs`, `runtime_env_aliases` |
| `registry` | the images in Harbor |
| `Resolve*`, `ReuseSuperset`, `NoSuperset`, `CreateExact`, `LoadExact`, `Exact*`, `Reactivate`, `Bind*` | `resolve`: the alias, the smallest superset, the exact environment, its state, the new alias |
| `Retry`, `ResetFailed`, `ResetElsewhere`, `ClaimBuild`, `NotClaimed` | `retry`, and the `UPDATE`s that let one request build |
| `BuildAndPush`, `Serve`, `MarkReady`, `BuildFails`, `MarkFailed` | `_build` with `builder.py` |
| `MarkReadyRaises`, `MarkReadyFailed`, `BuildAbandoned` | the handler of `_build` after `mark_ready` has committed; a build whose claim or failure was not written as its caller thinks |
| `BeginRetirement`, `CancelRetirement`, `PlanDeletion`, `Harbor*`, `FinalizeRetirement`, `DeletionOver` | the lifecycle endpoints; `HarborActsLate`: a deletion nobody waits for; `FinalizeRaises`: a deletion whose record failed |
| `Crash` | the service dies: a row it builds stays BUILDING |

Abstractions: a requirements lock is the key of its exact environment and `Superset` says whose
packages contain whose; an image is a digest that is never built twice. `MaxFaults` bounds the
transactions that raise after their commit. Two variables are history, which no action
of the code reads: `doubtful` has the environments whose image a deletion may still take or have taken,
although the row does not say so (Harbor failed, the service died, the record failed, or an admin
cancelled meanwhile); `disturbed` those a late failure of an earlier build has been written into
during a later one.

### RuntimeCleanup

The saga that deletes the image of one environment: `CleanupCoordinator` (`web/admin/cleanup.py`)
with the gates of the Build service, the Publish service and the Runner as its calls see them,
against publications, invocations and rebuilds (of the Build service only what a deletion waits for:
a READY environment that turns FAILED is in `RuntimeBuild`). It composes the summaries of three owners:
`Safe` stands for what `RuntimeRetirement` shows of the Runner, `life` for the row of `RuntimeBuild`.

| TLA+ | Code |
| --- | --- |
| `Start`, `PreviewPasses`, `PlanPasses`, `Blocked` | the request, the fresh preflight over the tables of the services, the plan |
| `RetireBuild`, `RetirePublish`, `RetireRunner`, `RunnerNotDrained`, `AskDeletion`, `DeletionRefused`, `Finalize*`, `UndoGate` | `execute` and `_rollback`, call by call |
| `CallLost`, `DeletionLost`, `LateCall` | a call that times out and that its owner serves later, or never |
| `HarborDeletes`, `HarborFails`, `FinalizeBuild`, `Rebuild` | the Build service |
| `Resolve`, `Guard*`, `Release`, `AssertActive`, `MarkJobReady`, `PublishFails`, `Supersede` | a publication under the advisory lock: the gate is looked at twice, and the variant recorded by a later transaction on another connection; a new contract version |
| `Drop` | the connection that holds the lock breaks, the publication goes on |
| `RunStarts`, `RunEnds` | an invocation passes the gate of the Runner |

`behind` remembers that a variant was recorded behind a closed gate, which takes a lost lock;
`abandoned` the images whose deletion timed out. `First` is the image the environment has at the start.

### EdgePublish

The publications on one edge device: jobs of `PublishService` on its executor, `_publish_native`
under the device's advisory lock, the rows of `PublishStore`, the progress reporter and the bundle
files. `Answer` is what `get_publish_job` tells a client of a job. `lock` belongs to a connection
(`alive`): `Drop` frees it while the job goes on to its next statement. `FindReusable`/`FindStale`
decide on the deployments, the latest bundle and its file; `Unlink`, `OpenBundle` and `CloseBundle`
remove, truncate and write the file, and the digest is taken of what is there then; `CreateJob`
inserts the row, `Submit` reports QUEUED and hands the job to the executor; `Commit` is the one
transaction that deploys, records the bundle and ends the job; `Progress` is `emit` or the heartbeat
thread, which may outlive the job. A job that raises outside of a handler (the QUEUED report in
`EmitFails`, `mark_job_failed` in `MarkFailedRaises`) is `stranded`. `dropped` remembers the jobs
that have lost a connection.

### RunnerPublish

Publications of Runner releases: publish jobs, the client of the Build service (stream, then
polling with a deadline), the guard of `runtime_lifecycle.py`, `OperatorPublisher` and the steps of
`Catalog.save`, one per change of the directory. The environment is the abstract
`RuntimeEnvironment`, instantiated as `Env`: `Elsewhere` is any of its steps, so that a job meets
an environment that fails, is retired or is rebuilt at any time. The compressor, and with it the
bits of an archive, may change when the service is upgraded during a restart. A job starts with its
QUEUED report written, and `mark_job_failed` succeeds: what happens otherwise is in `EdgePublish`.

### WorkerAgent and OperatorResult

The agent of a sandbox: `AgentState.run` from its gate to its release, `cancel`, the readers of the
pipes and the child. Every lock, kill and removal is a step. The operator is the environment: its
child may fork inside and outside its process group, flood a pipe, report, hang or exit. The sweeps
over `/proc` may miss what is detached (`escaped`: it forks between them) and the removal of the
scratch directory may fail (`kept`: `rmtree` ignores errors). The names of the module are chosen so
that one proof module can extend it beside `WorkerPool`: `AgentInit`, `AgentNext`, `thread` where
other modules say `pc`, `Nobody` for `None`.

`OperatorResult` has the functions a result passes on its way to NiFi; they keep no state, and
`WorkerAgent` applies them to what its child returns.

| TLA+ | Code |
| --- | --- |
| `Outcome` | what becomes of a call of the operator: the step that failed or the value it returned |
| `Execute`, `Valid`, `Status`, `Normalized` | `execute`, `_normalize_result` and `_validate_output` of `worker/child.py` |
| `Refusal` | `_failure` and the busy answer of `worker/agent.py` |
| `Replayable`, `OutcomeClass`, `Reused` | `finish_run`, `_outcome_class` and `reusable_errors` of the Runner |
| `Route` | the relationship `ManagedPythonTransform.onTrigger` chooses |

### NifiLease

One processor, its tasks and the leases of the Runner: `onScheduled`, `onStopped`, `onTrigger` and
`ensureLease` under its monitor, `create_lease`, `renew_lease` in its two transactions,
`delete_lease` and the purge. Time is what is left of each lease, and passes whatever the tasks do:
nothing bounds how long an invocation takes to the Runner, so `waited` tells a task that gets there
within the margin of `ensureLease` from one that does not. A lost answer leaves a lease whose id
nobody has; a renewal that times out (`RenewDelayed`) may be served later (`LateRenew`).
`SwitchRefusal` is the Runner's lifecycle, or its policies, refusing and granting leases of the
release (`RenewBlocked`, `AcquireRefused`).

The `MC` modules give the constants their values. The operators named `Mut...` are the mistakes
the properties are meant to catch: each stands before the definition it would replace, and
nothing uses it.

## Runs

| Run | Instance | Shows |
| --- | --- | --- |
| `pool_reliable` | 2 threads and the reaper, 2 workers, 1 tenant, 2 releases on one image, limit 1, a page of 1 and 1 foreign sandbox, no backend faults | `SandboxesWithinQuota`, `DeletionStillToCome`, `IdleCapacityReturned` |
| `pool_faults` | 2 threads, 2 workers, 2 tenants, limit 1 per tenant, faults | `ExclusiveOwnership`, `TenantIsolation`, `QuotaExact` |
| `runs_faults` | 2 calls, 2 keys, 2 fingerprints, 3 run ids, database faults | `NoOverlap`, `TablesAgree`, `CompletionNeverLost`, the refinement of `IdempotentExecution` |
| `runs_claims` | 2 calls with one invocation id, 1 key, deletion and cancel faults | `NoOrphanClaim`, `EveryClaimEnds` |
| `retire_safe` | 3 calls, 2 admins, 2 sandboxes, backend faults | `SafeMeansQuiet`, the refinement of `ImageGate` |
| `retire_drains` | 2 calls, 2 admins, 1 sandbox, cancels, all faults | `NeverReactivated`, `EveryRetirementDrains` |
| `build_safe` | 2 requests, 1 admin, 2 environments of which one is a superset, 2 images, retries, crashes, 1 fault after a commit | `OneBuild`, `ServableImage`, the refinement of `RuntimeEnvironment` |
| `cleanup_safe` | 1 execution at a time, 1 publisher, 2 images, the deletion and `publish.finalize` may time out, the lock may be lost | `GatesStayClosed`, `PublishedImageExists`, `RunningImageExists`, `EveryExecutionEnds` |
| `edge_safe` | 2 jobs, 2 operators, one in 2 versions, lost connections, failing statements, crashes | `LatestBundleComplete`, `ReadyIsPublished`, `FilesHoldTheirMembers`, `ResultsAreFinal`, `EveryJobEnds` |
| `agent_safe` | a run and its retry, 1 cancel, the agent is root; the operator returns content, a dict that asks for a retry, or one that calls a retry a success | `NothingLeftBehind`, `RoutedAsReported`, `OnlyItsOwnKill`, `GateReopens` |
| `lease_safe` | 2 tasks, 4 leases, TTL 2, margin 1, 1 lost or late call, refusals | `InvokedLeaseIsKnown`, `NoLeaseForgotten`, `OutageEnds` |
| `release_safe` | 2 jobs of one variant, 2 images, 2 compressors, lost locks, crashes | `PublishedIsReadable`, `JobPublishedItsBits`, `OneWriter`, `EveryJobEnds` |

All of them pass. `TypeOK` (`AgentTypeOK` of the agent) is a theorem of every module.
Deadlock is checked except where the system may stop: `edge_safe` and `agent_safe` end when
every job, or every run, is over.

Bounds. The state spaces are finite without any bound on the length of a behaviour; the one counters
that are capped are `MaxLost`, the calls a processor may lose, and `MaxFaults`, the transactions of
the Build service that raise after their commit. Two threads and the reaper already give every pair
of pool operations, and three for a worker (its user, a late cancel, the reaper); one worker more
than the limit exercises the reuse of an identity after a destruction. One identity more than calls
lets a claim be taken over while the rows of the previous run are still there. Every limit is
reached: creation slots, both quotas, installed releases. Two admins give every pair of lifecycle
requests; of the Build service one admin is run, since cancels need none and `BeginRetirement`,
`CancelRetirement` and a deletion interleave freely, and two are proved. The third call of
`retire_safe` finds the pool empty while the other two hold sandboxes. Two requests and two
environments give a build beside a superset that is retired, reset or rebuilt; a second image tells
a rebuilt environment from the deleted one. Two jobs give every pair of publications, of the same
and of different operators, and a job whose lock is lost beside the one that has it now. Four leases
are the one in use, the one that replaces it, one that a lost answer orphaned and one to reuse. More
than this is proved, not run.

Fairness. A thread inside the pool or inside `invoke` goes on: backend calls, statements and
invocations have timeouts. The maintenance loop keeps running. A restarted process gets through
`reset_running` in the end, although some startups may crash. In `RuntimeRetirement` a thread that
waits for the gate lock gets it in the end, the reaper keeps running, and a sandbox no call uses is
deleted or reaches its TTL. In `RuntimeCleanup` a thread that waits for the advisory lock gets it in
the end (strong fairness: PostgreSQL queues its waiters). A publish job's thread goes on; in
`RunnerPublish` this includes the answer of the Build service's stream, which assumes that docker
ends (see the limits), but no build has to finish. A run of the agent goes on, its clock too, and a
child reads its request; nothing is assumed of the operator. In `NifiLease` time passes, the purge
runs, and FlowFiles keep arriving; `OutageEnds` only speaks of a Runner that does not refuse the
release for ever. Nothing makes clients call, admins act, or faults happen.

## Limits

The properties above hold under the constants of their runs and the assumptions of their
theorems. These configurations are not among the runs; each of them, run by hand (`tlc -config
<file> <MC module>`), gives the counterexample that shows where an assumption is needed.

* `MCWorkerPool_lost`: a deletion that raises in the loops of `pool.py:97` and `pool.py:178` drops
  the remaining stale workers and the popped candidate; their sandboxes and their quota are lost
  until the restart.
* `MCWorkerPool_page`: sandboxes of others fill the one page `cleanup_managed` reads
  (`opensandbox.py:409`), or a creation under way at the crash is served after it: the cluster runs
  more sandboxes than the quota allows. `SandboxesWithinQuota` does not count these `strays`.
* `MCRunnerRuns_overlap`: `invalidate` (`pool.py:152`) returns before the sandbox is gone when a
  failed cancel is already deleting it; the claim is released and a retry of the same key executes
  beside the old attempt, which `state.py:446` ("same logical request is already running") excludes.
* `MCRunnerRuns_shared`: the `finally` of `invoke` (`service.py:409`) pops an invocation id that
  another call registered; the running attempt cannot be cancelled any more, and is not counted as
  active.
* `MCRuntimeRetirement_listing`: `list_managed` reads a cluster that does not answer as empty, so
  that `finalize` retires an image from which a sandbox runs.
* `MCRuntimeRetirement_late`: a creation that timed out, or was under way when the Runner died, is
  served after the status was read: a sandbox of a RETIRED image runs. No call has it, and its TTL
  ends it.
* `MCRuntimeRetirement_race`: `finalize` writes the row without the gate lock and without a
  condition on the state; a cancel and a new begin after its status make it retire an image that is
  being used.
* `MCRuntimeBuild_retry`: `reset_failed` (`build_service/store.py:226`) has no condition on the
  lifecycle state, so that a RETIRING environment becomes PENDING, which `lifecycle_service.py:98`
  refuses elsewhere.
* `MCRuntimeBuild_late`: `mark_ready` commits and raises (or the report after it does), the
  environment is retired, reactivated and built again, and only then the first build's
  `mark_failed`, which names only the row (`build_service/store.py:311`), makes it FAILED: a retry
  starts a second build beside the one under way.
* `MCRuntimeCleanup_dropped`: a publication loses the connection with its lock between the second
  `assert_active` and `mark_job_ready` (`publish_service/lifecycle_service.py:161`, `185`); a whole
  cleanup fits in between, and the variant it records refers to a deleted image
  (`NoVariantDangles`).
* `MCRuntimeCleanup_lost`: the deletion times out after Harbor has done it, and the rollback reopens
  the gates of an image that is gone (`web/admin/cleanup.py:274`), which the same file excludes for
  a deletion it knows of (`DeletedStaysClosed`). The invariants of `cleanup_safe` except such an
  image, which the auxiliary `abandoned` remembers; they say that it costs no later image of the
  environment its gates.
* `MCRuntimeCleanup_overlap`: a request stays DRAFT (`cleanup.py:56`); of two executions of it one
  rolls back the gates of the other.
* `MCRuntimeCleanup_retry`: a second execution after a PARTIAL one finds the environment RETIRED;
  when its `runner.retire` times out, it knows of no deletion (`artifact_deleted` is set later) and
  its rollback reopens the Publish gate, while the image is gone. With `MCCancel` for `MCRetire` it
  shows that a cancel of the rollback that times out and is served late reopens a gate which a later
  execution of the request has closed again.
* `MCEdgePublish_dropped`: after a lost connection two jobs build bundles of one device at a time
  (the repository's architecture notes say the lock serialises them); the commit keeps the rows
  right.
* `MCWorkerAgent_cancel`: `cancel` answers True for an invocation that then succeeds
  (`agent.py:465`).
* `MCNifiLease_reacquire`: a lease purged between the two transactions of `renew_lease`
  (`state.py:349`) is reported as renewed; every invocation is refused until the cached expiry is
  near, although `nifi/README.md` says that the processor reacquires it.

Larger instances have been run by hand as well and pass: the pool with 3 workers and limit 2, and the
safety of the cleanup with `MCMany`, five calls that may time out (19 million states).

What the models show besides: the gate of the Publish service never reopens once it is RETIRED, so
that a rebuilt environment cannot be published on (`ActiveMeansOpen` of `RuntimeCleanup` is false);
a crash leaves environments BUILDING and jobs PENDING or RUNNING for good; so does, with the service
alive, a QUEUED report that raises (`publish_service/service.py:709`), or a `mark_job_failed` that
does; the file of a committed bundle is gone when a job without its lock, which computed the same
name, unlinked it and ended before it wrote its own (`edge_bundle.py:144`), and then the next
publication builds a new bundle; a deletion that fails leaves an image that may be gone on a row a
cancel makes ACTIVE again; an alias inserted between the SELECT and the INSERT of `bind_request` may
point at a RETIRED environment; a FAILED environment without an image that is RETIRING can only be
cancelled; a retry of a cleanup whose Runner row is RETIRED waits for ever; a stale edge job may
rewrite the file of a committed bundle with the same members but other bytes, which the next
publication notices by the digest; a connection lost after `mark_job_ready` turns the READY job
FAILED while its variant stays PUBLISHED; a crash between the mkdir and the rename of `Catalog.save`
leaves a release id that can be neither saved nor read. A docker build that hangs keeps its stream
and a publish worker for ever: `builder.py` gives its processes no time limit.

## Proofs

The theorems hold for every value of the constants that satisfies `ConstantsAssumption` of the
module; nothing else is assumed except where a theorem says so.

`WorkerPoolProofs` proves of the pool `TypeOK`, `ExclusiveOwnership`, `TenantIsolation`,
`QuotaExact`, `QuotaBounded` and `SandboxesWithinQuota`. None of them is inductive alone: that a
worker has one owner needs to know which locations point at a worker (`Shape`), that no location
points at an object that is still being created (`Identities`), and that a deletion follows the one
test-and-set that won (`Deletions`). These parts make `OwnershipInv`. Exactness of the quota rests
on it: an action changes the counters and the accounted workers by the same one element, which is a
fact about cardinalities proved once for a worker (`AccountStep`) and once for a creation slot
(`CreatorStep`). `SandboxesWithinQuota` adds `Paid`: with a backend that answers, a sandbox that is
not a stray lives on accounted capacity only. `DeletionStillToCome` assumes that the backend
answers: `NothingForgotten` then finds a worker that is up in its bucket, with its user, or with the
thread that is about to delete it. With faults it is false, and `MCWorkerPool_lost` has the
counterexample.

`RunnerRunsProofs` proves all the safety properties of `RunnerRuns` and the refinement. `IInv` is
`TypeOK`, `Calls` (a run has one call, its audit row is for the key of that call, calls live in
a serving process only), `Tables` (`TablesAgree` with `CompletionNeverLost`: each of them needs the
other, because a call may only finish or give up what the other tables' row still names),
`Sealed` (with deletions and cancel requests that arrive, only RUNNING runs execute, and a call
past its run executes nothing) and `NoOrphanClaim`. The writes to the database are described row
by row first (`Claimed`, `Recorded`, `Released` and the purges), and the steps use these facts.
`NoOverlap` follows: two executing runs are RUNNING, each holds the claim of its key, and a claim
names one run. The refinement maps a claim to
`Begin`, a result to `Record` or, when it is retryable, to `Release`, a restart to the `Release`
of every running key, and expiry to `Forget`; every other step is a stutter.

`RuntimeRetirementProofs` proves `TypeOK`, `AcquiringExact` and `NeverReactivated` without assumptions,
and `SafeMeansQuiet` and the refinement of `ImageGate` without listing faults and cancels, the two
assumptions `MCRuntimeRetirement_listing` and `_race` show to be needed. The reads of a status are far
apart, and `Closed` says why they add up: an admin that has read RETIRING knows that the gate
stays closed, one that has then read a counter of zero knows that no acquisition is under way
or will be, and one that has then read an empty list knows that no sandbox but strays will appear.

`RuntimeBuildProofs` proves `TypeOK`, `OneBuild`, `ReadyIsKept`, the refinement of
`RuntimeEnvironment` by every environment, and `ServableImage`, without assumptions on who cancels
what and when; what the code leaves open is in `doubtful` and `disturbed`. `Builds` says that a
request that builds an undisturbed environment has the row BUILDING or VERIFYING, ACTIVE and with
one active job: the `UPDATE`s of a build name only the row, and are safe because of it. `Images`
says that a deletion under way is of an environment that is not ACTIVE, has another image by now, or
is in doubt, and that an image is missing only in doubt, or until the deletion that removed it has
finished the retirement.

`WorkerPoolProofs` proves of the agent `AgentTypeOK`, `NothingLeftBehind`, `OnlyItsOwnKill` and
`RoutedAsReported`. `Traces` says where in a run a child, its kin and its scratch directory can
still exist, what a sweep missed or could not remove apart; the gate does the rest.
`RoutedAsReported` rests on lemmas about `OperatorResult` for every outcome (`ExecuteConsistent`: no
result is a success that asks for a retry; `RoutesAgree`: then the Runner and the processor read it
alike) and on `Answers`, which says what each answer of a run was made from: a `"result"` only from
a frame, whose outcome nothing changes afterwards.

`RuntimeCleanupProofs` proves `TypeOK` and `LockKeepsOut` (no variant is recorded behind a closed
gate while no lock is lost) without assumptions, and `GatesStayClosed`, `PublishedImageExists` and
`RunningImageExists`, with any number of images, publishers and executions, under two hypotheses.
`OneAtATime` says that executions of the request follow one another: a second one may undo the gates
of the first (`MCRuntimeCleanup_overlap`). `GateCallsAnswered` excludes that the three calls of the
rollback (a cancel served late reopens a later gate) or `runner.retire` (`MCRuntimeCleanup_retry`)
time out. Each of the four alone makes `GatesStayClosed` false; all other calls may be lost and
served at any later time. `CleanupInv` has three parts. `Gated` says which gates an execution has
closed at each of its calls; when it asks for the deletion the image is `Sealed`: gate closed,
nothing published, retiring in the Runner and not running. `Locked` says that a deleted image stays
so: an execution that begins later finds the environment RETIRED, and has no gate to undo that would
unseal it. `Awaited` tells a deletion the coordinator waits for from one that timed out, whose image
is in `abandoned`.

`NifiLeaseProofs` proves `TypeOK`, `InvokedLeaseIsKnown` and `NoLeaseForgotten`. `Believed` relates
the cached expiry to what is left of the lease, `Entrusted` what a task holds, until the margin has
passed, to what it was given, `Replacing` says that the lease being replaced is dead, unless a late
renewal has revived it.

`EdgePublishProofs` proves `TypeOK`, `LatestBundleComplete`, `ReadyIsPublished`,
`FilesHoldTheirMembers` and `ResultsAreFinal`. `ReadyRows` relates the row of a READY job to the
bundle it names, so that what `Answer` says of the job can be read. A job whose connection is open
has the lock and plans on the deployments there are (`Planned`); one that has lost it can only write
files, whose names hold their members (`Named`), and fails at its next statement. `Kept` says of the
file of a bundle, committed or about to be, that it is there or that a job without its lock has
unlinked it; `Linked` and `Fresh` say that a job with the lock is the only one that can finish the
revision it writes.

`RunnerPublishProofs` proves `TypeOK`, `PublishedIsReadable`, `JobPublishedItsBits` and `OneWriter`,
with any behaviour `RuntimeEnvironment` allows beside the jobs. `mkdir`, which fails when the
directory exists, makes a release's writer its only one even without the lock; `Complete` and
`Published` carry what it wrote to the job and to the variant.

Every invariant and action property of the runs is a theorem, some under the hypotheses named above.
Only model-checked are the liveness properties, which are out of the prover's reach, as is ENABLED:
`IdleCapacityReturned`, `EveryClaimEnds`, `EveryRetirementDrains`, `EveryExecutionEnds`,
`EveryJobEnds`, `GateReopens` and `OutageEnds`. No module uses recursion.

## Not modelled

* The local backend (a development stand-in), the gateway's translation of messages, operator
  authoring, path virtualization, the compilers of contracts, the console and the observation
  pages: stateless, read-only or sequential.
* `bootstrap` and the materializer of a worker: once per release on a worker that one call owns.
* The contents, attributes and messages of a result, and each of its limits: `OperatorResult` knows
  only whether all of them are kept.
* The pool of database connections: eight waiters of an advisory lock exhaust it, which is out of
  reach of the instances.
* The migration of legacy rows (`state.py`), and the notes of the admin store.

## Plan

Modelled and proved: `WorkerPool`, `WorkerAgent` with `OperatorResult`, `RunnerRuns`,
`RuntimeRetirement`, `RuntimeBuild`, `RuntimeCleanup`, `NifiLease`, `EdgePublish`, `RunnerPublish`.
Left: the exhaustion of the connection pool; the liveness of `RuntimeBuild`, for which the code
gives no fairness while a crash may leave a row BUILDING; a composition of `RunnerPublish` with
`RuntimeCleanup` instead of the two abstractions of each other they use now; the versions of
contracts (`create_virtual_contract`), of which `Supersede` has only the effect.
