------------------------------ MODULE EdgePublish ------------------------------
(***************************************************************************)
(* The publication of NiFi Native operators to one edge device: the jobs   *)
(* of PublishService (service.py) that publish_backend creates and         *)
(* _execute_publish_job runs on a thread pool, with _publish_native under  *)
(* the device's advisory lock, the rows of PublishStore (store.py), the    *)
(* progress reporter (progress.py) and the bundle files (edge_bundle.py).  *)
(*                                                                         *)
(* The lock is a session lock of the pooled connection that reads the      *)
(* deployments and commits.  When that connection is lost PostgreSQL frees *)
(* the lock at once, while the thread notices at its next statement: until *)
(* then it goes on writing files.                                          *)
(*                                                                         *)
(* Abstractions.  A variant stands for its package name and requirements.  *)
(* Writing the native package and resolving the dependencies change        *)
(* nothing another job reads, they may only fail.  Each write of a bundle  *)
(* gives other bytes (the archive holds modification times), named by the  *)
(* jobs that wrote them.                                                   *)
(***************************************************************************)
EXTENDS Integers, FiniteSets, SequencesExt

CONSTANTS
  Operator,
  Variant,    \* compiled contracts for this device
  OperatorOf, \* the operator a variant is a version of
  Job,
  Workers,    \* PUBLISH_WORKER_THREADS
  Drops,      \* TRUE: database connections may be lost, and statements fail
  Crashes,    \* TRUE: the service may die and start again
  None

ASSUME ConstantsAssumption ==
  /\ OperatorOf \in [Variant -> Operator]
  /\ Workers \in Nat \ {0}
  /\ None \notin Variant \cup Job
  /\ Drops \in BOOLEAN /\ Crashes \in BOOLEAN

VARIABLES
  variant,    \* backend_variants.status
  status,     \* publish_jobs.status
  result,     \* publish_jobs.result_json: a progress snapshot, or a bundle's revision
  deployed,   \* edge_native_deployments: the variant of each operator on the device
  bundles,    \* edge_dependency_bundles by revision, with their members and the digest
  files,      \* the bundle files: who wrote into them, and who came to the end
  lock,       \* the job whose connection has the advisory lock
  pc,         \* of a job: where its thread is
  what,       \* of a job: the variant it publishes
  force,      \* of a job: forceRebuild
  alive,      \* of a job: its connection is open
  dropped,    \* history: the jobs that have lost their connection
  members,    \* of a job: the variants of the bundle it builds
  revision,   \* of a job: the revision it builds or reuses
  digest      \* of a job: the digest of the file it wrote

jobRows == <<status, result>>
device == <<deployed, bundles>>
request == <<what, force>>
links == <<alive, dropped>>
plan == <<members, revision, digest>>
vars == <<variant, jobRows, device, files, lock, pc, request, links, plan>>

NoResult == 0
Snapshot == -1    \* of the progress: {"_progress": ...}

Active == {"PENDING", "RUNNING"}
Locked ==
  {"check", "reuse", "revise", "write", "open", "writing", "commit", "unlock", "raise"}
Busy == Locked \cup {"waiting", "failed"}
Revisions == Nat \ {0}
Files == Revisions \X SUBSET Variant
Contents == [writers : SUBSET Job, closed : SUBSET Job]
Bundle == [members : SUBSET Variant, digest : Contents]

TypeOK ==
  /\ variant \in [Variant -> {"none", "COMPILED", "PUBLISHED", "FAILED"}]
  /\ status \in [Job -> Active \cup {"none", "READY", "FAILED"}]
  /\ result \in [Job -> {NoResult, Snapshot} \cup Revisions]
  /\ deployed \in [Operator -> Variant \cup {None}]
  /\ bundles \in Seq(Bundle)
  /\ DOMAIN files \subseteq Files /\ \A f \in DOMAIN files : files[f] \in Contents
  /\ lock \in Job \cup {None}
  /\ pc \in [Job -> Busy \cup {"out", "compiled", "created", "queued", "done", "stranded", "lost"}]
  /\ what \in [Job -> Variant \cup {None}]
  /\ force \in [Job -> BOOLEAN]
  /\ alive \in [Job -> BOOLEAN]
  /\ dropped \subseteq Job
  /\ members \in [Job -> SUBSET Variant]
  /\ revision \in [Job -> Revisions \cup {0}]
  /\ digest \in [Job -> Contents \cup {None}]
  /\ \A j \in Job : lock = j <=> pc[j] \in Locked /\ alive[j]

Init ==
  /\ variant = [v \in Variant |-> "none"]
  /\ status = [j \in Job |-> "none"]
  /\ result = [j \in Job |-> NoResult]
  /\ deployed = [o \in Operator |-> None]
  /\ bundles = <<>>
  /\ files = <<>>
  /\ lock = None
  /\ pc = [j \in Job |-> "out"]
  /\ what = [j \in Job |-> None]
  /\ force = [j \in Job |-> FALSE]
  /\ alive = [j \in Job |-> FALSE]
  /\ dropped = {}
  /\ members = [j \in Job |-> {}]
  /\ revision = [j \in Job |-> 0]
  /\ digest = [j \in Job |-> None]

Goto(j, from, to) ==
  /\ pc[j] = from
  /\ pc' = [pc EXCEPT ![j] = to]

Deployments == {deployed[o] : o \in Operator} \ {None}

\* What the device will run once variant v has replaced its operator's.
With(v) == {w \in Deployments : OperatorOf[w] # OperatorOf[v]} \cup {v}

MutFileName(r, m) == <<r, {}>>

\* build_edge_bundle's file name: the revision and a hash of the manifest.
FileName(r, m) == <<r, m>>

\* next_edge_bundle_revision: revisions have no gaps.
NextEdgeRevision == Len(bundles) + 1

NameOf(j) == FileName(revision[j], members[j])

Intact(r) ==
  LET name == FileName(r, bundles[r].members)
  IN name \in DOMAIN files /\ files[name] = bundles[r].digest

MutReusable(j) ==
  /\ ~force[j]
  /\ deployed[OperatorOf[what[j]]] # None
  /\ bundles # <<>>
  /\ Intact(Len(bundles))

\* The latest bundle is what the publication would build again.
Reusable(j) ==
  /\ ~force[j]
  /\ deployed[OperatorOf[what[j]]] = what[j]
  /\ bundles # <<>>
  /\ Last(bundles).members = With(what[j])
  /\ Intact(Len(bundles))

-----------------------------------------------------------------------------
(***************************************************************************)
(* The row of a job                                                        *)
(***************************************************************************)

\* create_publish_job, mark_job_running.
Insert(j) == status' = [status EXCEPT ![j] = "PENDING"]
MarkRunning(j) == status' = [status EXCEPT ![j] = "RUNNING"]

\* The status condition left out.
MutUpdateProgress(j) == result' = [result EXCEPT ![j] = Snapshot]

\* update_job_progress: only the row of an active job.
UpdateProgress(j) ==
  /\ status[j] \in Active
  /\ result' = [result EXCEPT ![j] = Snapshot]

\* get_publish_job: what its user is told of a job.
Answer(j) ==
  [status   |-> status[j],
   progress |-> status[j] \in Active /\ result[j] = Snapshot,
   result   |-> IF status[j] = "READY" THEN result[j] ELSE NoResult]

-----------------------------------------------------------------------------
(***************************************************************************)
(* publish_backend: the HTTP request                                       *)
(***************************************************************************)

\* upsert_variant, ON CONFLICT: a variant that is published stays so.
Upserted(s) == IF s = "PUBLISHED" THEN s ELSE "COMPILED"

\* _compile_backend; a job identifier is used once.
Compile(j, v, f) ==
  /\ Goto(j, "out", "compiled")
  /\ variant' = [variant EXCEPT ![v] = Upserted(@)]
  /\ what' = [what EXCEPT ![j] = v]
  /\ force' = [force EXCEPT ![j] = f]
  /\ UNCHANGED <<jobRows, device, files, lock, links, plan>>

\* create_publish_job.
CreateJob(j) ==
  /\ Goto(j, "compiled", "created")
  /\ Insert(j)
  /\ UNCHANGED <<variant, result, device, files, lock, request, links, plan>>

\* QUEUED is emitted, the job is submitted to the executor.
Submit(j) ==
  /\ Goto(j, "created", "queued")
  /\ UpdateProgress(j)
  /\ UNCHANGED <<variant, status, device, files, lock, request, links, plan>>

\* The request ends with the exception of its first emit, and leaves the row of a
\* job that no thread will ever execute.
EmitFails(j) ==
  /\ Drops
  /\ Goto(j, "created", "stranded")
  /\ UNCHANGED <<variant, jobRows, device, files, lock, request, links, plan>>

-----------------------------------------------------------------------------
(***************************************************************************)
(* _execute_publish_job and _publish_native: a thread of the executor      *)
(***************************************************************************)

IdleWorker == Cardinality({k \in Job : pc[k] \in Busy}) < Workers

\* mark_job_running, then pg_advisory_lock on a connection of the pool.
Start(j) ==
  /\ IdleWorker
  /\ Goto(j, "queued", "waiting")
  /\ MarkRunning(j)
  /\ alive' = [alive EXCEPT ![j] = TRUE]
  /\ UNCHANGED <<variant, result, device, files, lock, request, dropped, plan>>

\* mark_job_running raises.
StartFails(j) ==
  /\ Drops /\ IdleWorker
  /\ Goto(j, "queued", "failed")
  /\ UNCHANGED <<variant, jobRows, device, files, lock, request, links, plan>>

\* pg_advisory_lock left out.
MutAcquireLock(j) ==
  /\ Goto(j, "waiting", "check")
  /\ alive[j]
  /\ lock' = j
  /\ UNCHANGED <<variant, jobRows, device, files, request, links, plan>>

AcquireLock(j) ==
  /\ Goto(j, "waiting", "check")
  /\ alive[j]
  /\ lock = None
  /\ lock' = j
  /\ UNCHANGED <<variant, jobRows, device, files, request, links, plan>>

\* list_edge_deployments, get_latest_edge_bundle and the file are as expected.
FindReusable(j) ==
  /\ Goto(j, "check", "reuse")
  /\ alive[j]
  /\ Reusable(j)
  /\ revision' = [revision EXCEPT ![j] = Len(bundles)]
  /\ UNCHANGED <<variant, jobRows, device, files, lock, request, links, members, digest>>

\* mark_job_ready on the connection of the lock.
MarkReady(j) ==
  /\ Goto(j, "reuse", "unlock")
  /\ alive[j]
  /\ status' = [status EXCEPT ![j] = "READY"]
  /\ result' = [result EXCEPT ![j] = revision[j]]
  /\ variant' = [variant EXCEPT ![what[j]] = "PUBLISHED"]
  /\ UNCHANGED <<device, files, lock, request, links, plan>>

FindStale(j) ==
  /\ Goto(j, "check", "revise")
  /\ alive[j]
  /\ ~Reusable(j)
  /\ members' = [members EXCEPT ![j] = With(what[j])]
  /\ UNCHANGED <<variant, jobRows, device, files, lock, request, links, revision, digest>>

\* The package is written, the dependencies are resolved; next_edge_bundle_revision.
NextRevision(j) ==
  /\ Goto(j, "revise", "write")
  /\ alive[j]
  /\ revision' = [revision EXCEPT ![j] = NextEdgeRevision]
  /\ UNCHANGED <<variant, jobRows, device, files, lock, request, links, members, digest>>

\* build_edge_bundle unlinks a file of that name ...
Unlink(j) ==
  /\ Goto(j, "write", "open")
  /\ files' = Restrict(files, DOMAIN files \ {NameOf(j)})
  /\ UNCHANGED <<variant, jobRows, device, lock, request, links, plan>>

WritingInto(name) ==
  IF name \in DOMAIN files THEN {k \in files[name].writers : pc[k] = "writing"} ELSE {}

\* ... and opens it for writing, after an emit: a file that another job has created
\* meanwhile is truncated, and who is writing into it goes on.
OpenBundle(j) ==
  /\ Goto(j, "open", "writing")
  /\ files' = [f \in DOMAIN files \cup {NameOf(j)} |->
                IF f = NameOf(j) THEN [writers |-> WritingInto(f) \cup {j}, closed |-> {}]
                ELSE files[f]]
  /\ UNCHANGED <<variant, jobRows, device, lock, request, links, plan>>

\* The archive is closed and the file of that name is hashed: another job may
\* have unlinked this one's and created its own.
CloseBundle(j) ==
  /\ NameOf(j) \in DOMAIN files
  /\ Goto(j, "writing", "commit")
  /\ files' = [files EXCEPT ![NameOf(j)].closed = @ \cup (files[NameOf(j)].writers \cap {j})]
  /\ digest' = [digest EXCEPT ![j] = files'[NameOf(j)]]
  /\ UNCHANGED <<variant, jobRows, device, lock, request, links, members, revision>>

\* There is no file to hash: another job has unlinked it.
HashFails(j) ==
  /\ NameOf(j) \notin DOMAIN files
  /\ Goto(j, "writing", "raise")
  /\ UNCHANGED <<variant, jobRows, device, files, lock, request, links, plan>>

\* commit_edge_publish: one transaction on the connection of the lock.
Commit(j) ==
  /\ Goto(j, "commit", "unlock")
  /\ alive[j]
  /\ revision[j] = NextEdgeRevision   \* UNIQUE (device, revision)
  /\ deployed' = [deployed EXCEPT ![OperatorOf[what[j]]] = what[j]]
  /\ bundles' = Append(bundles, [members |-> members[j], digest |-> digest[j]])
  /\ status' = [status EXCEPT ![j] = "READY"]
  /\ result' = [result EXCEPT ![j] = revision[j]]
  /\ variant' = [variant EXCEPT ![what[j]] = "PUBLISHED"]
  /\ UNCHANGED <<files, lock, request, links, plan>>

\* pg_advisory_unlock; the job is over.
Unlock(j) ==
  /\ Goto(j, "unlock", "done")
  /\ alive[j]
  /\ lock' = None
  /\ alive' = [alive EXCEPT ![j] = FALSE]
  /\ UNCHANGED <<variant, jobRows, device, files, request, dropped, plan>>

\* An exception before the commit: a dependency conflict, a missing package of
\* another operator, a full disk, an emit that raises.
StepFails(j) ==
  /\ pc[j] \in {"check", "reuse", "revise", "write", "open", "writing", "commit"}
  /\ pc' = [pc EXCEPT ![j] = "raise"]
  /\ UNCHANGED <<variant, jobRows, device, files, lock, request, links, plan>>

\* A statement on a lost connection raises.
StatementFails(j) ==
  /\ pc[j] \in {"waiting", "check", "reuse", "revise", "commit", "unlock"}
  /\ ~alive[j]
  /\ pc' = [pc EXCEPT ![j] = "failed"]
  /\ UNCHANGED <<variant, jobRows, device, files, lock, request, links, plan>>

\* The lock given back only where the publication succeeds.
MutReleaseLock(j) ==
  /\ Goto(j, "raise", "failed")
  /\ UNCHANGED <<variant, jobRows, device, files, lock, request, links, plan>>

\* The finally clause of edge_publish_lock; on a lost connection it raises too.
ReleaseLock(j) ==
  /\ Goto(j, "raise", "failed")
  /\ lock' = IF alive[j] THEN None ELSE lock
  /\ alive' = [alive EXCEPT ![j] = FALSE]
  /\ UNCHANGED <<variant, jobRows, device, files, request, dropped, plan>>

\* mark_job_failed.
MarkFailed(j) ==
  /\ Goto(j, "failed", "done")
  /\ status' = [status EXCEPT ![j] = "FAILED"]
  /\ variant' = [variant EXCEPT ![what[j]] = IF @ = "PUBLISHED" THEN @ ELSE "FAILED"]
  /\ UNCHANGED <<result, device, files, lock, request, links, plan>>

\* mark_job_failed raises; the executor keeps the exception, and nobody asks for it.
MarkFailedRaises(j) ==
  /\ Drops
  /\ Goto(j, "failed", "stranded")
  /\ UNCHANGED <<variant, jobRows, device, files, lock, request, links, plan>>

\* emit, or the heartbeat thread, which may outlive the job: update_job_progress.
Progress(j) ==
  /\ pc[j] \notin {"out", "compiled", "created", "lost"}
  /\ UpdateProgress(j)
  /\ UNCHANGED <<variant, status, device, files, lock, pc, request, links, plan>>

-----------------------------------------------------------------------------
(***************************************************************************)
(* Faults                                                                  *)
(***************************************************************************)

\* The connection of a job is lost; with it goes the advisory lock.
Drop(j) ==
  /\ Drops
  /\ alive[j]
  /\ alive' = [alive EXCEPT ![j] = FALSE]
  /\ dropped' = dropped \cup {j}
  /\ lock' = IF lock = j THEN None ELSE lock
  /\ UNCHANGED <<variant, jobRows, device, files, pc, request, plan>>

\* The service dies and starts again.  Nothing takes the jobs up again.
Crash ==
  /\ Crashes
  /\ pc' = [j \in Job |-> IF pc[j] \in {"out", "done", "stranded"} THEN pc[j] ELSE "lost"]
  /\ pc' # pc
  /\ alive' = [j \in Job |-> FALSE]
  /\ lock' = None
  /\ UNCHANGED <<variant, jobRows, device, files, request, dropped, plan>>

-----------------------------------------------------------------------------
\* What the thread of a job does, faults aside.
Step(j) ==
  \/ CreateJob(j) \/ Submit(j) \/ Start(j) \/ AcquireLock(j)
  \/ FindReusable(j) \/ MarkReady(j)
  \/ FindStale(j) \/ NextRevision(j)
  \/ Unlink(j) \/ OpenBundle(j) \/ CloseBundle(j) \/ HashFails(j) \/ Commit(j)
  \/ Unlock(j) \/ StatementFails(j) \/ ReleaseLock(j) \/ MarkFailed(j)

\* What it does when something else fails.
Fault(j) ==
  EmitFails(j) \/ StartFails(j) \/ StepFails(j) \/ MarkFailedRaises(j)

Next ==
  \/ \E j \in Job :
       \/ \E v \in Variant, f \in BOOLEAN : Compile(j, v, f)
       \/ Step(j) \/ Fault(j) \/ Progress(j) \/ Drop(j)
  \/ Crash

Spec == Init /\ [][Next]_vars

\* A thread that can go on goes on; a step ends, well or badly.
FairSpec == Spec /\ \A j \in Job : WF_vars(Step(j))

-----------------------------------------------------------------------------
(***************************************************************************)
(* Properties                                                              *)
(***************************************************************************)

\* The latest bundle of a device holds exactly the variants its deployments name:
\* whatever connection is lost, no publication builds on deployments that another
\* has changed since (the comment above edge_publish_lock in _publish_native).
LatestBundleComplete ==
  Deployments = IF bundles = <<>> THEN {} ELSE Last(bundles).members

\* Who polls a job until it is READY is told a bundle that contains the variant it was
\* asked to publish, and that variant stays PUBLISHED, whichever other job of it fails
\* later.
ReadyIsPublished ==
  \A j \in Job :
    Answer(j).status = "READY" =>
      /\ Answer(j).result \in 1 .. Len(bundles)
      /\ what[j] \in bundles[Answer(j).result].members
      /\ variant[what[j]] = "PUBLISHED"

\* Whatever is in the file of a bundle was written by jobs that build what its row
\* says, also when one that has lost its connection, and its lock with it, writes on;
\* and the file is gone only where such a job has unlinked it to write it again.
FilesHoldTheirMembers ==
  \A r \in 1 .. Len(bundles) :
    LET name == FileName(r, bundles[r].members)
    IN IF name \in DOMAIN files
       THEN \A j \in files[name].writers : members[j] = bundles[r].members
       ELSE \E j \in dropped : NameOf(j) = name /\ digest[j] = None

\* A variant that has been published stays so, and the result of a publication is
\* never replaced by a late progress snapshot.
ResultsAreFinal ==
  [][/\ \A v \in Variant : variant[v] = "PUBLISHED" => variant'[v] = "PUBLISHED"
     /\ \A j \in Job : result[j] \in Revisions => result'[j] = result[j]]_vars

\* A job that was created ends READY or FAILED, unless the service dies, or the
\* statement fails that should announce the job or record its failure: then its row
\* stays PENDING or RUNNING, and no thread will ever look at it.
EveryJobEnds ==
  \A j \in Job :
    status[j] = "PENDING" ~> status[j] \in {"READY", "FAILED"} \/ pc[j] \in {"stranded", "lost"}

\* "The advisory lock guarantees that the builds of edge bundles for one target are
\* serialised": what the documentation says of edge_publish_lock.
BuildsSerialised ==
  LET Writing == {j \in Job : pc[j] \in {"write", "open", "writing"}}
  IN Cardinality(Writing) <= 1
=============================================================================
