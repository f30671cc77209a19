----------------------------- MODULE RunnerPublish -----------------------------
(***************************************************************************)
(* The publication of releases for the Runner: the publish jobs of         *)
(* PublishService and LifecyclePublishService, their BuildServiceClient,   *)
(* and the Catalog their releases are saved in.                            *)
(*                                                                         *)
(* The jobs' variants need one runtime environment, which the Build        *)
(* service builds and retires as it likes: RuntimeEnvironment says what it *)
(* may do.  A job asks it to resolve, waits, and then saves its release    *)
(* under the advisory lock of the environment.  An action ends where the   *)
(* code commits, is answered, or has changed the catalog's directory.      *)
(*                                                                         *)
(* Abstractions.  The id of a release is the hash of its content and its   *)
(* image; its archive also depends on the compressor, which an upgrade of  *)
(* the service may change.  assert_active passes or refuses: the gate it   *)
(* reads is in RuntimeCleanup.  A polled answer that is not final changes  *)
(* nothing and is left out.  Progress and heartbeats are in EdgePublish.   *)
(***************************************************************************)
EXTENDS Naturals, FiniteSets

CONSTANTS
  Job,
  Variant,
  VariantOf,  \* the Runner variant of a job
  Image,
  Bits,       \* the bytes an archive of a release may have
  Workers,    \* publish_worker_threads
  Drops,      \* TRUE: the connection that holds the advisory lock may be lost
  Crashes,    \* TRUE: the Publish service may die, be upgraded and start again
  None

ASSUME ConstantsAssumption ==
  /\ VariantOf \in [Job -> Variant]
  /\ None \notin Job \cup Image \cup Bits
  /\ Workers \in Nat \ {0}
  /\ Drops \in BOOLEAN /\ Crashes \in BOOLEAN

Release == Variant \X Image

VARIABLES
  status, life, image,  \* the environment, as in RuntimeEnvironment
  pc,         \* of a job: where its thread is
  answer,     \* of a job: the image of the environment it was answered
  packed,     \* of a job: the digest of its archive
  jobStatus,  \* publish_jobs.status, "none" when there is no row
  ref,        \* backend_variants.published_ref
  lock,       \* the job that holds the advisory lock of PublishRuntimeLifecycle
  made,       \* the releases that have a directory in the catalog
  artifact,   \* of a release: the bits of operator.tar.gz
  metadata,   \* of a release: artifact_sha256 in release.json
  compressor  \* the bits this version of the service packs

env == <<status, life, image>>
job == <<answer, packed, jobStatus, ref>>
catalog == <<made, artifact, metadata>>
vars == <<env, pc, job, lock, catalog, compressor>>

Env == INSTANCE RuntimeEnvironment

Writing == {"artifact", "metadata"}
Saving == {"look", "existing", "mkdir", "confirm"} \cup Writing
Guarded == {"check", "pack", "again", "ready", "unlock", "raise"} \cup Saving
Active == {"resolve", "stream", "wait", "guard", "fail"} \cup Guarded

TypeOK ==
  /\ pc \in [Job -> {"new", "queued", "done", "dead"} \cup Active]
  /\ answer \in [Job -> Image \cup {None}]
  /\ packed \in [Job -> Bits \cup {None}]
  /\ jobStatus \in [Job -> {"none", "PENDING", "RUNNING", "READY", "FAILED"}]
  /\ ref \in [Variant -> Release \cup {None}]
  /\ lock \in Job \cup {None}
  /\ made \subseteq Release
  /\ artifact \in [Release -> Bits \cup {None}]
  /\ metadata \in [Release -> Bits \cup {None}]
  /\ compressor \in Bits
  /\ lock # None => pc[lock] \in Guarded
  /\ \A j \in Job : pc[j] \in Guarded \cup {"guard"} => answer[j] \in Image
  /\ \A r \in Release : artifact[r] # None \/ metadata[r] # None => r \in made

Init ==
  /\ Env!Init
  /\ pc = [j \in Job |-> "new"]
  /\ answer = [j \in Job |-> None]
  /\ packed = [j \in Job |-> None]
  /\ jobStatus = [j \in Job |-> "none"]
  /\ ref = [v \in Variant |-> None]
  /\ lock = None
  /\ made = {}
  /\ artifact = [r \in Release |-> None]
  /\ metadata = [r \in Release |-> None]
  /\ compressor \in Bits

ReleaseOf(j) == <<VariantOf[j], answer[j]>>

Goto(j, from, to) ==
  /\ pc[j] = from
  /\ pc' = [pc EXCEPT ![j] = to]

\* Only the job's place changes.
Move(j, from, to) ==
  /\ Goto(j, from, to)
  /\ UNCHANGED <<env, job, lock, catalog, compressor>>

-----------------------------------------------------------------------------
(***************************************************************************)
(* The job, and what the Build service answers it                          *)
(***************************************************************************)

\* publish_backend: the row, and the place in the executor's queue.
Submit(j) ==
  /\ Goto(j, "new", "queued")
  /\ jobStatus' = [jobStatus EXCEPT ![j] = "PENDING"]
  /\ UNCHANGED <<env, answer, packed, ref, lock, catalog, compressor>>

\* A worker of the executor takes the job: mark_job_running.
Start(j) ==
  /\ Cardinality({k \in Job : pc[k] \in Active}) < Workers
  /\ Goto(j, "queued", "resolve")
  /\ jobStatus' = [jobStatus EXCEPT ![j] = "RUNNING"]
  /\ UNCHANGED <<env, answer, packed, ref, lock, catalog, compressor>>

\* resolve in the Build service: an environment that does not exist, or is
\* RETIRED, is to be built.
Resolve(j) ==
  /\ Goto(j, "resolve", "stream")
  /\ life # "RETIRING"
  /\ \/ Env!Create
     \/ Env!Reactivate
     \/ status # "none" /\ life = "ACTIVE" /\ UNCHANGED env
  /\ UNCHANGED <<job, lock, catalog, compressor>>

\* "exact runtime environment is being retired; retry after cleanup"
ResolveRefused(j) == life = "RETIRING" /\ Move(j, "resolve", "fail")

\* get_for_request has an ACTIVE environment to answer.
Found == status # "none" /\ life = "ACTIVE"

\* The environment as the answer has it; not-found and FAILED raise PublishError.
Terminal(j, from) ==
  /\ UNCHANGED <<env, packed, jobStatus, ref, lock, catalog, compressor>>
  /\ \/ /\ Found /\ status = "READY"
        /\ Goto(j, from, "guard")
        /\ answer' = [answer EXCEPT ![j] = image]
     \/ /\ ~Found \/ status = "FAILED"
        /\ Goto(j, from, "fail")
        /\ UNCHANGED answer

\* _resolve_stream returns the "result" event.
StreamAnswers(j) ==
  \/ Terminal(j, "stream")
  \/ Found /\ status \notin {"READY", "FAILED"} /\ Move(j, "stream", "wait")

\* _wait_until_terminal: a poll that ends it.
Poll(j) == Terminal(j, "wait")

\* Mutant: the loop has no deadline.
MutDeadline(j) == FALSE /\ Move(j, "wait", "fail")

\* "Timed out waiting for Build Service runtime": timeout_seconds are over.
Deadline(j) == Move(j, "wait", "fail")

\* The Build service cannot be reached, dies, or answers an error.
HttpFails(j) == \E w \in {"resolve", "stream", "wait"} : Move(j, w, "fail")

-----------------------------------------------------------------------------
(***************************************************************************)
(* Under the guard: OperatorPublisher.publish and Catalog.save             *)
(***************************************************************************)
Lock(j) ==
  /\ Goto(j, "guard", "check")
  /\ lock = None
  /\ lock' = j
  /\ UNCHANGED <<env, job, catalog, compressor>>

\* assert_active, before and after the publication.
CheckPasses(j) == Move(j, "check", "pack") \/ Move(j, "again", "ready")
CheckRefuses(j) == Move(j, "check", "raise") \/ Move(j, "again", "raise")

\* The staging directory is written, hashed and archived.
Pack(j) ==
  /\ Goto(j, "pack", "look")
  /\ packed' = [packed EXCEPT ![j] = compressor]
  /\ UNCHANGED <<env, answer, jobStatus, ref, lock, catalog, compressor>>

\* The source is gone or invalid, or the archive is larger than 10 MiB.
PackFails(j) == Move(j, "pack", "raise")

\* Mutant: a directory is taken for a release.
MutLook(j) ==
  \/ Move(j, "look", "again") /\ ReleaseOf(j) \in made
  \/ Move(j, "look", "mkdir") /\ ReleaseOf(j) \notin made

Look(j) ==
  \/ Move(j, "look", "existing") /\ ReleaseOf(j) \in made
  \/ Move(j, "look", "mkdir") /\ ReleaseOf(j) \notin made

\* Catalog.get finds both files.
Readable(r) == metadata[r] # None /\ artifact[r] # None

\* Mutant: whatever the release's bits are.
MutSameBits(j) == Readable(ReleaseOf(j))

SameBits(j) == Readable(ReleaseOf(j)) /\ metadata[ReleaseOf(j)] = packed[j]

\* The release exists: the same bits, or RELEASE_NOT_FOUND, ARTIFACT_NOT_FOUND
\* or CATALOG_CONFLICT.
SaveExisting(j) ==
  \/ Move(j, "existing", "again") /\ SameBits(j)
  \/ Move(j, "existing", "raise") /\ ~SameBits(j)

\* Mutant: mkdir(exist_ok=True).
MutMkdir(j) ==
  /\ Goto(j, "mkdir", "artifact")
  /\ made' = made \cup {ReleaseOf(j)}
  /\ UNCHANGED <<env, job, lock, artifact, metadata, compressor>>

Mkdir(j) ==
  /\ Goto(j, "mkdir", "artifact")
  /\ ReleaseOf(j) \notin made
  /\ made' = made \cup {ReleaseOf(j)}
  /\ UNCHANGED <<env, job, lock, artifact, metadata, compressor>>

\* FileExistsError: another job has been faster.
MkdirExists(j) == Move(j, "mkdir", "raise") /\ ReleaseOf(j) \in made

\* The artifact is written to a temporary file and renamed.
PutArtifact(j) ==
  /\ Goto(j, "artifact", "metadata")
  /\ artifact' = [artifact EXCEPT ![ReleaseOf(j)] = packed[j]]
  /\ UNCHANGED <<env, job, lock, made, metadata, compressor>>

PutMetadata(j) ==
  /\ Goto(j, "metadata", "confirm")
  /\ metadata' = [metadata EXCEPT ![ReleaseOf(j)] = packed[j]]
  /\ UNCHANGED <<env, job, lock, made, artifact, compressor>>

\* An error of the file system leaves what has been written.
WriteFails(j) == \E w \in Writing \cup {"mkdir"} : Move(j, w, "raise")

\* save ends with get, which would raise if a file were missing: it never is.
Confirm(j) == Move(j, "confirm", "again") /\ Readable(ReleaseOf(j))

\* mark_job_ready: the job and its variant in one transaction.
MarkReady(j) ==
  /\ Goto(j, "ready", "unlock")
  /\ jobStatus' = [jobStatus EXCEPT ![j] = "READY"]
  /\ ref' = [ref EXCEPT ![VariantOf[j]] = ReleaseOf(j)]
  /\ UNCHANGED <<env, answer, packed, lock, catalog, compressor>>

\* The finally clause of guard: on a lost connection it raises itself.
Unlock(j) ==
  /\ \/ lock = j /\ Goto(j, "unlock", "done")
     \/ lock # j /\ Goto(j, "unlock", "fail")
     \/ Goto(j, "raise", "fail")
  /\ lock' = IF lock = j THEN None ELSE lock
  /\ UNCHANGED <<env, job, catalog, compressor>>

\* mark_job_failed: a variant that is PUBLISHED stays so.
MarkFailed(j) ==
  /\ Goto(j, "fail", "done")
  /\ jobStatus' = [jobStatus EXCEPT ![j] = "FAILED"]
  /\ UNCHANGED <<env, answer, packed, ref, lock, catalog, compressor>>

-----------------------------------------------------------------------------
(***************************************************************************)
(* The environment of the service                                          *)
(***************************************************************************)

\* The session that holds the lock ends; its job goes on.
Drop ==
  /\ Drops
  /\ lock # None
  /\ lock' = None
  /\ UNCHANGED <<env, pc, job, catalog, compressor>>

\* Threads and sessions end, rows and files stay.
Crash ==
  /\ Crashes
  /\ pc' = [j \in Job |-> IF pc[j] \in {"new", "done"} THEN pc[j] ELSE "dead"]
  /\ lock' = None
  /\ compressor' \in Bits
  /\ UNCHANGED <<env, job, catalog>>

\* The Build service, on its own or for others.
Elsewhere == Env!Next /\ UNCHANGED <<pc, job, lock, catalog, compressor>>

Step(j) ==
  \/ Resolve(j) \/ ResolveRefused(j) \/ StreamAnswers(j) \/ Poll(j) \/ Deadline(j)
  \/ Lock(j) \/ CheckPasses(j) \/ Pack(j) \/ Look(j) \/ SaveExisting(j)
  \/ Mkdir(j) \/ MkdirExists(j) \/ PutArtifact(j) \/ PutMetadata(j) \/ Confirm(j)
  \/ MarkReady(j) \/ Unlock(j) \/ MarkFailed(j)

Fails(j) == HttpFails(j) \/ CheckRefuses(j) \/ PackFails(j) \/ WriteFails(j)

Next ==
  \/ \E j \in Job : Submit(j) \/ Start(j) \/ Step(j) \/ Fails(j)
  \/ Drop \/ Crash \/ Elsewhere

\* Workers take jobs and run, and what they call returns.  Nobody has to submit,
\* nothing has to fail, and the Build service never has to finish a build.
Fairness == \A j \in Job : WF_vars(Start(j)) /\ WF_vars(Step(j))

Spec == Init /\ [][Next]_vars /\ Fairness

-----------------------------------------------------------------------------
\* A variant that is published refers to a release the Runner can read and
\* whose artifact has the digest its metadata states, whichever attempts at
\* that release have failed or died half-way.
PublishedIsReadable ==
  \A v \in Variant : ref[v] # None =>
    Readable(ref[v]) /\ artifact[ref[v]] = metadata[ref[v]]

\* A READY job stands for the bits it packed: its release holds these, and not
\* those of an earlier attempt under the same id.
JobPublishedItsBits ==
  \A j \in Job : jobStatus[j] = "READY" => artifact[ReleaseOf(j)] = packed[j]

\* No two jobs write into one release, also when the advisory lock is lost.
OneWriter ==
  \A j, k \in Job :
    j # k /\ pc[j] \in Writing /\ pc[k] \in Writing => ReleaseOf(j) # ReleaseOf(k)

\* Every job that has been accepted ends, although its environment may be
\* claimed for ever by a Build service that died: it never waits for good.
EveryJobEnds == \A j \in Job : pc[j] = "queued" ~> pc[j] \in {"done", "dead"}
===============================================================================
