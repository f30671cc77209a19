--------------------------- MODULE RuntimeCleanup ---------------------------
(***************************************************************************)
(* The cleanup of one runtime environment across the services:             *)
(* CleanupCoordinator (web/admin/cleanup.py) calls, over HTTP, the Build   *)
(* service that owns the environment and its image, the Publish service    *)
(* with its gate (runtime_lifecycle.py) and the Runner with its own, while *)
(* operators are published on the environment and run from its images.     *)
(*                                                                         *)
(* A call that is answered is one step of its owner; a call that times out *)
(* stays with its owner, who performs it later or never.  The deletion is  *)
(* served in three steps, and goes on when its caller has given up.        *)
(*                                                                         *)
(* Abstractions.  The environment is built, and rebuilt once it is RETIRED *)
(* (RuntimeBuild has the build), with an image of its own each time.  The  *)
(* Runner is its gate and what runs from each image: RuntimeRetirement has *)
(* how it finds out.  Journals change nothing and are left out; so is the  *)
(* check of the request, which is still DRAFT after execute.               *)
(***************************************************************************)
EXTENDS FiniteSets

CONSTANTS
  Exec,       \* threads that may execute the cleanup request
  Publisher,  \* threads of the publish executor, each with a Runner variant
  Image,
  First,      \* the image the environment was built with first
  LostCalls,  \* the calls that may time out
  Drops,      \* TRUE: the connection that holds the advisory lock may break
  None

Calls == {"build.retire", "publish.retire", "runner.retire", "delete",
          "runner.finalize", "publish.finalize",
          "runner.cancel", "publish.cancel", "build.cancel"}

ASSUME ConstantsAssumption ==
  /\ LostCalls \subseteq Calls
  /\ Drops \in BOOLEAN
  /\ First \in Image
  /\ None \notin Image \cup Publisher

VARIABLES
  life,       \* lifecycle_state of the environment, in the Build service
  image,      \* its image_ref
  registry,   \* the images in Harbor
  gate,       \* publish.runner_runtime_lifecycle: "open" when there is no row
  lock,       \* who holds the advisory lock of PublishRuntimeLifecycle.guard
  published,  \* the images current published Runner variants refer to
  catalog,    \* the images releases in the catalog refer to
  job,        \* of a publisher: where its job is
  runtime,    \* of a publisher: the image resolve gave it
  runner,     \* runner.runtime_image_lifecycle, of each image
  running,    \* the images something runs from
  xpc,        \* of an execution: the call it makes next, or waits for
  ref,        \* of an execution: image_ref
  found,      \* of an execution: the lifecycle state build.retire answered
  started,    \* of an execution: gates_started
  serving,    \* of a deletion in the Build service: where it is
  late,       \* calls nobody waits for any more, with their image_ref
  abandoned,  \* auxiliary: the images whose deletion has timed out
  behind      \* auxiliary: TRUE once a variant was recorded behind the closed gate
              \* of the Publish service, until the environment is built again

Guarded == {"guarded", "released", "checked"}

build == <<life, image, registry>>
pub == <<gate, lock, published, catalog, job, runtime, behind>>
run == <<runner, running>>
coord == <<ref, found, started>>
gone == <<late, abandoned>>
vars == <<build, pub, run, xpc, coord, serving, gone>>

TypeOK ==
  /\ life \in {"ACTIVE", "RETIRING", "RETIRED"}
  /\ image \in Image
  /\ registry \subseteq Image
  /\ gate \in {"open", "RETIRING", "RETIRED"}
  /\ lock \in Publisher \cup {None}
  /\ published \subseteq catalog /\ catalog \subseteq Image
  /\ job \in [Publisher -> {"out", "resolved", "guarded", "released", "checked"}]
  /\ runtime \in [Publisher -> Image \cup {None}]
  /\ runner \in [Image -> {"ACTIVE", "RETIRING", "RETIRED"}]
  /\ running \subseteq Image
  /\ xpc \in [Exec -> Calls \cup {"out", "preview", "plan", "await"}]
  /\ ref \in [Exec -> Image \cup {None}]
  /\ found \in [Exec -> {"none", "RETIRING", "RETIRED"}]
  /\ started \in [Exec -> SUBSET {"build", "publish", "runner"}]
  /\ serving \in [Exec -> {"idle", "harbor", "finalize"}]
  /\ late \subseteq Calls \X Image
  /\ abandoned \subseteq Image
  /\ behind \in BOOLEAN
  /\ \A p \in Publisher : lock = p => job[p] \in Guarded
  /\ \A p \in Publisher : job[p] # "out" <=> runtime[p] # None
  /\ \A x \in Exec : xpc[x] \in Calls \cup {"await"} \/ serving[x] # "idle" => ref[x] # None

Init ==
  /\ life = "ACTIVE"
  /\ image = First
  /\ registry = {First}
  /\ gate = "open"
  /\ lock = None
  /\ published = {}
  /\ catalog = {}
  /\ job = [p \in Publisher |-> "out"]
  /\ runtime = [p \in Publisher |-> None]
  /\ runner = [i \in Image |-> "ACTIVE"]
  /\ running = {}
  /\ xpc = [x \in Exec |-> "out"]
  /\ ref = [x \in Exec |-> None]
  /\ found = [x \in Exec |-> "none"]
  /\ started = [x \in Exec |-> {}]
  /\ serving = [x \in Exec |-> "idle"]
  /\ late = {}
  /\ abandoned = {}
  /\ behind = FALSE

-----------------------------------------------------------------------------
(***************************************************************************)
(* What the owners do.  The Publish service serves a call under the        *)
(* advisory lock, and so after the publication that holds it.              *)
(***************************************************************************)
Free == lock = None

BuildRetire == life' = IF life = "ACTIVE" THEN "RETIRING" ELSE life
BuildCancel == life' = IF life = "RETIRING" THEN "ACTIVE" ELSE life

PublishBegin == Free /\ gate' = IF gate = "open" THEN "RETIRING" ELSE gate

PublishCancel == Free /\ gate' = IF gate = "RETIRING" THEN "open" ELSE gate
PublishFinalize == Free /\ gate' = IF gate = "open" THEN gate ELSE "RETIRED"

RunnerBegin(i) == runner' = [runner EXCEPT ![i] = IF @ = "ACTIVE" THEN "RETIRING" ELSE @]
RunnerCancel(i) == runner' = [runner EXCEPT ![i] = IF @ = "RETIRING" THEN "ACTIVE" ELSE @]

\* safeForArtifactDeletion.
Safe(i) == runner[i] = "RETIRING" /\ i \notin running

RunnerFinalize(i) ==
  runner' = [runner EXCEPT ![i] = IF Safe(i) THEN "RETIRED" ELSE @]

\* The effect of any call but the deletion, with the image_ref it names.
Perform(call, i) ==
  \/ /\ \/ call = "build.retire" /\ BuildRetire
        \/ call = "build.cancel" /\ BuildCancel
     /\ UNCHANGED <<gate, runner>>
  \/ /\ \/ call = "publish.retire" /\ PublishBegin
        \/ call = "publish.cancel" /\ PublishCancel
        \/ call = "publish.finalize" /\ PublishFinalize
     /\ UNCHANGED <<life, runner>>
  \/ /\ \/ call = "runner.retire" /\ RunnerBegin(i)
        \/ call = "runner.cancel" /\ RunnerCancel(i)
        \/ call = "runner.finalize" /\ RunnerFinalize(i)
     /\ UNCHANGED <<life, gate>>

Others ==
  <<image, registry, lock, published, catalog, job, runtime, behind, running, serving>>

-----------------------------------------------------------------------------
(***************************************************************************)
(* CleanupCoordinator.execute                                              *)
(***************************************************************************)

Call(x, call, to) ==
  /\ xpc[x] = call
  /\ Perform(call, ref[x])
  /\ xpc' = [xpc EXCEPT ![x] = to]
  /\ UNCHANGED <<Others, ref, gone>>

\* execute has returned, or raised.
Over(x) ==
  /\ xpc' = [xpc EXCEPT ![x] = "out"]
  /\ found' = [found EXCEPT ![x] = "none"]
  /\ started' = [started EXCEPT ![x] = {}]
  /\ ref' = [ref EXCEPT ![x] = IF serving[x] = "idle" THEN None ELSE @]

\* Where _rollback begins and goes on, with the gates in g still to reopen.
Undo(g) ==
  IF "runner" \in g THEN "runner.cancel"
  ELSE IF "publish" \in g THEN "publish.cancel"
  ELSE IF "build" \in g THEN "build.cancel"
  ELSE "out"

\* A call has raised: _rollback, unless the artifact is deleted.
Rollback(x, g) ==
  IF g = {} THEN Over(x)
  ELSE /\ xpc' = [xpc EXCEPT ![x] = Undo(g)]
       /\ started' = [started EXCEPT ![x] = g]
       /\ UNCHANGED <<ref, found>>

Enter(x, from, to) ==
  /\ xpc[x] = from
  /\ xpc' = [xpc EXCEPT ![x] = to]

\* The request is DRAFT, as it stays for good.
Start(x) ==
  /\ Enter(x, "out", "preview")
  /\ serving[x] = "idle"
  /\ UNCHANGED <<build, pub, run, coord, serving, gone>>

\* The fresh preflight reads the tables of the services: no current published
\* variant refers to the environment.  The gates are closed only later.
PreviewPasses(x) ==
  /\ Enter(x, "preview", "plan")
  /\ published = {}
  /\ UNCHANGED <<build, pub, run, coord, serving, gone>>

\* The plan of the Build service names the image.
PlanPasses(x) ==
  /\ Enter(x, "plan", "build.retire")
  /\ ref' = [ref EXCEPT ![x] = image]
  /\ UNCHANGED <<build, pub, run, found, started, serving, gone>>

\* BLOCKED or FAILED: a reference, a table or a service that cannot be read.
Blocked(x) ==
  /\ xpc[x] \in {"preview", "plan"}
  /\ Over(x)
  /\ UNCHANGED <<build, pub, run, serving, gone>>

RetireBuild(x) ==
  /\ Call(x, "build.retire", "publish.retire")
  /\ found' = [found EXCEPT ![x] = life']
  /\ started' = [started EXCEPT ![x] = {"build"}]

\* safeForRetirement: no current variant refers to any image of the environment.
PublishIsSafe == gate' = "RETIRING" /\ published = {}

\* Mutant: the references are not looked at.
MutRetirePublish(x) ==
  /\ Call(x, "publish.retire", "runner.retire")
  /\ started' = [started EXCEPT ![x] = @ \cup {"publish"}]
  /\ UNCHANGED found

RetirePublish(x) ==
  /\ Call(x, "publish.retire",
          IF PublishIsSafe THEN "runner.retire" ELSE Undo({"build", "publish"}))
  /\ started' = [started EXCEPT ![x] = @ \cup {"publish"}]
  /\ UNCHANGED found

\* Mutant: the answer of the Runner is taken for granted.
MutRetireRunner(x) ==
  /\ Call(x, "runner.retire",
          IF found[x] # "RETIRED" THEN "delete" ELSE "runner.finalize")
  /\ started' = [started EXCEPT ![x] = @ \cup {"runner"}]
  /\ UNCHANGED found

RetireRunner(x) ==
  /\ Call(x, "runner.retire",
          IF found[x] # "RETIRED" THEN "delete" ELSE "runner.finalize")
  /\ runner'[ref[x]] = "RETIRING" /\ ref[x] \notin running
  /\ started' = [started EXCEPT ![x] = @ \cup {"runner"}]
  /\ UNCHANGED found

\* WAITING: "runtime is gated; wait for active work/sandboxes to drain".
RunnerNotDrained(x) ==
  /\ xpc[x] = "runner.retire"
  /\ Perform("runner.retire", ref[x])
  /\ ~(runner'[ref[x]] = "RETIRING" /\ ref[x] \notin running)
  /\ Over(x)
  /\ UNCHANGED <<Others, gone>>

\* build_delete_artifact: accepted, or 409.
AskDeletion(x) ==
  /\ xpc[x] = "delete"
  /\ life = "RETIRING" /\ image = ref[x]
  /\ xpc' = [xpc EXCEPT ![x] = "await"]
  /\ serving' = [serving EXCEPT ![x] = "harbor"]
  /\ UNCHANGED <<build, pub, run, coord, gone>>

DeletionRefused(x) ==
  /\ xpc[x] = "delete"
  /\ ~(life = "RETIRING" /\ image = ref[x])
  /\ Rollback(x, started[x])
  /\ UNCHANGED <<build, pub, run, serving, gone>>

\* Mutant: a failure of the finalization rolls back as well.
MutFinalizeRunnerRefused(x) ==
  /\ xpc[x] = "runner.finalize"
  /\ Rollback(x, started[x])
  /\ UNCHANGED <<build, pub, run, serving, gone>>

FinalizeRunner(x) ==
  /\ Call(x, "runner.finalize", "publish.finalize")
  /\ Safe(ref[x])
  /\ UNCHANGED <<found, started>>

\* The Runner finds it unsafe after all, or fails: PARTIAL, "lifecycle gates
\* intentionally remain closed".
FinalizeRunnerRefused(x) ==
  /\ xpc[x] = "runner.finalize"
  /\ Over(x)
  /\ UNCHANGED <<build, pub, run, serving, gone>>

FinalizePublish(x) ==
  /\ xpc[x] = "publish.finalize"
  /\ Perform("publish.finalize", ref[x])
  /\ Over(x)
  /\ UNCHANGED <<Others, gone>>

\* _rollback: each gate in turn; an error is noted and forgotten.
UndoGate(x) ==
  /\ \E c \in {<<"runner.cancel", "runner">>, <<"publish.cancel", "publish">>,
               <<"build.cancel", "build">>} :
       /\ xpc[x] = c[1]
       /\ Perform(c[1], ref[x])
       /\ Rollback(x, started[x] \ {c[2]})
  /\ UNCHANGED <<Others, gone>>

\* LifecycleUnavailable: the owner keeps the call, the execution rolls back
\* unless the deletion was answered.
CallLost(x) ==
  /\ xpc[x] \in LostCalls
  /\ late' = late \cup {<<xpc[x], ref[x]>>}
  /\ CASE xpc[x] \in {"runner.finalize", "publish.finalize"} -> Over(x)
       [] xpc[x] = "runner.cancel" -> Rollback(x, started[x] \ {"runner"})
       [] xpc[x] = "publish.cancel" -> Rollback(x, started[x] \ {"publish"})
       [] xpc[x] = "build.cancel" -> Over(x)
       [] OTHER -> Rollback(x, started[x])
  /\ UNCHANGED <<build, pub, run, serving, abandoned>>

DeletionLost(x) ==
  /\ xpc[x] = "await"
  /\ "delete" \in LostCalls
  /\ Rollback(x, started[x])
  /\ abandoned' = abandoned \cup {ref[x]}
  /\ UNCHANGED <<build, pub, run, serving, late>>

LateCall(c) ==
  /\ c \in late
  /\ late' = late \ {c}
  /\ \/ Perform(c[1], c[2])
     \/ UNCHANGED <<life, gate, runner>>
  /\ UNCHANGED <<Others, xpc, coord, abandoned>>

-----------------------------------------------------------------------------
(***************************************************************************)
(* BuildLifecycle.delete_artifact, after its checks.                       *)
(***************************************************************************)
HarborDeletes(x) ==
  /\ serving[x] = "harbor"
  /\ serving' = [serving EXCEPT ![x] = "finalize"]
  /\ registry' = registry \ {ref[x]}
  /\ UNCHANGED <<life, image, pub, run, xpc, coord, gone>>

\* HarborError; a deletion that times out may have taken effect.
HarborFails(x) ==
  /\ serving[x] = "harbor"
  /\ serving' = [serving EXCEPT ![x] = "idle"]
  /\ registry' \in {registry} \cup
       IF "delete" \in LostCalls THEN {registry \ {ref[x]}} ELSE {}
  /\ abandoned' = abandoned \cup (registry \ registry')
  /\ IF xpc[x] = "await" THEN Rollback(x, started[x]) ELSE UNCHANGED <<xpc, coord>>
  /\ UNCHANGED <<life, image, pub, run, late>>

FinalizeBuild(x) ==
  /\ serving[x] = "finalize"
  /\ serving' = [serving EXCEPT ![x] = "idle"]
  /\ life' = IF life = "RETIRING" THEN "RETIRED" ELSE life
  /\ xpc' = [xpc EXCEPT ![x] = IF @ = "await" THEN "runner.finalize" ELSE @]
  /\ UNCHANGED <<image, registry, pub, run, coord, gone>>

\* A later resolve reactivates and rebuilds the environment.
Rebuild(i) ==
  /\ life = "RETIRED"
  /\ i \notin registry \cup catalog \cup running \cup {image}
  /\ runner[i] = "ACTIVE"
  /\ \A x \in Exec : ref[x] # i
  /\ \A p \in Publisher : runtime[p] # i
  /\ \A c \in late : c[2] # i
  /\ life' = "ACTIVE"
  /\ image' = i
  /\ registry' = registry \cup {i}
  /\ abandoned' = abandoned \ {i}
  /\ behind' = FALSE
  /\ UNCHANGED <<gate, lock, published, catalog, job, runtime, run, xpc, coord, serving, late>>

-----------------------------------------------------------------------------
(***************************************************************************)
(* LifecyclePublishService._publish_runner_transactional.                  *)
(***************************************************************************)
Job(p, from, to) ==
  /\ job[p] = from
  /\ job' = [job EXCEPT ![p] = to]

\* resolve answers READY, with the image.
Resolve(p) ==
  /\ Job(p, "out", "resolved")
  /\ life = "ACTIVE"
  /\ runtime' = [runtime EXCEPT ![p] = image]
  /\ UNCHANGED <<build, gate, lock, published, catalog, behind, run, xpc, coord, serving, gone>>

Guard(p) ==
  /\ Job(p, "resolved", "guarded")
  /\ Free /\ gate = "open"
  /\ lock' = p
  /\ UNCHANGED <<build, gate, published, catalog, runtime, behind, run, xpc, coord, serving, gone>>

\* RUNTIME_RETIRING.
GuardRefuses(p) ==
  /\ Job(p, "resolved", "out")
  /\ Free /\ gate # "open"
  /\ runtime' = [runtime EXCEPT ![p] = None]
  /\ UNCHANGED <<build, gate, lock, published, catalog, behind, run, xpc, coord, serving, gone>>

\* publisher.publish: the release is in the catalog.
Release(p) ==
  /\ Job(p, "guarded", "released")
  /\ catalog' = catalog \cup {runtime[p]}
  /\ UNCHANGED <<build, gate, lock, published, runtime, behind, run, xpc, coord, serving, gone>>

\* The connection of guard breaks: the database releases the lock, and the job
\* goes on without it.
Drop(p) ==
  /\ Drops
  /\ lock = p
  /\ lock' = None
  /\ UNCHANGED <<build, gate, published, catalog, job, runtime, behind, run, xpc, coord,
                 serving, gone>>

\* The second assert_active, on a connection of its own.
AssertActive(p) ==
  /\ Job(p, "released", "checked")
  /\ gate = "open"
  /\ UNCHANGED <<build, gate, lock, published, catalog, runtime, behind, run, xpc, coord,
                 serving, gone>>

\* The job is over, and with it the lock, if it still has it.
Unlock(p) ==
  /\ lock' = IF lock = p THEN None ELSE lock
  /\ runtime' = [runtime EXCEPT ![p] = None]

\* mark_job_ready, on another, which does not look at the gate.
MarkJobReady(p) ==
  /\ Job(p, "checked", "out")
  /\ published' = published \cup {runtime[p]}
  /\ behind' = (behind \/ gate # "open")
  /\ Unlock(p)
  /\ UNCHANGED <<build, gate, catalog, run, xpc, coord, serving, gone>>

\* Mutant: the lock stays with a publication that failed.
MutPublishFails(p) ==
  /\ job[p] \in Guarded
  /\ job' = [job EXCEPT ![p] = "out"]
  /\ runtime' = [runtime EXCEPT ![p] = None]
  /\ UNCHANGED <<build, gate, lock, published, catalog, behind, run, xpc, coord, serving, gone>>

\* An exception, or the death of the process: the lock is released all the same.
PublishFails(p) ==
  /\ job[p] \in Guarded
  /\ job' = [job EXCEPT ![p] = "out"]
  /\ Unlock(p)
  /\ UNCHANGED <<build, gate, published, catalog, behind, run, xpc, coord, serving, gone>>

\* A new contract version of the operator: the old one is no longer current.
Supersede(i) ==
  /\ i \in published
  /\ published' = published \ {i}
  /\ UNCHANGED <<build, gate, lock, catalog, job, runtime, behind, run, xpc, coord, serving, gone>>

-----------------------------------------------------------------------------
\* An invocation of a release of the image passes the gate of the Runner.
RunStarts(i) ==
  /\ runner[i] = "ACTIVE"
  /\ i \in catalog
  /\ running' = running \cup {i}
  /\ UNCHANGED <<build, pub, runner, xpc, coord, serving, gone>>

RunEnds(i) ==
  /\ i \in running
  /\ running' = running \ {i}
  /\ UNCHANGED <<build, pub, runner, xpc, coord, serving, gone>>

-----------------------------------------------------------------------------
Execute(x) ==
  \/ PreviewPasses(x) \/ PlanPasses(x) \/ Blocked(x)
  \/ RetireBuild(x) \/ RetirePublish(x) \/ RetireRunner(x) \/ RunnerNotDrained(x)
  \/ AskDeletion(x) \/ DeletionRefused(x)
  \/ FinalizeRunner(x) \/ FinalizeRunnerRefused(x) \/ FinalizePublish(x)
  \/ UndoGate(x)
  \/ HarborDeletes(x) \/ HarborFails(x) \/ FinalizeBuild(x)

Publish(p) ==
  \/ Guard(p) \/ GuardRefuses(p) \/ Release(p)
  \/ AssertActive(p) \/ MarkJobReady(p) \/ PublishFails(p)

Next ==
  \/ \E x \in Exec : Start(x) \/ Execute(x) \/ CallLost(x) \/ DeletionLost(x)
  \/ \E c \in Calls \X Image : LateCall(c)
  \/ \E p \in Publisher : Resolve(p) \/ Publish(p) \/ Drop(p)
  \/ \E i \in Image : Rebuild(i) \/ Supersede(i) \/ RunStarts(i) \/ RunEnds(i)

Spec == Init /\ [][Next]_vars

(***************************************************************************)
(* A thread goes on, and the lock is granted in the end; nothing is assumed *)
(* of new executions and publications, late calls or invocations.          *)
(***************************************************************************)
FairSpec ==
  /\ Spec
  /\ \A x \in Exec : SF_vars(Execute(x))
  /\ \A p \in Publisher : SF_vars(Publish(p))

-----------------------------------------------------------------------------
\* "artifact deletion succeeded but finalization failed; lifecycle gates
\* intentionally remain closed": no environment is handed out, published on or
\* run from when its image has been deleted, however the execution ended.
DeletedStaysClosed ==
  image \notin registry =>
    life # "ACTIVE" /\ gate # "open" /\ runner[image] # "ACTIVE"

\* The same while Harbor answers in time.  A deletion that times out leaves an
\* image the coordinator knows nothing of, and a variant recorded behind the gate
\* by a job that had lost the lock makes the next execution reopen it; neither may
\* cost a later image its gates.
GatesStayClosed == image \notin abandoned /\ ~behind => DeletedStaysClosed

\* The race the advisory lock closes, "the publish-vs-delete race": a current
\* published variant that refers to the image of the environment refers to an
\* image that exists, unless its deletion timed out, or the variant was recorded
\* after the gate had closed, by a job that had lost the lock.
PublishedImageExists == image \in published \ abandoned /\ ~behind => image \in registry

\* The same without the lock as an excuse: see the README.
NoVariantDangles == image \in published \ abandoned => image \in registry

\* A variant is recorded behind a closed gate only when a lock has been lost.
LockKeepsOut == behind => Drops

\* Nothing runs from the image of the environment once it has been deleted,
\* unless the deletion timed out.
RunningImageExists == image \in running \ abandoned => image \in registry

\* "retry after cleanup" (lifecycle_service.py): once a cleaned environment is
\* ACTIVE again and nothing is under way, operators can be published on it.
ActiveMeansOpen ==
  /\ life = "ACTIVE"
  /\ late = {}
  /\ \A x \in Exec : xpc[x] = "out" /\ serving[x] = "idle"
  => gate = "open"

\* Every execution ends: a publication that holds the lock, or a Runner that
\* still works, delays it but never keeps it for ever.
EveryExecutionEnds == \A x \in Exec : xpc[x] # "out" ~> xpc[x] = "out"
=============================================================================
