---------------------------- MODULE RuntimeBuild ----------------------------
(***************************************************************************)
(* The Build service: BuildService.resolve, retry and _build (service.py)  *)
(* over the rows of LifecycleBuildStore, and the retirement of an          *)
(* environment with the deletion of its image (lifecycle.py, harbor.py).   *)
(*                                                                         *)
(* Requests are the HTTP threads that resolve or retry, admins the ones    *)
(* that delete an artifact.  An action ends where the code commits a       *)
(* transaction or has called docker or Harbor; bind_request, which reads   *)
(* and then inserts at READ COMMITTED, is two steps.  A deletion whose     *)
(* answer is lost may be performed at any later time.                      *)
(*                                                                         *)
(* Abstractions.  A requirements lock is the key of its exact environment; *)
(* Superset says whose packages contain whose.  An image is its digest,    *)
(* never built twice.  A pushed image and the VERIFYING mark are one step. *)
(* The plan that precedes begin_retirement only repeats the conditions of  *)
(* its UPDATE and is left out, as are answers that change nothing.         *)
(***************************************************************************)
EXTENDS Naturals, FiniteSets

CONSTANTS
  Key,        \* env_keys: each names a lock and its exact environment
  Superset,   \* the pairs <<e, k>> where e has every package of k, and more
  Request,
  Admin,
  Image,
  Retries,    \* TRUE: retry may be called
  Crashes,    \* TRUE: the service may die and start again
  MaxFaults,  \* how often a call of the store may raise where nobody repairs it
  None

ASSUME ConstantsAssumption ==
  /\ Superset \subseteq Key \X Key
  /\ None \notin Key \cup Image \cup Request
  /\ Retries \in BOOLEAN /\ Crashes \in BOOLEAN /\ MaxFaults \in Nat

VARIABLES
  status,     \* runtime_environments.status, "none" when there is no row
  life,       \* runtime_environments.lifecycle_state
  image,      \* runtime_environments.image_ref
  alias,      \* runtime_env_aliases: the environment a key resolves to
  jobs,       \* build_jobs BUILDING or VERIFYING, by the request that will end
              \* them; None when nobody will
  registry,   \* the images that exist in Harbor
  pc,         \* of a request: where it is
  want,       \* of a request: its key
  target,     \* of a request: the environment it works on
  seen,       \* of a request: the status its environment had when it was read
  built,      \* of a request: the image it pushed
  at,         \* of an admin: where its deletion is
  victim,     \* of an admin: the environment it deletes the artifact of
  doomed,     \* of an admin: the image it will delete
  faults,     \* how often a call of the store has raised so
  doubtful,   \* history: environments with an image whose deletion failed, was cut
              \* short, or was under way when their retirement was cancelled
  disturbed   \* history: environments a failure of an earlier build was written
              \* to while they were being built again, until that is over

rows == <<status, life, image>>
local == <<want, target, seen, built>>
admins == <<at, victim, doomed>>
history == <<faults, doubtful, disturbed>>
vars == <<rows, alias, jobs, registry, pc, local, admins, history>>

Preparing == {"PENDING", "BUILDING", "VERIFYING"}
Resolving == {"superset", "exact", "reactivate", "bind", "insert"}
Building == {"build", "verify", "failing"}

TypeOK ==
  /\ status \in [Key -> {"none", "READY", "FAILED"} \cup Preparing]
  /\ life \in [Key -> {"ACTIVE", "RETIRING", "RETIRED"}]
  /\ image \in [Key -> Image \cup {None}]
  /\ alias \in [Key -> Key \cup {None}]
  /\ jobs \in [Key -> SUBSET (Request \cup {None})]
  /\ registry \subseteq Image
  /\ pc \in [Request -> {"out", "reset", "claim", "late"} \cup Resolving \cup Building]
  /\ want \in [Request -> Key \cup {None}]
  /\ target \in [Request -> Key \cup {None}]
  /\ seen \in [Request -> {"none", "READY", "FAILED"} \cup Preparing]
  /\ built \in [Request -> Image \cup {None}]
  /\ at \in [Admin -> {"out", "harbor", "finalize"}]
  /\ victim \in [Admin -> Key \cup {None}]
  /\ doomed \in [Admin -> Image \cup {None}]
  /\ faults \in 0..MaxFaults
  /\ doubtful \subseteq Key
  /\ disturbed \subseteq Key
  /\ \A r \in Request :
       /\ pc[r] \in Resolving => want[r] \in Key
       /\ pc[r] \in Building \cup {"reactivate", "bind", "insert", "reset", "claim", "late"}
            => target[r] \in Key
       /\ pc[r] = "verify" => built[r] \in Image
  /\ \A a \in Admin : at[a] # "out" => victim[a] \in Key /\ doomed[a] \in Image

Init ==
  /\ status = [k \in Key |-> "none"]
  /\ life = [k \in Key |-> "ACTIVE"]
  /\ image = [k \in Key |-> None]
  /\ alias = [k \in Key |-> None]
  /\ jobs = [k \in Key |-> {}]
  /\ registry = {}
  /\ pc = [r \in Request |-> "out"]
  /\ want = [r \in Request |-> None]
  /\ target = [r \in Request |-> None]
  /\ seen = [r \in Request |-> "none"]
  /\ built = [r \in Request |-> None]
  /\ at = [a \in Admin |-> "out"]
  /\ victim = [a \in Admin |-> None]
  /\ doomed = [a \in Admin |-> None]
  /\ faults = 0
  /\ doubtful = {}
  /\ disturbed = {}

OneMoreFault == faults < MaxFaults /\ faults' = faults + 1

Goto(r, from, to) ==
  /\ pc[r] = from
  /\ pc' = [pc EXCEPT ![r] = to]

\* The request has its answer.
Done(r, from) ==
  /\ Goto(r, from, "out")
  /\ want' = [want EXCEPT ![r] = None]
  /\ target' = [target EXCEPT ![r] = None]
  /\ seen' = [seen EXCEPT ![r] = "none"]
  /\ built' = [built EXCEPT ![r] = None]

DeletionOver(a, from) ==
  /\ at[a] = from
  /\ at' = [at EXCEPT ![a] = "out"]
  /\ victim' = [victim EXCEPT ![a] = None]
  /\ doomed' = [doomed EXCEPT ![a] = None]

\* get_for_request finds a row for key k: its alias names an ACTIVE environment.
Found(k) == alias[k] # None /\ life[alias[k]] = "ACTIVE"

\* A digest that nothing in the system knows.
Fresh(i) ==
  /\ i \notin registry
  /\ \A k \in Key : image[k] # i
  /\ \A r \in Request : built[r] # i
  /\ \A a \in Admin : doomed[a] # i

-----------------------------------------------------------------------------
(***************************************************************************)
(* resolve                                                                 *)
(***************************************************************************)

\* get_for_request answers; a PENDING environment is the request's to build.
ResolveHit(r, k) ==
  /\ Found(k)
  /\ status[alias[k]] = "PENDING"
  /\ Goto(r, "out", "claim")
  /\ target' = [target EXCEPT ![r] = alias[k]]
  /\ UNCHANGED <<rows, alias, jobs, registry, want, seen, built, admins, history>>

ResolveMiss(r, k) ==
  /\ ~Found(k)
  /\ Goto(r, "out", "superset")
  /\ want' = [want EXCEPT ![r] = k]
  /\ UNCHANGED <<rows, alias, jobs, registry, target, seen, built, admins, history>>

\* Environments find_smallest_superset may return: READY, ACTIVE, with all the
\* packages, and none of them a superset of another.
Compatible(k) ==
  {e \in Key : status[e] = "READY" /\ life[e] = "ACTIVE" /\ (e = k \/ <<e, k>> \in Superset)}

ReuseSuperset(r) ==
  /\ Goto(r, "superset", "bind")
  /\ \E e \in Compatible(want[r]) :
       /\ \A f \in Compatible(want[r]) : <<e, f>> \notin Superset
       /\ target' = [target EXCEPT ![r] = e]
  /\ seen' = [seen EXCEPT ![r] = "READY"]
  /\ UNCHANGED <<rows, alias, jobs, registry, want, built, admins, history>>

NoSuperset(r) ==
  /\ Goto(r, "superset", "exact")
  /\ Compatible(want[r]) = {}
  /\ UNCHANGED <<rows, alias, jobs, registry, local, admins, history>>

\* get_or_create_exact inserts the row.
CreateExact(r) ==
  /\ Goto(r, "exact", "bind")
  /\ status[want[r]] = "none"
  /\ status' = [status EXCEPT ![want[r]] = "PENDING"]
  /\ target' = [target EXCEPT ![r] = want[r]]
  /\ seen' = [seen EXCEPT ![r] = "PENDING"]
  /\ UNCHANGED <<life, image, alias, jobs, registry, want, built, admins, history>>

LoadExact(r) ==
  /\ Goto(r, "exact", "bind")
  /\ status[want[r]] # "none"
  /\ life[want[r]] = "ACTIVE"
  /\ target' = [target EXCEPT ![r] = want[r]]
  /\ seen' = [seen EXCEPT ![r] = status[want[r]]]
  /\ UNCHANGED <<rows, alias, jobs, registry, want, built, admins, history>>

\* "exact runtime environment is being retired; retry after cleanup"
ExactRetiring(r) ==
  /\ Done(r, "exact")
  /\ life[want[r]] = "RETIRING"
  /\ UNCHANGED <<rows, alias, jobs, registry, admins, history>>

ExactRetired(r) ==
  /\ Goto(r, "exact", "reactivate")
  /\ life[want[r]] = "RETIRED"
  /\ target' = [target EXCEPT ![r] = want[r]]
  /\ UNCHANGED <<rows, alias, jobs, registry, want, seen, built, admins, history>>

\* Mutant: the digest of the deleted image stays in the row.
MutReactivate(r) ==
  /\ Goto(r, "reactivate", "bind")
  /\ life[target[r]] = "RETIRED"
  /\ life' = [life EXCEPT ![target[r]] = "ACTIVE"]
  /\ seen' = [seen EXCEPT ![r] = status[target[r]]]
  /\ UNCHANGED <<status, image, alias, jobs, registry, want, target, built, admins, history>>

\* reactivate_retired: the environment is built again from nothing.
Reactivate(r) ==
  /\ Goto(r, "reactivate", "bind")
  /\ life[target[r]] = "RETIRED"
  /\ life' = [life EXCEPT ![target[r]] = "ACTIVE"]
  /\ status' = [status EXCEPT ![target[r]] = "PENDING"]
  /\ image' = [image EXCEPT ![target[r]] = None]
  /\ seen' = [seen EXCEPT ![r] = "PENDING"]
  /\ doubtful' = doubtful \ {target[r]}
  /\ UNCHANGED <<alias, jobs, registry, want, target, built, admins, faults, disturbed>>

ReactivatedElsewhere(r) ==
  /\ Done(r, "reactivate")
  /\ life[target[r]] # "RETIRED"
  /\ UNCHANGED <<rows, alias, jobs, registry, admins, history>>

\* bind_request: the SELECT.
BindReads(r) ==
  /\ Goto(r, "bind", "insert")
  /\ life[target[r]] = "ACTIVE"
  /\ UNCHANGED <<rows, alias, jobs, registry, local, admins, history>>

BindRefuses(r) ==
  /\ Done(r, "bind")
  /\ life[target[r]] # "ACTIVE"
  /\ UNCHANGED <<rows, alias, jobs, registry, admins, history>>

\* bind_request: INSERT ... ON CONFLICT DO NOTHING.
BindInserts(r) ==
  /\ pc[r] = "insert"
  /\ alias' = [alias EXCEPT ![want[r]] = IF @ = None THEN target[r] ELSE @]
  /\ \/ /\ seen[r] = "PENDING"
        /\ Goto(r, "insert", "claim")
        /\ want' = [want EXCEPT ![r] = None]
        /\ seen' = [seen EXCEPT ![r] = "none"]
        /\ UNCHANGED <<target, built>>
     \/ seen[r] # "PENDING" /\ Done(r, "insert")
  /\ UNCHANGED <<rows, jobs, registry, admins, history>>

-----------------------------------------------------------------------------
(***************************************************************************)
(* retry and _build                                                        *)
(***************************************************************************)

Retry(r, k) ==
  /\ Retries
  /\ Found(k)
  /\ status[alias[k]] = "FAILED"
  /\ Goto(r, "out", "reset")
  /\ target' = [target EXCEPT ![r] = alias[k]]
  /\ UNCHANGED <<rows, alias, jobs, registry, want, seen, built, admins, history>>

\* Mutant: the UPDATE does not ask for FAILED.
MutResetFailed(r) ==
  /\ Goto(r, "reset", "claim")
  /\ status' = [status EXCEPT ![target[r]] = "PENDING"]
  /\ image' = [image EXCEPT ![target[r]] = None]
  /\ UNCHANGED <<life, alias, jobs, registry, local, admins, history>>

\* reset_failed, whatever the lifecycle state is by now.
ResetFailed(r) ==
  /\ Goto(r, "reset", "claim")
  /\ status[target[r]] = "FAILED"
  /\ status' = [status EXCEPT ![target[r]] = "PENDING"]
  /\ image' = [image EXCEPT ![target[r]] = None]
  /\ doubtful' = doubtful \ {target[r]}
  /\ UNCHANGED <<life, alias, jobs, registry, local, admins, faults, disturbed>>

ResetElsewhere(r) ==
  /\ Done(r, "reset")
  /\ status[target[r]] # "FAILED"
  /\ UNCHANGED <<rows, alias, jobs, registry, admins, history>>

\* Mutant: a build is claimed without looking at its status.
MutClaimBuild(r) ==
  /\ Goto(r, "claim", "build")
  /\ life[target[r]] = "ACTIVE"
  /\ status' = [status EXCEPT ![target[r]] = "BUILDING"]
  /\ jobs' = [jobs EXCEPT ![target[r]] = @ \cup {r}]
  /\ UNCHANGED <<life, image, alias, registry, local, admins, history>>

ClaimBuild(r) ==
  /\ Goto(r, "claim", "build")
  /\ status[target[r]] = "PENDING"
  /\ life[target[r]] = "ACTIVE"
  /\ status' = [status EXCEPT ![target[r]] = "BUILDING"]
  /\ jobs' = [jobs EXCEPT ![target[r]] = @ \cup {r}]
  /\ UNCHANGED <<life, image, alias, registry, local, admins, history>>

NotClaimed(r) ==
  /\ Done(r, "claim")
  /\ ~(status[target[r]] = "PENDING" /\ life[target[r]] = "ACTIVE")
  /\ UNCHANGED <<rows, alias, jobs, registry, admins, history>>

\* build_runtime_image pushes an image; mark_verifying.
BuildAndPush(r) ==
  /\ Goto(r, "build", "verify")
  /\ \E i \in Image :
       /\ Fresh(i)
       /\ registry' = registry \cup {i}
       /\ built' = [built EXCEPT ![r] = i]
  /\ status' = [status EXCEPT ![target[r]] = "VERIFYING"]
  /\ UNCHANGED <<life, image, alias, jobs, want, target, seen, admins, history>>

\* r's active job is over; with the last one nothing disturbs the environment.
JobEnds(r) ==
  /\ jobs' = [jobs EXCEPT ![target[r]] = @ \ {r}]
  /\ disturbed' = IF jobs[target[r]] \subseteq {r} THEN disturbed \ {target[r]} ELSE disturbed

\* verify_runtime_image passes; mark_ready.
BecomeReady(r) ==
  /\ status' = [status EXCEPT ![target[r]] = "READY"]
  /\ image' = [image EXCEPT ![target[r]] = built[r]]
  /\ doubtful' = doubtful \ {target[r]}
  /\ JobEnds(r)

MarkReady(r) ==
  /\ Done(r, "verify")
  /\ BecomeReady(r)
  /\ UNCHANGED <<life, alias, registry, admins, faults>>

\* mark_ready commits and raises, or the emit after it raises.
MarkReadyRaises(r) ==
  /\ OneMoreFault
  /\ Goto(r, "verify", "late")
  /\ BecomeReady(r)
  /\ built' = [built EXCEPT ![r] = None]
  /\ UNCHANGED <<life, alias, registry, want, target, seen, admins>>

\* docker fails, the packages are not the expected ones, or mark_verifying, or
\* mark_ready before its commit, raises.
BuildFails(r) ==
  /\ pc[r] \in {"build", "verify"}
  /\ pc' = [pc EXCEPT ![r] = "failing"]
  /\ built' = [built EXCEPT ![r] = None]
  /\ UNCHANGED <<rows, alias, jobs, registry, want, target, seen, admins, history>>

MarkFailed(r) ==
  /\ Done(r, "failing")
  /\ status' = [status EXCEPT ![target[r]] = "FAILED"]
  /\ JobEnds(r)
  /\ UNCHANGED <<life, image, alias, registry, admins, faults, doubtful>>

\* The same UPDATE, which names only the row, after mark_ready has committed.
MarkReadyFailed(r) ==
  /\ Done(r, "late")
  /\ status' = [status EXCEPT ![target[r]] = "FAILED"]
  /\ disturbed' = IF status[target[r]] \in Preparing THEN disturbed \cup {target[r]}
                                                     ELSE disturbed
  /\ UNCHANGED <<life, image, alias, jobs, registry, admins, faults, doubtful>>

\* claim_build commits and raises, or mark_failed raises: nobody goes on with the
\* build, and its rows stay as they are.
BuildAbandoned(r) ==
  /\ OneMoreFault
  /\ \/ /\ Done(r, "build") \/ Done(r, "failing")
        /\ jobs' = [jobs EXCEPT ![target[r]] = (@ \ {r}) \cup {None}]
     \/ Done(r, "late") /\ UNCHANGED jobs
  /\ UNCHANGED <<rows, alias, registry, admins, doubtful, disturbed>>

-----------------------------------------------------------------------------
(***************************************************************************)
(* Retirement                                                              *)
(***************************************************************************)

BeginRetirement(e) ==
  /\ status[e] \notin Preparing \cup {"none"}
  /\ life[e] = "ACTIVE"
  /\ jobs[e] = {}
  /\ life' = [life EXCEPT ![e] = "RETIRING"]
  /\ UNCHANGED <<status, image, alias, jobs, registry, pc, local, admins, history>>

\* The environments of the deletions in as that still have the image to delete.
Losing(as) == {victim[a] : a \in {b \in as : at[b] # "out" /\ image[victim[b]] = doomed[b]}}

\* cancel_retirement knows nothing of a deletion that is under way or has failed.
CancelRetirement(e) ==
  /\ life[e] = "RETIRING"
  /\ life' = [life EXCEPT ![e] = "ACTIVE"]
  /\ doubtful' = doubtful \cup (Losing(Admin) \cap {e})
  /\ UNCHANGED <<status, image, alias, jobs, registry, pc, local, admins, faults, disturbed>>

\* BuildLifecycle.delete_artifact: its plan, for the image the caller expects.
PlanDeletion(a, e) ==
  /\ at[a] = "out"
  /\ life[e] = "RETIRING"
  /\ status[e] \notin Preparing
  /\ image[e] # None
  /\ at' = [at EXCEPT ![a] = "harbor"]
  /\ victim' = [victim EXCEPT ![a] = e]
  /\ doomed' = [doomed EXCEPT ![a] = image[e]]
  /\ UNCHANGED <<rows, alias, jobs, registry, pc, local, history>>

\* HarborClient.delete_artifact: deleted, or already missing.
HarborDeletes(a) ==
  /\ at[a] = "harbor"
  /\ at' = [at EXCEPT ![a] = "finalize"]
  /\ registry' = registry \ {doomed[a]}
  /\ UNCHANGED <<rows, alias, jobs, pc, local, victim, doomed, history>>

\* HarborError: refused, or without an answer.
HarborFails(a) ==
  /\ DeletionOver(a, "harbor")
  /\ doubtful' = doubtful \cup Losing({a})
  /\ UNCHANGED <<rows, alias, jobs, registry, pc, local, faults, disturbed>>

\* Harbor performs a deletion nobody waits for any more.
HarborActsLate(e) ==
  /\ e \in doubtful
  /\ image[e] \in registry
  /\ registry' = registry \ {image[e]}
  /\ UNCHANGED <<rows, alias, jobs, pc, local, admins, history>>

\* finalize_retirement: the aliases go in any case, the state only from RETIRING.
FinalizeRetirement(a) ==
  /\ DeletionOver(a, "finalize")
  /\ alias' = [k \in Key |-> IF alias[k] = victim[a] THEN None ELSE alias[k]]
  /\ life' = [life EXCEPT ![victim[a]] = IF @ = "RETIRING" THEN "RETIRED" ELSE @]
  /\ UNCHANGED <<status, image, jobs, registry, pc, local, history>>

\* finalize_retirement raises: its caller does not learn that the image is gone.
FinalizeRaises(a) ==
  /\ OneMoreFault
  /\ DeletionOver(a, "finalize")
  /\ doubtful' = doubtful \cup Losing({a})
  /\ UNCHANGED <<rows, alias, jobs, registry, pc, local, disturbed>>

\* The process dies: only the database and the registry stay.
Crash ==
  /\ Crashes
  /\ pc' = [r \in Request |-> "out"]
  /\ want' = [r \in Request |-> None]
  /\ target' = [r \in Request |-> None]
  /\ seen' = [r \in Request |-> "none"]
  /\ built' = [r \in Request |-> None]
  /\ at' = [a \in Admin |-> "out"]
  /\ victim' = [a \in Admin |-> None]
  /\ doomed' = [a \in Admin |-> None]
  /\ jobs' = [k \in Key |-> IF jobs[k] = {} THEN {} ELSE {None}]
  /\ doubtful' = doubtful \cup Losing(Admin)
  /\ UNCHANGED <<rows, alias, registry, faults, disturbed>>

-----------------------------------------------------------------------------
Serve(r) ==
  \/ ReuseSuperset(r) \/ NoSuperset(r)
  \/ CreateExact(r) \/ LoadExact(r) \/ ExactRetiring(r) \/ ExactRetired(r)
  \/ Reactivate(r) \/ ReactivatedElsewhere(r)
  \/ BindReads(r) \/ BindRefuses(r) \/ BindInserts(r)
  \/ ResetFailed(r) \/ ResetElsewhere(r)
  \/ ClaimBuild(r) \/ NotClaimed(r)
  \/ BuildAndPush(r) \/ BuildFails(r) \/ MarkReady(r) \/ MarkReadyRaises(r)
  \/ MarkFailed(r) \/ MarkReadyFailed(r) \/ BuildAbandoned(r)

Delete(a) ==
  \/ HarborDeletes(a) \/ HarborFails(a) \/ FinalizeRetirement(a) \/ FinalizeRaises(a)

Next ==
  \/ \E r \in Request :
       \/ \E k \in Key : ResolveHit(r, k) \/ ResolveMiss(r, k) \/ Retry(r, k)
       \/ Serve(r)
  \/ \E e \in Key : BeginRetirement(e) \/ CancelRetirement(e) \/ HarborActsLate(e)
  \/ \E a \in Admin :
       \/ \E e \in Key : PlanDeletion(a, e)
       \/ Delete(a)
  \/ Crash

Spec == Init /\ [][Next]_vars

-----------------------------------------------------------------------------
\* Two requests never build one environment, and it stays ACTIVE, with its one
\* active job, until the build has ended: the UPDATEs of mark_verifying,
\* mark_ready and mark_failed name only the row.  Only the failure of an earlier
\* build, written when the environment is being built again, lets a retry in; a
\* retirement does not begin even then.
OneBuild ==
  /\ \A r \in Request : pc[r] \in Building =>
       /\ life[target[r]] = "ACTIVE"
       /\ target[r] \notin disturbed =>
            status[target[r]] \in {"BUILDING", "VERIFYING"} /\ jobs[target[r]] = {r}
  /\ \A r, s \in Request : r # s /\ pc[r] \in Building /\ pc[s] \in Building =>
       target[r] # target[s] \/ target[r] \in disturbed

\* The same without the exception: see the README.
NeverTwoBuilds ==
  \A r, s \in Request : r # s /\ pc[r] \in Building /\ pc[s] \in Building =>
    target[r] # target[s]

\* An environment that resolve may hand out has an image that can be pulled,
\* whatever deletions are under way, late or repeated and whenever retirements are
\* cancelled.  Excepted are images whose own deletion failed, was cut short or
\* was under way at the cancel: their callers cannot know whether they are gone.
ServableImage ==
  \A e \in Key : status[e] = "READY" /\ life[e] = "ACTIVE" =>
    image[e] \in registry \/ e \in doubtful

\* While an environment is READY and ACTIVE nobody changes its image, and only
\* the late failure of the build that made it READY takes its status away.
ReadyIsKept ==
  [][\A e \in Key : status[e] = "READY" /\ life[e] = "ACTIVE" /\ e \notin disturbed =>
       /\ image'[e] = image[e]
       /\ status'[e] = "READY" \/ \E r \in Request : pc[r] = "late" /\ target[r] = e]_vars

\* Every environment is what RuntimeEnvironment promises, whoever resolves it,
\* retries it, builds it or deletes its image at the same time: its Spec for
\* every key, written as one formula of steps.  The promise ends with the failure
\* of an earlier build that is written during a new one.
Environment(e) ==
  INSTANCE RuntimeEnvironment
    WITH status <- status[e], life <- life[e], image <- image[e]
EnvironmentStep(e) == Environment(e)!Next \/ UNCHANGED Environment(e)!vars
ImplementsEnvironment ==
  /\ \A e \in Key : Environment(e)!Init
  /\ [][\A e \in Key : e \in disturbed \cup disturbed' \/ EnvironmentStep(e)]_vars

\* A RETIRING environment is one that can be finished, deleted or restored, as
\* begin_retirement makes sure: it is not being prepared.
RetiringIsSettled ==
  \A e \in Key : life[e] = "RETIRING" => status[e] \in {"READY", "FAILED"}
=============================================================================
