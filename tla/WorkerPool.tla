----------------------------- MODULE WorkerPool -----------------------------
(***************************************************************************)
(* The warm sandbox pool of the Runner: runner_engine/pool.py together     *)
(* with the quota it reserves capacity from (quota.py) and the sandbox     *)
(* backend it drives (sandbox/opensandbox.py).                             *)
(*                                                                         *)
(* Every gRPC handler thread may acquire a worker, use it, and release or  *)
(* invalidate it; a handler serving Cancel may invalidate a worker another *)
(* thread was using when it looked; the maintenance thread reaps idle      *)
(* workers.  An action ends where the code gives up a lock or calls the    *)
(* backend, so the model has every interleaving the locks allow.           *)
(*                                                                         *)
(* Abstractions.  A bucket of idle workers is a set: acquire may take any  *)
(* good worker and discard any expired ones it meets, a superset of the    *)
(* LIFO order of the code.  Clocks are two flags: a worker may become      *)
(* tired (idle too long) and a sandbox may die (TTL, crash).  A Worker     *)
(* identity is reused once the object is garbage.  An Image stands for a   *)
(* (runtime image, security profile) pair.                                 *)
(***************************************************************************)
EXTENDS Integers, FiniteSets

CONSTANTS
  Thread,         \* gRPC handler threads
  Reaper,         \* the maintenance thread
  Worker,         \* identities of Worker objects and of their sandboxes
  Tenant,
  Release,
  Image,
  ImageOf,        \* [Release -> Image]
  Reusable,       \* images whose security policy says reuse_sandbox
  MaxLive, MaxLivePerTenant, MaxCreating, MaxInstalled,
  CleanupPage,    \* sandboxes of any owner on the one page cleanup_managed reads
  Foreign,        \* most sandboxes of other owners that page may show
  BackendFaults,  \* TRUE: calls to the backend may fail or lose their answer
  None

Actor == Thread \cup {Reaper}
Key == Tenant \X Image
Request == Tenant \X Release

ASSUME ConstantsAssumption ==
  /\ IsFiniteSet(Thread) /\ Reaper \notin Thread
  /\ IsFiniteSet(Worker) /\ None \notin Worker
  /\ None \notin Request
  /\ ImageOf \in [Release -> Image]
  /\ Reusable \subseteq Image
  /\ MaxLive \in Nat \ {0}
  /\ MaxLivePerTenant \in Nat \ {0}
  /\ MaxCreating \in Nat \ {0}
  /\ MaxInstalled \in Nat \ {0}
  /\ CleanupPage \in Nat
  /\ Foreign \in Nat
  /\ BackendFaults \in BOOLEAN

VARIABLES
  pc,          \* where each actor is in the pool's code
  req,         \* the request an acquire serves, or None
  worker,      \* the candidate, the worker under creation or the worker in use
  stale,       \* expired workers an acquire or a reap still has to destroy
  doomed,      \* the worker a _destroy or a cancel is about
  idle,        \* WorkerPool._idle
  state,       \* the healthy and destroyed flags of the Worker objects
  owner,       \* the key a worker was created for
  installed,   \* Worker.installed_release_ids
  tired,       \* workers idle for longer than idle_seconds
  sandboxes,   \* sandboxes that exist in the cluster
  strays,      \* requests and sandboxes of this owner the pool has lost sight of
  live, tenantLive, creating     \* Quota

poolVars == <<idle, state, owner, installed, tired>>
quotaVars == <<live, tenantLive, creating>>
localVars == <<req, worker, stale, doomed>>
clusterVars == <<sandboxes, strays>>
vars == <<pc, localVars, poolVars, clusterVars, quotaVars>>

(***************************************************************************)
(* Control locations.  An actor at "out" is not in the pool's code and     *)
(* holds nothing; at "hold" it runs an invocation on its worker.           *)
(***************************************************************************)
Deleting == {"delete", "refund", "rethrow"}
Reserved == {"slot", "create", "unreserve"}
Location == Deleting \cup Reserved \cup
  {"out", "purge", "warm", "reserve", "install", "undo", "hold", "park", "condemn", "cancelling"}

Up == {"healthy", "unhealthy"}

\* Mutant: the tenant is not part of the key.
MutKeyOf(q) == <<CHOOSE n \in Tenant : TRUE, ImageOf[q[2]]>>

KeyOf(q) == <<q[1], ImageOf[q[2]]>>

PoolTypeOK ==
  /\ pc \in [Actor -> Location]
  /\ req \in [Actor -> Request \cup {None}]
  /\ worker \in [Actor -> Worker \cup {None}]
  /\ stale \in [Actor -> SUBSET Worker]
  /\ doomed \in [Actor -> Worker \cup {None}]
  /\ idle \in [Key -> SUBSET Worker]
  /\ state \in [Worker -> Up \cup {"none", "destroyed"}]
  /\ owner \in [Worker -> Key \cup {None}]
  /\ installed \in [Worker -> SUBSET Release]
  /\ tired \subseteq Worker
  /\ sandboxes \subseteq Worker
  /\ strays \subseteq Worker

QuotaTypeOK ==
  /\ live \in Nat
  /\ tenantLive \in [Tenant -> Nat]
  /\ creating \in Nat

TypeOK == PoolTypeOK /\ QuotaTypeOK

Init ==
  /\ pc = [a \in Actor |-> "out"]
  /\ req = [a \in Actor |-> None]
  /\ worker = [a \in Actor |-> None]
  /\ stale = [a \in Actor |-> {}]
  /\ doomed = [a \in Actor |-> None]
  /\ idle = [k \in Key |-> {}]
  /\ state = [w \in Worker |-> "none"]
  /\ owner = [w \in Worker |-> None]
  /\ installed = [w \in Worker |-> {}]
  /\ tired = {}
  /\ sandboxes = {}
  /\ strays = {}
  /\ live = 0
  /\ tenantLive = [n \in Tenant |-> 0]
  /\ creating = 0

Goto(a, from, to) ==
  /\ pc[a] = from
  /\ pc' = [pc EXCEPT ![a] = to]

\* An identity no live object uses and nothing refers to any more.
Fresh(w) ==
  /\ state[w] \in {"none", "destroyed"}
  /\ w \notin sandboxes \cup strays
  /\ \A k \in Key : w \notin idle[k]
  /\ \A a \in Actor : w # worker[a] /\ w # doomed[a] /\ w \notin stale[a]

-----------------------------------------------------------------------------
(***************************************************************************)
(* Quota.reserve_live and Quota.release_live, each under the quota's lock. *)
(***************************************************************************)
CanReserve(n) == live < MaxLive /\ tenantLive[n] < MaxLivePerTenant

ReserveLive(n) ==
  /\ CanReserve(n)
  /\ live' = live + 1
  /\ tenantLive' = [tenantLive EXCEPT ![n] = @ + 1]

ReleaseLive(n) ==
  IF tenantLive[n] = 0
  THEN UNCHANGED <<live, tenantLive>>
  ELSE /\ live' = live - 1
       /\ tenantLive' = [tenantLive EXCEPT ![n] = @ - 1]

-----------------------------------------------------------------------------
(***************************************************************************)
(* WorkerPool.acquire                                                      *)
(***************************************************************************)
\* Mutant: idle time does not count.
MutExpired(w) == state[w] # "healthy"

Expired(w) == state[w] # "healthy" \/ w \in tired

Full(w, r) == r \notin installed[w] /\ Cardinality(installed[w]) >= MaxInstalled

\* Under the pool's lock: pop idle workers until one is usable.  The bucket
\* is exhausted when none is.
AcquirePop(t, q) ==
  LET k == KeyOf(q)
      bad == {w \in idle[k] : Expired(w) \/ Full(w, q[2])}
  IN
  /\ Goto(t, "out", "purge")
  /\ req' = [req EXCEPT ![t] = q]
  /\ \/ \E w \in idle[k] \ bad, popped \in SUBSET bad :
          /\ worker' = [worker EXCEPT ![t] = w]
          /\ stale' = [stale EXCEPT ![t] = popped]
          /\ idle' = [idle EXCEPT ![k] = @ \ (popped \cup {w})]
     \/ /\ idle[k] = bad
        /\ stale' = [stale EXCEPT ![t] = bad]
        /\ idle' = [idle EXCEPT ![k] = {}]
        /\ UNCHANGED worker
  /\ UNCHANGED <<doomed, state, owner, installed, tired, clusterVars, quotaVars>>

\* The loop over the stale workers, shared with reap: destroy the next one.
PurgeNext(a) ==
  /\ Goto(a, "purge", "condemn")
  /\ \E w \in stale[a] :
       /\ stale' = [stale EXCEPT ![a] = @ \ {w}]
       /\ doomed' = [doomed EXCEPT ![a] = w]
  /\ UNCHANGED <<req, worker, poolVars, clusterVars, quotaVars>>

\* Mutant: only the first stale worker is destroyed.
MutPurgeDone(a) ==
  /\ Goto(a, "purge", IF req[a] = None THEN "out"
                      ELSE IF worker[a] # None THEN "warm" ELSE "reserve")
  /\ stale' = [stale EXCEPT ![a] = {}]
  /\ UNCHANGED <<req, worker, doomed, poolVars, clusterVars, quotaVars>>

\* The loop is over: an acquire goes on with its candidate or to the quota,
\* every other caller returns.
PurgeDone(a) ==
  /\ Goto(a, "purge", IF req[a] = None THEN "out"
                      ELSE IF worker[a] # None THEN "warm" ELSE "reserve")
  /\ stale[a] = {}
  /\ UNCHANGED <<localVars, poolVars, clusterVars, quotaVars>>

\* _ensure_sandbox_ttl and _ensure_release on the candidate.  The backend is
\* only asked when the TTL is short or the release is missing.
WarmSucceeds(t) ==
  LET w == worker[t]
      r == req[t][2]
  IN
  /\ Goto(t, "warm", "hold")
  /\ r \in installed[w] \/ w \in sandboxes
  /\ installed' = [installed EXCEPT ![w] = @ \cup {r}]
  /\ tired' = tired \ {w}
  /\ UNCHANGED <<localVars, idle, state, owner, clusterVars, quotaVars>>

\* Either call raised: the candidate is invalidated and acquire raises.
WarmFails(t) ==
  /\ Goto(t, "warm", "condemn")
  /\ BackendFaults \/ worker[t] \notin sandboxes
  /\ state' = [state EXCEPT ![worker[t]] = IF @ = "destroyed" THEN @ ELSE "unhealthy"]
  /\ doomed' = [doomed EXCEPT ![t] = worker[t]]
  /\ worker' = [worker EXCEPT ![t] = None]
  /\ req' = [req EXCEPT ![t] = None]
  /\ UNCHANGED <<stale, idle, owner, installed, tired, clusterVars, quotaVars>>

ReserveRefused(t) ==
  /\ Goto(t, "reserve", "out")
  /\ ~CanReserve(req[t][1])
  /\ req' = [req EXCEPT ![t] = None]
  /\ UNCHANGED <<worker, stale, doomed, poolVars, clusterVars, quotaVars>>

\* Capacity is reserved; w is the identity the sandbox will have.
Reserve(t) ==
  /\ Goto(t, "reserve", "slot")
  /\ ReserveLive(req[t][1])
  /\ \E w \in Worker :
       /\ Fresh(w)
       /\ worker' = [worker EXCEPT ![t] = w]
       /\ owner' = [owner EXCEPT ![w] = KeyOf(req[t])]
  /\ UNCHANGED <<req, stale, doomed, idle, state, installed, tired, clusterVars, creating>>

CreationSlot(t) ==
  /\ Goto(t, "slot", "create")
  /\ creating < MaxCreating
  /\ creating' = creating + 1
  /\ UNCHANGED <<localVars, poolVars, clusterVars, live, tenantLive>>

CreateSucceeds(t) ==
  /\ Goto(t, "create", "install")
  /\ sandboxes' = sandboxes \cup {worker[t]}
  /\ state' = [state EXCEPT ![worker[t]] = "healthy"]
  /\ installed' = [installed EXCEPT ![worker[t]] = {}]
  /\ tired' = tired \ {worker[t]}
  /\ UNCHANGED <<strays, localVars, idle, owner, quotaVars>>

\* create raised.  When the answer of the POST, or the best-effort DELETE, was
\* lost, the sandbox may exist all the same, or come to exist later.
CreateFails(t) ==
  /\ Goto(t, "create", "unreserve")
  /\ BackendFaults
  /\ strays' = strays \cup {worker[t]}
  /\ creating' = creating - 1
  /\ UNCHANGED <<localVars, poolVars, sandboxes, live, tenantLive>>

InstallSucceeds(t) ==
  /\ Goto(t, "install", "hold")
  /\ worker[t] \in sandboxes
  /\ installed' = [installed EXCEPT ![worker[t]] = {req[t][2]}]
  /\ creating' = creating - 1
  /\ UNCHANGED <<localVars, idle, state, owner, tired, clusterVars, live, tenantLive>>

InstallFails(t) ==
  /\ Goto(t, "install", "undo")
  /\ BackendFaults \/ worker[t] \notin sandboxes
  /\ creating' = creating - 1
  /\ UNCHANGED <<localVars, poolVars, clusterVars, live, tenantLive>>

\* The exception handler of acquire drops the new Worker; an error of this
\* destroy is swallowed.
Undo(t) ==
  /\ Goto(t, "undo", "unreserve")
  /\ state' = [state EXCEPT ![worker[t]] = "none"]
  /\ \/ sandboxes' = sandboxes \ {worker[t]}
     \/ BackendFaults /\ UNCHANGED sandboxes
  /\ UNCHANGED <<strays, localVars, idle, owner, installed, tired, quotaVars>>

Unreserve(t) ==
  /\ Goto(t, "unreserve", "out")
  /\ ReleaseLive(req[t][1])
  /\ worker' = [worker EXCEPT ![t] = None]
  /\ req' = [req EXCEPT ![t] = None]
  /\ UNCHANGED <<stale, doomed, poolVars, clusterVars, creating>>

-----------------------------------------------------------------------------
(***************************************************************************)
(* WorkerPool.release and WorkerPool.invalidate, by the thread that holds  *)
(* the worker.  release looks at the flags outside the lock and appends to *)
(* the bucket in a later step.                                             *)
(***************************************************************************)
ReleaseToPark(t) ==
  /\ Goto(t, "hold", "park")
  /\ state[worker[t]] = "healthy"
  /\ owner[worker[t]][2] \in Reusable
  /\ tired' = tired \ {worker[t]}
  /\ UNCHANGED <<localVars, idle, state, owner, installed, clusterVars, quotaVars>>

Park(t) ==
  /\ Goto(t, "park", "out")
  /\ idle' = [idle EXCEPT ![owner[worker[t]]] = @ \cup {worker[t]}]
  /\ worker' = [worker EXCEPT ![t] = None]
  /\ req' = [req EXCEPT ![t] = None]
  /\ UNCHANGED <<stale, doomed, state, owner, installed, tired, clusterVars, quotaVars>>

ReleaseToDestroy(t) ==
  /\ Goto(t, "hold", "condemn")
  /\ state[worker[t]] # "healthy" \/ owner[worker[t]][2] \notin Reusable
  /\ tired' = tired \ {worker[t]}
  /\ doomed' = [doomed EXCEPT ![t] = worker[t]]
  /\ worker' = [worker EXCEPT ![t] = None]
  /\ req' = [req EXCEPT ![t] = None]
  /\ UNCHANGED <<stale, idle, state, owner, installed, clusterVars, quotaVars>>

Invalidate(t) ==
  /\ Goto(t, "hold", "condemn")
  /\ state' = [state EXCEPT ![worker[t]] = IF @ = "destroyed" THEN @ ELSE "unhealthy"]
  /\ doomed' = [doomed EXCEPT ![t] = worker[t]]
  /\ worker' = [worker EXCEPT ![t] = None]
  /\ req' = [req EXCEPT ![t] = None]
  /\ UNCHANGED <<stale, idle, owner, installed, tired, clusterVars, quotaVars>>

-----------------------------------------------------------------------------
(***************************************************************************)
(* RunnerService.cancel: it remembers the worker of an active invocation,  *)
(* leaves the lock, calls the agent, and invalidates the worker when the   *)
(* call fails, whoever is using the worker by then.                        *)
(***************************************************************************)
CancelLookup(t) ==
  /\ Goto(t, "out", "cancelling")
  /\ \E u \in Thread : pc[u] = "hold" /\ doomed' = [doomed EXCEPT ![t] = worker[u]]
  /\ UNCHANGED <<req, worker, stale, poolVars, clusterVars, quotaVars>>

CancelAnswered(t) ==
  /\ Goto(t, "cancelling", "out")
  /\ doomed[t] \in sandboxes
  /\ doomed' = [doomed EXCEPT ![t] = None]
  /\ UNCHANGED <<req, worker, stale, poolVars, clusterVars, quotaVars>>

CancelFails(t) ==
  /\ Goto(t, "cancelling", "condemn")
  /\ BackendFaults \/ doomed[t] \notin sandboxes
  /\ state' = [state EXCEPT ![doomed[t]] = IF @ = "destroyed" THEN @ ELSE "unhealthy"]
  /\ UNCHANGED <<localVars, idle, owner, installed, tired, clusterVars, quotaVars>>

-----------------------------------------------------------------------------
(***************************************************************************)
(* WorkerPool._destroy: test and set the flag under the lock, delete the   *)
(* sandbox outside of it, then give the capacity back, also when the       *)
(* deletion raised.  The exception ends the caller's loop: its remaining   *)
(* stale workers and its candidate are dropped.                            *)
(***************************************************************************)
AlreadyDestroyed(a) ==
  /\ Goto(a, "condemn", "purge")
  /\ state[doomed[a]] = "destroyed"
  /\ doomed' = [doomed EXCEPT ![a] = None]
  /\ UNCHANGED <<req, worker, stale, poolVars, clusterVars, quotaVars>>

\* Mutant: the flag is not tested.
MutCondemn(a) ==
  /\ Goto(a, "condemn", "delete")
  /\ state' = [state EXCEPT ![doomed[a]] = "destroyed"]
  /\ UNCHANGED <<localVars, idle, owner, installed, tired, clusterVars, quotaVars>>

\* Mutant: the capacity is given back and the sandbox forgotten.
MutCondemnOnly(a) ==
  /\ Goto(a, "condemn", "refund")
  /\ state[doomed[a]] # "destroyed"
  /\ state' = [state EXCEPT ![doomed[a]] = "destroyed"]
  /\ UNCHANGED <<localVars, idle, owner, installed, tired, clusterVars, quotaVars>>

Condemn(a) ==
  /\ Goto(a, "condemn", "delete")
  /\ state[doomed[a]] # "destroyed"
  /\ state' = [state EXCEPT ![doomed[a]] = "destroyed"]
  /\ UNCHANGED <<localVars, idle, owner, installed, tired, clusterVars, quotaVars>>

DeleteSucceeds(a) ==
  /\ Goto(a, "delete", "refund")
  /\ sandboxes' = sandboxes \ {doomed[a]}
  /\ UNCHANGED <<strays, localVars, poolVars, quotaVars>>

DeleteFails(a) ==
  /\ Goto(a, "delete", "rethrow")
  /\ BackendFaults
  /\ sandboxes' \in {sandboxes, sandboxes \ {doomed[a]}}
  /\ UNCHANGED <<strays, localVars, poolVars, quotaVars>>

Refund(a) ==
  /\ Goto(a, "refund", "purge")
  /\ ReleaseLive(owner[doomed[a]][1])
  /\ doomed' = [doomed EXCEPT ![a] = None]
  /\ UNCHANGED <<req, worker, stale, poolVars, clusterVars, creating>>

RefundAndRaise(a) ==
  /\ Goto(a, "rethrow", "out")
  /\ ReleaseLive(owner[doomed[a]][1])
  /\ doomed' = [doomed EXCEPT ![a] = None]
  /\ worker' = [worker EXCEPT ![a] = None]
  /\ stale' = [stale EXCEPT ![a] = {}]
  /\ req' = [req EXCEPT ![a] = None]
  /\ UNCHANGED <<poolVars, clusterVars, creating>>

-----------------------------------------------------------------------------
(***************************************************************************)
(* WorkerPool.reap, by the maintenance thread                              *)
(***************************************************************************)
\* Mutant: the expired workers stay in their buckets.
MutReap ==
  LET expired == {w \in UNION {idle[k] : k \in Key} : Expired(w)}
  IN
  /\ Goto(Reaper, "out", "purge")
  /\ expired # {}
  /\ stale' = [stale EXCEPT ![Reaper] = expired]
  /\ UNCHANGED <<req, worker, doomed, poolVars, clusterVars, quotaVars>>

Reap ==
  LET expired == {w \in UNION {idle[k] : k \in Key} : Expired(w)}
  IN
  /\ Goto(Reaper, "out", "purge")
  /\ expired # {}
  /\ stale' = [stale EXCEPT ![Reaper] = expired]
  /\ idle' = [k \in Key |-> idle[k] \ expired]
  /\ UNCHANGED <<req, worker, doomed, state, owner, installed, tired, clusterVars, quotaVars>>

(***************************************************************************)
(* Time and the cluster                                                    *)
(***************************************************************************)
IdleTooLong(w) ==
  /\ w \notin tired
  /\ \E k \in Key : w \in idle[k]
  /\ tired' = tired \cup {w}
  /\ UNCHANGED <<pc, localVars, idle, state, owner, installed, clusterVars, quotaVars>>

\* A sandbox ends, or a request nobody waits for comes to nothing.
SandboxDies(w) ==
  /\ w \in sandboxes \cup strays
  /\ sandboxes' = sandboxes \ {w}
  /\ strays' = strays \ {w}
  /\ UNCHANGED <<pc, localVars, poolVars, quotaVars>>

\* The platform serves a creation request after its caller has timed out or
\* died.
LateCreation(w) ==
  /\ w \in strays \ sandboxes
  /\ sandboxes' = sandboxes \cup {w}
  /\ UNCHANGED <<pc, localVars, poolVars, strays, quotaVars>>

\* The process restarts: memory is lost and reset_after_restart deletes what
\* the first page of the listing shows, which sandboxes of other owners may
\* fill.  A creation request that was under way stays with the platform.
Restart ==
  /\ \E seen \in SUBSET sandboxes, others \in 0..Foreign :
       /\ Cardinality(seen) + others <= CleanupPage
       /\ ~BackendFaults =>
            seen = sandboxes \/ Cardinality(seen) + others = CleanupPage
       /\ sandboxes' = sandboxes \ seen
       /\ strays' = (strays \ seen) \cup sandboxes'
                       \cup {worker[t] : t \in {u \in Thread : pc[u] = "create"}}
  /\ pc' = [a \in Actor |-> "out"]
  /\ req' = [a \in Actor |-> None]
  /\ worker' = [a \in Actor |-> None]
  /\ stale' = [a \in Actor |-> {}]
  /\ doomed' = [a \in Actor |-> None]
  /\ idle' = [k \in Key |-> {}]
  /\ state' = [w \in Worker |-> "none"]
  /\ owner' = [w \in Worker |-> None]
  /\ installed' = [w \in Worker |-> {}]
  /\ tired' = {}
  /\ live' = 0
  /\ tenantLive' = [n \in Tenant |-> 0]
  /\ creating' = 0

-----------------------------------------------------------------------------
AcquireStep(t) ==
  \/ WarmSucceeds(t) \/ WarmFails(t)
  \/ ReserveRefused(t) \/ Reserve(t) \/ CreationSlot(t)
  \/ CreateSucceeds(t) \/ CreateFails(t)
  \/ InstallSucceeds(t) \/ InstallFails(t) \/ Undo(t) \/ Unreserve(t)

FinishStep(t) == ReleaseToPark(t) \/ Park(t) \/ ReleaseToDestroy(t) \/ Invalidate(t)

CancelStep(t) == CancelAnswered(t) \/ CancelFails(t)

DestroyStep(a) ==
  \/ PurgeNext(a) \/ PurgeDone(a)
  \/ AlreadyDestroyed(a) \/ Condemn(a)
  \/ DeleteSucceeds(a) \/ DeleteFails(a) \/ Refund(a) \/ RefundAndRaise(a)

Next ==
  \/ \E t \in Thread :
       \/ \E q \in Request : AcquirePop(t, q)
       \/ CancelLookup(t)
       \/ AcquireStep(t) \/ FinishStep(t) \/ CancelStep(t)
  \/ \E a \in Actor : DestroyStep(a)
  \/ Reap
  \/ \E w \in Worker : IdleTooLong(w) \/ SandboxDies(w) \/ LateCreation(w)
  \/ Restart

Spec == Init /\ [][Next]_vars

(***************************************************************************)
(* A thread that entered the pool keeps running, an invocation ends by its *)
(* timeout at the latest, and the maintenance loop runs for ever.          *)
(* Requests, time, crashes and faults are not fair.                        *)
(***************************************************************************)
Fairness ==
  /\ \A t \in Thread : WF_vars(FinishStep(t)) /\ WF_vars(CancelStep(t))
  /\ \A t \in Thread : WF_vars(AcquireStep(t))
  /\ \A a \in Actor : WF_vars(DestroyStep(a))
  /\ WF_vars(Reap)

FairSpec == Spec /\ Fairness

-----------------------------------------------------------------------------
(***************************************************************************)
(* Safety                                                                  *)
(***************************************************************************)

\* What an actor has taken out of the pool for itself.
Taken(a) == stale[a] \cup ({worker[a]} \ {None})

\* Capacity that is in use: workers not yet destroyed, workers under creation
\* and workers whose deletion has not been paid back.
Accounted ==
  {w \in Worker :
     \/ state[w] \in Up
     \/ \E a \in Actor : pc[a] \in Reserved /\ worker[a] = w
     \/ \E a \in Actor : pc[a] \in Deleting /\ doomed[a] = w}

\* pool.acquire hands a warm worker to one invocation only: a worker is in one
\* bucket or taken by one actor, never both and never twice, however acquire,
\* release, cancel and reap interleave between their locked sections.
ExclusiveOwnership ==
  /\ \A a, b \in Actor : a # b => Taken(a) \cap Taken(b) = {}
  /\ \A a \in Actor : worker[a] \notin stale[a]
  /\ \A a \in Actor, k \in Key : Taken(a) \cap idle[k] = {}

\* A worker serves, and waits in the bucket of, the tenant and image it was
\* created for: no sandbox ever crosses tenants (pool._key, release).
TenantIsolation ==
  /\ \A k \in Key : \A w \in idle[k] : owner[w] = k
  /\ \A t \in Thread : req[t] # None /\ worker[t] # None => owner[worker[t]] = <<req[t][1], ImageOf[req[t][2]]>>

\* quota.py counts exactly the capacity in use, globally and per tenant: a
\* deletion gives its capacity back once, whichever of cancel, release, reap
\* and acquire wins the race in _destroy, and a failed creation gives it back.
QuotaExact ==
  /\ live = Cardinality(Accounted)
  /\ \A n \in Tenant : tenantLive[n] = Cardinality({w \in Accounted : owner[w][1] = n})

\* The limits of quota.py hold, the creation semaphore included.
QuotaBounded ==
  /\ live <= MaxLive
  /\ \A n \in Tenant : tenantLive[n] <= MaxLivePerTenant
  /\ creating = Cardinality({t \in Thread : pc[t] \in {"create", "install"}})
  /\ creating <= MaxCreating

\* While the backend answers, the sandboxes a process has made since it started
\* never exceed its quota, however often cancel, release, reap and acquire race
\* for their deletion: capacity is reserved before create and given back after
\* delete.  Outside of the quota run only the sandboxes a restart has lost sight
\* of, because its page did not show them or their creation was under way.
SandboxesWithinQuota ==
  ~BackendFaults => Cardinality(sandboxes \ strays) <= MaxLive

\* The quota as a limit of the cluster, which a restart breaks: see the README.
ClusterWithinQuota ==
  ~BackendFaults => Cardinality(sandboxes) <= MaxLive

\* "Backend deletion and quota release must therefore be exactly once per
\* Worker object" (pool.py:150): a worker that is not destroyed is where
\* somebody will find it, so that its deletion is still to come.
DeletionStillToCome ==
  \A w \in Worker : state[w] \in Up =>
    \/ \E k \in Key : w \in idle[k]
    \/ \E a \in Actor : w \in Taken(a) \/ w = doomed[a]

(***************************************************************************)
(* Liveness                                                                *)
(***************************************************************************)

\* The reaper, or an acquire that meets it, frees the capacity of every worker
\* that has been idle for too long.
IdleCapacityReturned ==
  \A w \in Worker :
    (w \in tired /\ \E k \in Key : w \in idle[k]) ~> w \notin Accounted
=============================================================================
