-------------------------- MODULE RuntimeRetirement --------------------------
(***************************************************************************)
(* Retirement of one runtime image in the Runner: LifecycleWorkerPool and  *)
(* RunnerLifecycleController (lifecycle_runtime.py), the durable gate of   *)
(* lifecycle_store.py and the check of lifecycle_service.py, over the      *)
(* worker pool and the invocations, with restarts of the process.          *)
(*                                                                         *)
(* Calls are the gRPC threads in RunnerService.invoke, admins the threads  *)
(* that serve the lifecycle endpoints.  An action ends where the code      *)
(* releases a lock, reads or writes the database, or calls the backend.    *)
(* Everything is about one image: each read filters by its runtime id.     *)
(*                                                                         *)
(* Abstractions.  The pool (WorkerPool) is a set of idle workers; a worker *)
(* is its sandbox.  A sandbox may go at any time: by a deletion in another *)
(* thread, by its TTL, or on its own.  What an invocation does with the    *)
(* database and with its result is RunnerRuns.  A status that is not safe  *)
(* changes nothing, so its remaining reads are left out.                   *)
(***************************************************************************)
EXTENDS Naturals, FiniteSets

CONSTANTS
  Call,
  Admin,
  Sandbox,
  BackendFaults,  \* TRUE: a creation may fail after it took effect, a deletion may raise
  ListFaults,     \* TRUE: the list of sandboxes may miss some
  Cancels,        \* TRUE: cancel_runtime_retirement may be called
  None

ASSUME ConstantsAssumption ==
  /\ IsFiniteSet(Call)
  /\ None \notin Sandbox \cup Admin
  /\ BackendFaults \in BOOLEAN /\ ListFaults \in BOOLEAN /\ Cancels \in BOOLEAN

VARIABLES
  row,        \* runner.runtime_image_lifecycle: its state, "ACTIVE" when there is no row
  gate,       \* who holds _lifecycle_gate_lock for more than one step
  acquiring,  \* LifecycleWorkerPool._acquiring[runtime]
  idle,       \* WorkerPool._idle: the buckets of the image
  active,     \* the calls registered in RunnerService._active
  pc, box,    \* of a call: location and worker
  at, op,     \* of an admin: location and operation
  sweeping,   \* of an admin: workers it has popped and will delete
  sandboxes,  \* what exists in the clusters
  strays      \* requests and sandboxes of creations whose caller has given up or died

callVars == <<pc, box>>
adminVars == <<at, op, sweeping>>
clusterVars == <<sandboxes, strays>>
vars == <<row, gate, acquiring, idle, active, callVars, adminVars, clusterVars>>

TypeOK ==
  /\ row \in {"ACTIVE", "RETIRING", "RETIRED"}
  /\ gate \in Admin \cup {None}
  /\ acquiring \in Nat
  /\ idle \subseteq Sandbox
  /\ active \subseteq Call
  /\ pc \in [Call -> {"out", "gate", "acquire", "settle", "register", "run", "leave"}]
  /\ box \in [Call -> Sandbox \cup {None}]
  /\ at \in [Admin -> {"out", "sweep", "delete", "row", "active", "idle", "acquiring",
                       "managed", "safe", "update", "cancel"}]
  /\ op \in [Admin -> {"none", "begin", "worker", "finalize"}]
  /\ sweeping \in [Admin -> SUBSET Sandbox]
  /\ sandboxes \subseteq Sandbox /\ strays \subseteq Sandbox
  /\ \A c \in Call : /\ c \in active => pc[c] \in {"run", "leave"}
                     /\ pc[c] \in {"register", "run"} => box[c] # None
                     /\ pc[c] \in {"out", "gate", "acquire", "leave"} => box[c] = None
  /\ \A a \in Admin : gate = a => at[a] \in {"sweep", "delete"} /\ op[a] = "begin"

Init ==
  /\ row = "ACTIVE"
  /\ gate = None
  /\ acquiring = 0
  /\ idle = {}
  /\ active = {}
  /\ pc = [c \in Call |-> "out"]
  /\ box = [c \in Call |-> None]
  /\ at = [a \in Admin |-> "out"]
  /\ op = [a \in Admin |-> "none"]
  /\ sweeping = [a \in Admin |-> {}]
  /\ sandboxes = {}
  /\ strays = {}

Goto(c, from, to) ==
  /\ pc[c] = from
  /\ pc' = [pc EXCEPT ![c] = to]

Step(a, from, to) ==
  /\ at[a] = from
  /\ at' = [at EXCEPT ![a] = to]

\* A sandbox id neither the Runner nor the platform has anywhere.
Fresh(s) ==
  /\ s \notin sandboxes \cup strays \cup idle
  /\ \A c \in Call : box[c] # s
  /\ \A a \in Admin : s \notin sweeping[a]

-----------------------------------------------------------------------------
(***************************************************************************)
(* Invocations                                                             *)
(***************************************************************************)

\* LifecycleRunnerService.invoke: the early check.
Invoke(c) ==
  /\ Goto(c, "out", "gate")
  /\ row = "ACTIVE"
  /\ UNCHANGED <<row, gate, acquiring, idle, active, box, adminVars, clusterVars>>

\* Mutant: the early check is enough.
MutPassGate(c) ==
  /\ Goto(c, "gate", "acquire")
  /\ gate = None
  /\ acquiring' = acquiring + 1
  /\ UNCHANGED <<row, gate, idle, active, box, adminVars, clusterVars>>

\* Mutant: the acquisition is not counted.
MutPassUncounted(c) ==
  /\ Goto(c, "gate", "acquire")
  /\ gate = None
  /\ row = "ACTIVE"
  /\ UNCHANGED <<row, gate, acquiring, idle, active, box, adminVars, clusterVars>>

\* LifecycleWorkerPool.acquire: the check and the count under the gate lock.
PassGate(c) ==
  /\ Goto(c, "gate", "acquire")
  /\ gate = None
  /\ row = "ACTIVE"
  /\ acquiring' = acquiring + 1
  /\ UNCHANGED <<row, gate, idle, active, box, adminVars, clusterVars>>

StoppedAtGate(c) ==
  /\ Goto(c, "gate", "out")
  /\ gate = None
  /\ row # "ACTIVE"
  /\ UNCHANGED <<row, gate, acquiring, idle, active, box, adminVars, clusterVars>>

AcquireReuses(c) ==
  /\ Goto(c, "acquire", "settle")
  /\ \E s \in idle :
       /\ idle' = idle \ {s}
       /\ box' = [box EXCEPT ![c] = s]
  /\ UNCHANGED <<row, gate, acquiring, active, adminVars, clusterVars>>

AcquireCreates(c) ==
  /\ Goto(c, "acquire", "settle")
  /\ \E s \in Sandbox :
       /\ Fresh(s)
       /\ sandboxes' = sandboxes \cup {s}
       /\ box' = [box EXCEPT ![c] = s]
  /\ UNCHANGED <<row, gate, acquiring, idle, active, adminVars, strays>>

\* Nothing was created, or the creation timed out: the platform may serve the
\* request all the same, now or later.
AcquireFails(c) ==
  /\ Goto(c, "acquire", "settle")
  /\ \/ UNCHANGED strays
     \/ /\ BackendFaults
        /\ \E s \in Sandbox : Fresh(s) /\ strays' = strays \cup {s}
  /\ UNCHANGED <<row, gate, acquiring, idle, active, box, adminVars, sandboxes>>

\* The finally block of acquire.
Settle(c) ==
  /\ Goto(c, "settle", IF box[c] = None THEN "leave" ELSE "register")
  /\ gate = None
  /\ acquiring' = IF acquiring > 0 THEN acquiring - 1 ELSE 0
  /\ UNCHANGED <<row, gate, idle, active, box, adminVars, clusterVars>>

Register(c) ==
  /\ Goto(c, "register", "run")
  /\ active' = active \cup {c}
  /\ UNCHANGED <<row, gate, acquiring, idle, box, adminVars, clusterVars>>

\* The invocation id is in use: the fresh worker is destroyed.
RegisterRefused(c) ==
  /\ Goto(c, "register", "leave")
  /\ box' = [box EXCEPT ![c] = None]
  /\ UNCHANGED <<row, gate, acquiring, idle, active, adminVars, clusterVars>>

\* The run has ended: the worker goes back to the pool, or is destroyed.
RunEnds(c) ==
  /\ Goto(c, "run", "leave")
  /\ box' = [box EXCEPT ![c] = None]
  /\ idle' = idle \cup {box[c]} \/ UNCHANGED idle
  /\ UNCHANGED <<row, gate, acquiring, active, adminVars, clusterVars>>

\* Mutant: the registration is not taken back.
MutLeave(c) ==
  /\ Goto(c, "leave", "out")
  /\ UNCHANGED <<row, gate, acquiring, idle, active, box, adminVars, clusterVars>>

Leave(c) ==
  /\ Goto(c, "leave", "out")
  /\ active' = active \ {c}
  /\ UNCHANGED <<row, gate, acquiring, idle, box, adminVars, clusterVars>>

\* WorkerPool.reap and the loop of acquire over its stale workers.
Reap ==
  /\ \E old \in SUBSET idle : old # {} /\ idle' = idle \ old
  /\ UNCHANGED <<row, gate, acquiring, active, callVars, adminVars, clusterVars>>

\* A sandbox ends, or a request nobody waits for comes to nothing.
SandboxGone(s) ==
  /\ s \in sandboxes \cup strays
  /\ sandboxes' = sandboxes \ {s}
  /\ strays' = strays \ {s}
  /\ UNCHANGED <<row, gate, acquiring, idle, active, callVars, adminVars>>

\* The platform serves a creation request after its caller has gone.
LateCreation(s) ==
  /\ s \in strays \ sandboxes
  /\ sandboxes' = sandboxes \cup {s}
  /\ UNCHANGED <<row, gate, acquiring, idle, active, callVars, adminVars, strays>>

-----------------------------------------------------------------------------
(***************************************************************************)
(* begin_runtime_retirement: the row and the sweep over the idle workers   *)
(* under the gate lock, then a status.                                     *)
(***************************************************************************)

\* A row that is RETIRED stays so, and the status is not safe then.
Begin(a) ==
  /\ at[a] = "out"
  /\ gate = None
  /\ row # "RETIRED"
  /\ row' = "RETIRING"
  /\ gate' = a
  /\ at' = [at EXCEPT ![a] = "sweep"]
  /\ op' = [op EXCEPT ![a] = "begin"]
  /\ UNCHANGED <<acquiring, idle, active, callVars, sweeping, clusterVars>>

\* retire_runtime pops every bucket of the image.
Sweep(a) ==
  /\ Step(a, "sweep", "delete")
  /\ sweeping' = [sweeping EXCEPT ![a] = idle]
  /\ idle' = {}
  /\ UNCHANGED <<row, gate, acquiring, active, callVars, op, clusterVars>>

\* retire_idle_worker: one idle worker, without the gate.
RetireIdleWorker(a) ==
  /\ Step(a, "out", "delete")
  /\ \E s \in idle :
       /\ idle' = idle \ {s}
       /\ sweeping' = [sweeping EXCEPT ![a] = {s}]
  /\ op' = [op EXCEPT ![a] = "worker"]
  /\ UNCHANGED <<row, gate, acquiring, active, callVars, clusterVars>>

Unlock(a) == gate' = IF gate = a THEN None ELSE gate

\* _destroy of one worker; nothing is left to do if a late cancel is at it.
DeleteNext(a) ==
  /\ at[a] = "delete"
  /\ \E s \in sweeping[a] :
       /\ sweeping' = [sweeping EXCEPT ![a] = @ \ {s}]
       /\ sandboxes' \in {sandboxes, sandboxes \ {s}}
  /\ UNCHANGED <<row, gate, acquiring, idle, active, callVars, at, op, strays>>

\* The deletion raises out of the loop: the other workers are dropped.
DeleteRaises(a) ==
  /\ BackendFaults
  /\ Step(a, "delete", "out")
  /\ sweeping[a] # {}
  /\ sweeping' = [sweeping EXCEPT ![a] = {}]
  /\ op' = [op EXCEPT ![a] = "none"]
  /\ Unlock(a)
  /\ UNCHANGED <<row, acquiring, idle, active, callVars, clusterVars>>

DeleteDone(a) ==
  /\ Step(a, "delete", IF op[a] = "begin" THEN "row" ELSE "out")
  /\ sweeping[a] = {}
  /\ op' = [op EXCEPT ![a] = IF @ = "begin" THEN @ ELSE "none"]
  /\ Unlock(a)
  /\ UNCHANGED <<row, acquiring, idle, active, callVars, sweeping, clusterVars>>

-----------------------------------------------------------------------------
(***************************************************************************)
(* runtime_image_status, called by begin and by finalize: five reads, one  *)
(* after the other.                                                        *)
(***************************************************************************)
Finalize(a) ==
  /\ Step(a, "out", "row")
  /\ op' = [op EXCEPT ![a] = "finalize"]
  /\ UNCHANGED <<row, gate, acquiring, idle, active, callVars, sweeping, clusterVars>>

\* A read that does not rule safety out goes on, any other one ends the call.
Read(a, from, clear, to) ==
  /\ Step(a, from, IF clear THEN to ELSE "out")
  /\ op' = [op EXCEPT ![a] = IF clear THEN @ ELSE "none"]
  /\ UNCHANGED <<row, gate, acquiring, idle, active, callVars, sweeping, clusterVars>>

ReadRow(a) == Read(a, "row", row = "RETIRING", "active")
ReadActive(a) == Read(a, "active", active = {}, "idle")
ReadIdle(a) == Read(a, "idle", idle = {}, "acquiring")
ReadAcquiring(a) == gate = None /\ Read(a, "acquiring", acquiring = 0, "managed")

Decided(a) == IF op[a] = "begin" THEN "safe" ELSE "update"

\* list_managed: a page that cannot be read counts as empty.
ReadManaged(a) ==
  \E clear \in {sandboxes = {}} \cup (IF ListFaults THEN {TRUE} ELSE {}) :
    Read(a, "managed", clear, Decided(a))

\* begin answers that the artifact may be deleted.
AnswerSafe(a) ==
  /\ Step(a, "safe", "out")
  /\ op' = [op EXCEPT ![a] = "none"]
  /\ UNCHANGED <<row, gate, acquiring, idle, active, callVars, sweeping, clusterVars>>

\* finalize_retirement: the UPDATE has no condition on the state.
Update(a) ==
  /\ Step(a, "update", "out")
  /\ row' = IF row = "ACTIVE" THEN "ACTIVE" ELSE "RETIRED"
  /\ op' = [op EXCEPT ![a] = "none"]
  /\ UNCHANGED <<gate, acquiring, idle, active, callVars, sweeping, clusterVars>>

-----------------------------------------------------------------------------
(***************************************************************************)
(* cancel_runtime_retirement: the check, then DELETE ... AND state =       *)
(* 'RETIRING' under the gate lock.                                         *)
(***************************************************************************)
CancelCheck(a) ==
  /\ Cancels
  /\ Step(a, "out", "cancel")
  /\ row # "RETIRED"
  /\ UNCHANGED <<row, gate, acquiring, idle, active, callVars, op, sweeping, clusterVars>>

\* Mutant: the statement relies on the check.
MutCancelDelete(a) ==
  /\ Step(a, "cancel", "out")
  /\ gate = None
  /\ row' = "ACTIVE"
  /\ UNCHANGED <<gate, acquiring, idle, active, callVars, op, sweeping, clusterVars>>

CancelDelete(a) ==
  /\ Step(a, "cancel", "out")
  /\ gate = None
  /\ row' = IF row = "RETIRING" THEN "ACTIVE" ELSE row
  /\ UNCHANGED <<gate, acquiring, idle, active, callVars, op, sweeping, clusterVars>>

-----------------------------------------------------------------------------
\* The process dies and starts again: the row stays, cleanup_managed deletes
\* the sandboxes it finds before the gateway serves.  The creation requests that
\* were under way stay with the platform.
Restart ==
  /\ gate' = None
  /\ acquiring' = 0
  /\ idle' = {}
  /\ active' = {}
  /\ pc' = [c \in Call |-> "out"]
  /\ box' = [c \in Call |-> None]
  /\ at' = [a \in Admin |-> "out"]
  /\ op' = [a \in Admin |-> "none"]
  /\ sweeping' = [a \in Admin |-> {}]
  /\ sandboxes' \in IF BackendFaults \/ ListFaults THEN SUBSET sandboxes ELSE {{}}
  /\ \E late \in SUBSET {s \in Sandbox : Fresh(s)} :
       /\ Cardinality(late) <= Cardinality({c \in Call : pc[c] = "acquire"})
       /\ strays' = strays \cup late
  /\ UNCHANGED row

-----------------------------------------------------------------------------
CallStep(c) ==
  \/ PassGate(c) \/ StoppedAtGate(c)
  \/ AcquireReuses(c) \/ AcquireCreates(c) \/ AcquireFails(c)
  \/ Register(c) \/ RegisterRefused(c) \/ RunEnds(c) \/ Leave(c)

StatusStep(a) ==
  \/ ReadRow(a) \/ ReadActive(a) \/ ReadIdle(a) \/ ReadAcquiring(a) \/ ReadManaged(a)

AdminStep(a) ==
  \/ Sweep(a) \/ DeleteNext(a) \/ DeleteRaises(a) \/ DeleteDone(a)
  \/ StatusStep(a) \/ AnswerSafe(a) \/ Update(a) \/ CancelDelete(a)

Next ==
  \/ \E c \in Call : Invoke(c) \/ CallStep(c) \/ Settle(c)
  \/ \E a \in Admin : \/ Begin(a) \/ RetireIdleWorker(a) \/ Finalize(a) \/ CancelCheck(a)
                      \/ AdminStep(a)
  \/ Reap
  \/ \E s \in Sandbox : SandboxGone(s) \/ LateCreation(s)
  \/ Restart

Spec == Init /\ [][Next]_vars

(***************************************************************************)
(* A thread goes on, and gets the gate lock in the end; the maintenance    *)
(* loop reaps; a sandbox no call is using is deleted or reaches its TTL.   *)
(***************************************************************************)
Fairness ==
  /\ \A c \in Call : WF_vars(CallStep(c)) /\ SF_vars(Settle(c))
  /\ \A a \in Admin : WF_vars(AdminStep(a))
  /\ WF_vars(Reap)
  /\ \A s \in Sandbox : WF_vars((\A c \in Call : box[c] # s) /\ s \in sandboxes /\ SandboxGone(s))

FairSpec == Spec /\ Fairness

-----------------------------------------------------------------------------
(***************************************************************************)
(* Safety                                                                  *)
(***************************************************************************)

\* A sandbox runs from the image and may serve an invocation, or an acquisition
\* that may make it so is under way.  A stray serves nobody: no Worker object
\* stands for it, and it ends with its TTL.
InUse == sandboxes \ strays # {} \/ \E c \in Call : pc[c] = "acquire"

\* A retirement is final, or answered as safe for artifact deletion, only
\* when no sandbox that can serve an invocation runs from the image and none can
\* come to.  It holds as long as the list of sandboxes is complete and no
\* retirement is cancelled under the feet of another admin.
SafeMeansQuiet ==
  row = "RETIRED" \/ (\E a \in Admin : at[a] \in {"safe", "update"}) => ~InUse

\* What finalize refuses: "runtime still has an active invocation, sandbox
\* acquisition, idle worker or managed sandbox".
RetiredMeansQuiet == row = "RETIRED" => ~InUse

\* The same of every sandbox, strays included: a creation request that outlives
\* its caller breaks it, see the README.
RetiredMeansGone == row = "RETIRED" => sandboxes = {}

\* The counter is the number of acquisitions between the gate and the finally
\* block: no failure, refusal or restart leaks one.
AcquiringExact == acquiring = Cardinality({c \in Call : pc[c] \in {"acquire", "settle"}})

\* "a RETIRED runtime cannot be reactivated", whatever has happened between
\* the check of cancel and its statement.
NeverReactivated == [][row = "RETIRED" => row' = "RETIRED"]_vars

\* The gate of the Runner is the abstract one, on the conditions of
\* SafeMeansQuiet: nothing starts behind it, and it becomes final out of use.
Gate == INSTANCE ImageGate WITH state <- row, inUse <- InUse

ImplementsImageGate == Gate!Spec

(***************************************************************************)
(* Liveness                                                                *)
(***************************************************************************)

\* What a status of an image that is RETIRING reads when it is safe.
Drained == active = {} /\ idle = {} /\ acquiring = 0 /\ sandboxes = {}

\* A retirement drains: the work in progress ends and no new work starts.
EveryRetirementDrains == row = "RETIRING" ~> Drained \/ row # "RETIRING"
=============================================================================
