------------------------------- MODULE NifiLease -------------------------------
(***************************************************************************)
(* The lease of a NiFi processor: ManagedPythonTransform and its           *)
(* GrpcManagedPythonRuntimeService (nifi/), the calls AcquireLease,        *)
(* RenewLease and ReleaseLease of the Runner, and the rows of              *)
(* runner.leases (state.py).                                               *)
(*                                                                         *)
(* NiFi runs several onTrigger tasks of a processor at once and calls      *)
(* onStopped when the last of them has returned; that is NiFi's contract   *)
(* and modelled as such.  The Runner reads a lease and extends it in two   *)
(* transactions, and purges expired leases in a thread of its own.         *)
(*                                                                         *)
(* Abstractions.  Time is what is left of each lease, in ticks; both sides *)
(* have the same clock.  The reads of the gateway and of renew_lease are   *)
(* one, the later: what the first refuses the second does.  Tenants and    *)
(* releases match.  That the Runner refuses a release (its image is being  *)
(* retired, its catalog entry or its policy is gone) is a switch.          *)
(***************************************************************************)
EXTENDS Integers

CONSTANTS
  Task,       \* concurrent tasks of the processor
  Lease,      \* lease ids; one that nothing names any more stands for a new one
  TTL,        \* RUNNER_LEASE_TTL_MS
  Margin,     \* renewBefore: a lease with no more than this left is renewed
  MaxLost,    \* bound: calls that fail or whose answer is lost
  None

ASSUME ConstantsAssumption ==
  /\ Margin \in Nat \ {0} /\ TTL \in Nat /\ Margin < TTL
  /\ MaxLost \in Nat
  /\ None \notin Lease \cup Task

VARIABLES
  left,       \* runner.leases: what is left of each lease, Gone when there is no row
  phase,      \* the state NiFi has the processor in
  held,       \* lease.get(): the lease id
  cached,     \* lease.get(): what is left of it by expiresAtEpochMs
  monitor,    \* the task inside the synchronized ensureLease
  pc,         \* of a task: where it is
  mine,       \* of a task: the lease it invokes with
  waited,     \* of a task: the ticks since ensureLease gave it that lease
  late,       \* auxiliary: leases renewed after their row had been purged
  refusing,   \* the Runner gives no leases of this release
  delayed,    \* leases of which the Runner still has a renewal to carry out
  losses,     \* calls that have failed so far
  orphans     \* auxiliary: leases that live because of a lost call

processor == <<phase, held, cached>>
tasks == <<pc, mine, waited>>
network == <<refusing, delayed, losses, orphans>>
vars == <<left, processor, monitor, tasks, late, network>>

Gone == -1

TypeOK ==
  /\ left \in [Lease -> Gone .. TTL]
  /\ phase \in {"stopped", "running", "stopping"}
  /\ held \in Lease \cup {None}
  /\ cached \in 0 .. TTL
  /\ monitor \in Task \cup {None}
  /\ pc \in [Task -> {"idle", "ensure", "renew", "update", "acquire", "invoke"}]
  /\ mine \in [Task -> Lease \cup {None}]
  /\ waited \in [Task -> 0 .. Margin + 1]
  /\ late \subseteq Lease
  /\ refusing \in BOOLEAN
  /\ delayed \subseteq Lease
  /\ losses \in 0 .. MaxLost
  /\ orphans \subseteq Lease
  /\ \A t \in Task :
       /\ monitor = t <=> pc[t] \in {"renew", "update", "acquire"}
       /\ pc[t] = "invoke" <=> mine[t] \in Lease
  /\ phase = "stopped" <=> held = None

Init ==
  /\ left = [l \in Lease |-> Gone]
  /\ phase = "stopped"
  /\ held = None
  /\ cached = 0
  /\ monitor = None
  /\ pc = [t \in Task |-> "idle"]
  /\ mine = [t \in Task |-> None]
  /\ waited = [t \in Task |-> 0]
  /\ late = {}
  /\ refusing = FALSE
  /\ delayed = {}
  /\ losses = 0
  /\ orphans = {}

Goto(t, from, to) ==
  /\ pc[t] = from
  /\ pc' = [pc EXCEPT ![t] = to]

\* A call fails; a lease it has left behind on the Runner is an orphan.
Lose(ls) ==
  /\ losses < MaxLost
  /\ losses' = losses + 1
  /\ orphans' = orphans \cup ls
  /\ UNCHANGED refusing

\* acquire_lease of a release that is not refused: a row with a new id.
Create(l) ==
  /\ ~refusing
  /\ left[l] = Gone
  /\ l # held /\ l \notin delayed
  /\ \A t \in Task : mine[t] # l
  /\ left' = [left EXCEPT ![l] = TTL]
  /\ late' = late \ {l}

Hold(l, time) ==
  /\ held' = l
  /\ cached' = time

\* ensureLease returns lease l to the task.
Use(t, l) == mine' = [mine EXCEPT ![t] = l]

Drop(t) ==
  /\ mine' = [mine EXCEPT ![t] = None]
  /\ waited' = [waited EXCEPT ![t] = 0]

-----------------------------------------------------------------------------
(***************************************************************************)
(* The processor: onScheduled and onStopped                                *)
(***************************************************************************)

Schedule(l) ==
  /\ phase = "stopped"
  /\ phase' = "running"
  /\ Create(l)
  /\ Hold(l, TTL)
  /\ UNCHANGED <<network, monitor, tasks>>

\* The answer of AcquireLease is lost: NiFi tries again.
ScheduleLost(l) ==
  /\ phase = "stopped"
  /\ Create(l)
  /\ Lose({l})
  /\ UNCHANGED <<delayed, processor, monitor, tasks>>

\* No task starts any more.
Unschedule ==
  /\ phase = "running"
  /\ phase' = "stopping"
  /\ UNCHANGED <<network, left, held, cached, monitor, tasks, late>>

\* onStopped forgets the lease but does not give it back.
MutStop ==
  /\ phase = "stopping"
  /\ \A t \in Task : pc[t] = "idle"
  /\ phase' = "stopped"
  /\ Hold(None, 0)
  /\ UNCHANGED <<network, left, monitor, tasks, late>>

\* getAndSet(null), then ReleaseLease; the gateway refuses an expired lease.
Stop ==
  /\ phase = "stopping"
  /\ \A t \in Task : pc[t] = "idle"
  /\ phase' = "stopped"
  /\ left' = [left EXCEPT ![held] = IF @ > 0 THEN Gone ELSE @]
  /\ Hold(None, 0)
  /\ UNCHANGED <<network, monitor, tasks, late>>

\* ReleaseLease is not carried out: a warning is logged.
StopFails ==
  /\ phase = "stopping"
  /\ \A t \in Task : pc[t] = "idle"
  /\ phase' = "stopped"
  /\ Hold(None, 0)
  /\ Lose({held})
  /\ UNCHANGED <<delayed, left, monitor, tasks, late>>

-----------------------------------------------------------------------------
(***************************************************************************)
(* A task: onTrigger and ensureLease                                       *)
(***************************************************************************)

Trigger(t) ==
  /\ phase = "running"
  /\ Goto(t, "idle", "ensure")
  /\ UNCHANGED <<network, left, processor, monitor, mine, waited, late>>

\* The comparison with renewBefore the other way round at the margin.
MutEnsureCached(t) ==
  /\ monitor = None
  /\ cached >= Margin
  /\ Goto(t, "ensure", "invoke")
  /\ Use(t, held)
  /\ UNCHANGED <<network, left, processor, monitor, waited, late>>

EnsureCached(t) ==
  /\ monitor = None
  /\ cached > Margin
  /\ Goto(t, "ensure", "invoke")
  /\ Use(t, held)
  /\ UNCHANGED <<network, left, processor, monitor, waited, late>>

BeginRenew(t) ==
  /\ monitor = None
  /\ cached <= Margin
  /\ Goto(t, "ensure", "renew")
  /\ monitor' = t
  /\ UNCHANGED <<network, left, processor, mine, waited, late>>

\* RenewLease: require_lease finds it.
RenewReads(t) ==
  /\ Goto(t, "renew", "update")
  /\ left[held] > 0
  /\ UNCHANGED <<network, left, processor, monitor, mine, waited, late>>

\* LEASE_UNKNOWN and LEASE_EXPIRED taken for any other error.
MutRenewRefused(t) ==
  /\ Goto(t, "renew", "idle")
  /\ left[held] <= 0
  /\ monitor' = None
  /\ UNCHANGED <<network, left, processor, mine, waited, late>>

\* LEASE_UNKNOWN or LEASE_EXPIRED.
RenewRefused(t) ==
  /\ Goto(t, "renew", "acquire")
  /\ left[held] <= 0
  /\ UNCHANGED <<network, left, processor, monitor, mine, waited, late>>

\* The UPDATE changes no row when the lease has been purged since.
Extend ==
  /\ left' = [left EXCEPT ![held] = IF @ = Gone THEN @ ELSE TTL]
  /\ late' = IF left[held] = Gone THEN late \cup {held} ELSE late

RenewUpdates(t) ==
  /\ Goto(t, "update", "invoke")
  /\ Extend
  /\ Hold(held, TTL)
  /\ Use(t, held)
  /\ monitor' = None
  /\ UNCHANGED <<network, phase, waited>>

\* A retiring image refuses the renewal too: the session is rolled back.
RenewBlocked(t) ==
  /\ refusing
  /\ Goto(t, "renew", "idle")
  /\ left[held] > 0
  /\ monitor' = None
  /\ UNCHANGED <<network, left, processor, mine, waited, late>>

\* The answer of RenewLease is lost: the session is rolled back.
RenewLost(t) ==
  /\ Goto(t, "update", "idle")
  /\ Extend
  /\ monitor' = None
  /\ Lose({})
  /\ UNCHANGED <<delayed, processor, mine, waited>>

\* The connection breaks, and the Runner renews the lease when it gets to it.
RenewDelayed(t) ==
  /\ pc[t] \in {"renew", "update"}
  /\ pc' = [pc EXCEPT ![t] = "idle"]
  /\ delayed' = delayed \cup {held}
  /\ monitor' = None
  /\ Lose({})
  /\ UNCHANGED <<left, processor, mine, waited, late>>

Acquire(t, l) ==
  /\ Goto(t, "acquire", "invoke")
  /\ Create(l)
  /\ Hold(l, TTL)
  /\ Use(t, l)
  /\ monitor' = None
  /\ UNCHANGED <<network, phase, waited>>

AcquireLost(t, l) ==
  /\ Goto(t, "acquire", "idle")
  /\ Create(l)
  /\ monitor' = None
  /\ Lose({l})
  /\ UNCHANGED <<delayed, processor, mine, waited>>

\* RUNTIME_RETIRING, RUNTIME_RETIRED, an unknown release or policy: the session is
\* rolled back, and the processor still has its dead lease.
AcquireRefused(t) ==
  /\ refusing
  /\ Goto(t, "acquire", "idle")
  /\ monitor' = None
  /\ UNCHANGED <<network, left, processor, mine, waited, late>>

\* A call fails before the Runner has done anything: the session is rolled back.
CallFails(t) ==
  /\ pc[t] \in {"renew", "acquire"}
  /\ pc' = [pc EXCEPT ![t] = "idle"]
  /\ monitor' = None
  /\ Lose({})
  /\ UNCHANGED <<delayed, left, processor, mine, waited, late>>

\* The Runner takes the invocation; what becomes of it does not touch the lease.
Invoke(t) ==
  /\ Goto(t, "invoke", "idle")
  /\ left[mine[t]] > 0
  /\ Drop(t)
  /\ UNCHANGED <<network, left, processor, monitor, late>>

\* LEASE_UNKNOWN or LEASE_EXPIRED: the session is rolled back.
InvokeRefused(t) ==
  /\ Goto(t, "invoke", "idle")
  /\ left[mine[t]] <= 0
  /\ Drop(t)
  /\ UNCHANGED <<network, left, processor, monitor, late>>

-----------------------------------------------------------------------------
(***************************************************************************)
(* The Runner, its purge and the clock                                     *)
(***************************************************************************)

\* A retirement closes the gate of the image, a cancelled one opens it again.
SwitchRefusal ==
  /\ refusing' = ~refusing
  /\ UNCHANGED <<left, processor, monitor, tasks, late, delayed, losses, orphans>>

\* The renewal of a call that has failed long ago.  A lease the processor has given
\* up, or is about to replace, lives on because of it.
LateRenew(l) ==
  /\ l \in delayed
  /\ delayed' = delayed \ {l}
  /\ left' = [left EXCEPT ![l] = IF @ = Gone THEN @ ELSE TTL]
  /\ orphans' = IF left[l] # Gone /\ (l # held \/ \E t \in Task : pc[t] = "acquire")
                THEN orphans \cup {l} ELSE orphans
  /\ UNCHANGED <<refusing, losses, processor, monitor, tasks, late>>

\* An invocation may wait for longer than the margin before the Runner takes it;
\* waited counts one tick further and no more.
Tick ==
  /\ left' = [l \in Lease |-> IF left[l] > 0 THEN left[l] - 1 ELSE left[l]]
  /\ cached' = IF cached > 0 THEN cached - 1 ELSE 0
  /\ waited' = [t \in Task |->
                 IF pc[t] = "invoke" /\ waited[t] <= Margin THEN waited[t] + 1 ELSE waited[t]]
  /\ UNCHANGED <<network, phase, held, monitor, pc, mine, late>>

Purge ==
  /\ \E l \in Lease : left[l] = 0
  /\ left' = [l \in Lease |-> IF left[l] = 0 THEN Gone ELSE left[l]]
  /\ orphans' = {l \in orphans : left[l] > 0}
  /\ UNCHANGED <<refusing, delayed, losses, processor, monitor, tasks, late>>

-----------------------------------------------------------------------------
Proceed(t) ==
  \/ Trigger(t) \/ EnsureCached(t) \/ BeginRenew(t)
  \/ RenewReads(t) \/ RenewRefused(t) \/ RenewBlocked(t) \/ RenewUpdates(t)
  \/ \E l \in Lease : Acquire(t, l)
  \/ AcquireRefused(t)
  \/ Invoke(t) \/ InvokeRefused(t)

\* A call of a task fails.
Failure(t) ==
  \/ RenewLost(t) \/ RenewDelayed(t) \/ CallFails(t)
  \/ \E l \in Lease : AcquireLost(t, l)

Next ==
  \/ \E l \in Lease : Schedule(l) \/ ScheduleLost(l)
  \/ Unschedule \/ Stop \/ StopFails
  \/ \E t \in Task : Proceed(t) \/ Failure(t)
  \/ SwitchRefusal \/ \E l \in Lease : LateRenew(l)
  \/ Tick \/ Purge

Spec == Init /\ [][Next]_vars

\* FlowFiles keep arriving, tasks run on, and time passes.
FairSpec == Spec /\ WF_vars(Tick) /\ WF_vars(Purge) /\ \A t \in Task : WF_vars(Proceed(t))

-----------------------------------------------------------------------------
(***************************************************************************)
(* Properties                                                              *)
(***************************************************************************)

\* The lease ensureLease has given a task is still good when the invocation reaches
\* the Runner within the margin, whatever the other tasks, the purge and calls that
\* were lost do meanwhile; except after a renewal that a purge overtook.
InvokedLeaseIsKnown ==
  \A t \in Task :
    pc[t] = "invoke" /\ waited[t] <= Margin /\ mine[t] \notin late => left[mine[t]] > 0

\* A task that replaces the lease and a stop leave none behind that could still be
\* used, but for those whose id a lost answer kept from the processor, and those that
\* a lost renewal has revived.
NoLeaseForgotten ==
  \A l \in Lease : left[l] > 0 => l = held \/ l \in orphans

HasDeadLease == phase = "running" /\ held \in {l \in Lease : left[l] <= 0}

\* A dead lease is replaced in the end, as long as the processor runs and unless the
\* Runner refuses its release again and again.
OutageEnds == <>[]~refusing => (HasDeadLease ~> ~HasDeadLease)

\* "reacquires it if the Runner reports LEASE_UNKNOWN or LEASE_EXPIRED"
\* (nifi/README.md): a task is never sent to the Runner with a lease it does not know.
UnknownLeaseReacquired ==
  [][\A t \in Task :
       pc[t] # "invoke" /\ pc'[t] = "invoke" => left'[mine'[t]] > 0]_vars
=============================================================================
