--------------------------- MODULE NifiLeaseProofs ---------------------------
(***************************************************************************)
(* Proofs about NifiLease, for every number of tasks, every TTL and every  *)
(* smaller margin, with purges and any number of lost calls.               *)
(***************************************************************************)
EXTENDS NifiLease, TLAPS

\* The steps of a task.
TaskStep(t) ==
  Proceed(t) \/ Failure(t)

\* The steps of the processor.
ProcessorStep ==
  (\E l \in Lease : Schedule(l) \/ ScheduleLost(l)) \/ Unschedule \/ Stop \/ StopFails

LEMMA NextCases ==
  ASSUME [Next]_vars
  PROVE  \/ ProcessorStep
         \/ \E t \in Task : TaskStep(t)
         \/ SwitchRefusal \/ (\E l \in Lease : LateRenew(l))
         \/ Tick \/ Purge \/ UNCHANGED vars
BY DEF Next, TaskStep, ProcessorStep

-----------------------------------------------------------------------------
(***************************************************************************)
(* Types.  A task that is not idle has a processor with a lease behind it, *)
(* because onStopped runs when no task does.                               *)
(***************************************************************************)
Scheduled ==
  \A t \in Task :
    /\ pc[t] # "idle" => phase # "stopped"
    /\ pc[t] # "invoke" => waited[t] = 0

TypeInv == TypeOK /\ Scheduled

\* The values a lease, the clock and the counter of losses are given.
LEMMA Bounds ==
  /\ Gone \in Gone .. TTL /\ TTL \in Gone .. TTL
  /\ 0 \in 0 .. TTL /\ TTL \in 0 .. TTL
  /\ 0 \in 0 .. Margin + 1
  /\ 0 \in 0 .. MaxLost
BY ConstantsAssumption DEF Gone

LEMMA LossBound ==
  ASSUME TypeOK, NEW ls, Lose(ls)
  PROVE  losses' \in 0 .. MaxLost /\ orphans' = orphans \cup ls /\ UNCHANGED refusing
BY ConstantsAssumption DEF TypeOK, Lose

LEMMA TypeInit == Init => TypeInv
<1> SUFFICES ASSUME Init PROVE TypeInv
  OBVIOUS
<1>1. left \in [Lease -> Gone .. TTL]  BY Bounds DEF Init
<1>2. waited \in [Task -> 0 .. Margin + 1]  BY Bounds DEF Init
<1>3. cached \in 0 .. TTL /\ losses \in 0 .. MaxLost  BY Bounds DEF Init
<1>4. /\ \A t \in Task : pc[t] = "idle" /\ mine[t] = None /\ waited[t] = 0
      /\ pc \in [Task -> {"idle", "ensure", "renew", "update", "acquire", "invoke"}]
      /\ mine \in [Task -> Lease \cup {None}]
  BY DEF Init
<1>5. QED  BY <1>1, <1>2, <1>3, <1>4, ConstantsAssumption DEF Init, TypeInv, TypeOK, Scheduled

LEMMA TypeProcessor ==
  ASSUME TypeInv, ProcessorStep
  PROVE  TypeInv'
<1> USE ConstantsAssumption, Bounds, LossBound
    DEF TypeInv, TypeOK, Scheduled, Create, Hold, processor, tasks, network
<1>1. ASSUME NEW l \in Lease, Schedule(l) PROVE TypeInv'
  BY <1>1 DEF Schedule
<1>2. ASSUME NEW l \in Lease, ScheduleLost(l) PROVE TypeInv'
  BY <1>2 DEF ScheduleLost
<1>3. CASE Unschedule  BY <1>3 DEF Unschedule
<1>4. CASE Stop  BY <1>4 DEF Stop
<1>5. CASE StopFails  BY <1>5 DEF StopFails
<1>6. QED  BY <1>1, <1>2, <1>3, <1>4, <1>5 DEF ProcessorStep

LEMMA TypeTask ==
  ASSUME TypeInv, NEW t \in Task, TaskStep(t)
  PROVE  TypeInv'
<1> USE ConstantsAssumption, Bounds, LossBound
    DEF TypeInv, TypeOK, Scheduled, Goto, Create, Hold, Use, Drop, Extend,
        processor, tasks, network
<1>1. CASE Trigger(t)  BY <1>1 DEF Trigger
<1>2. CASE EnsureCached(t)  BY <1>2 DEF EnsureCached
<1>3. CASE BeginRenew(t)  BY <1>3 DEF BeginRenew
<1>4. CASE RenewReads(t)  BY <1>4 DEF RenewReads
<1>5. CASE RenewRefused(t)  BY <1>5 DEF RenewRefused
<1>6. CASE RenewUpdates(t)  BY <1>6 DEF RenewUpdates
<1>7. ASSUME NEW l \in Lease, Acquire(t, l) PROVE TypeInv'
  BY <1>7 DEF Acquire
<1>8. CASE Invoke(t)  BY <1>8 DEF Invoke
<1>9. CASE InvokeRefused(t)  BY <1>9 DEF InvokeRefused
<1>10. CASE RenewLost(t)  BY <1>10 DEF RenewLost
<1>11. CASE CallFails(t)  BY <1>11 DEF CallFails
<1>12. ASSUME NEW l \in Lease, AcquireLost(t, l) PROVE TypeInv'
  BY <1>12 DEF AcquireLost
<1>13. CASE RenewBlocked(t)  BY <1>13 DEF RenewBlocked
<1>14. CASE RenewDelayed(t)
  <2>1. held \in Lease  BY <1>14 DEF RenewDelayed
  <2>2. QED  BY <1>14, <2>1 DEF RenewDelayed
<1>15. CASE AcquireRefused(t)  BY <1>15 DEF AcquireRefused
<1>16. QED
  BY <1>1, <1>2, <1>3, <1>4, <1>5, <1>6, <1>7, <1>8, <1>9, <1>10, <1>11, <1>12, <1>13, <1>14,
     <1>15
  DEF TaskStep, Proceed, Failure

LEMMA TypeStep == TypeInv /\ [Next]_vars => TypeInv'
<1> SUFFICES ASSUME TypeInv, [Next]_vars PROVE TypeInv'
  OBVIOUS
<1> USE ConstantsAssumption DEF TypeInv, TypeOK, Scheduled, Gone, processor, tasks, network
<1>1. CASE Tick
  <2>1. left' \in [Lease -> Gone .. TTL]  BY <1>1 DEF Tick
  <2>2. cached' \in 0 .. TTL  BY <1>1 DEF Tick
  <2>3. waited' \in [Task -> 0 .. Margin + 1]  BY <1>1 DEF Tick
  <2>4. \A t \in Task : pc[t] # "invoke" => waited'[t] = 0  BY <1>1 DEF Tick
  <2>5. QED  BY <1>1, <2>1, <2>2, <2>3, <2>4 DEF Tick
<1>2. CASE Purge  BY <1>2 DEF Purge
<1>3. CASE UNCHANGED vars  BY <1>3 DEF vars
<1>4. CASE SwitchRefusal  BY <1>4 DEF SwitchRefusal
<1>5. ASSUME NEW l \in Lease, LateRenew(l) PROVE TypeInv'
  <2>1. left' \in [Lease -> Gone .. TTL]  BY <1>5, Bounds DEF LateRenew
  <2>2. orphans' \subseteq Lease /\ delayed' \subseteq Lease  BY <1>5 DEF LateRenew
  <2>3. QED  BY <1>5, <2>1, <2>2 DEF LateRenew
<1>6. QED  BY <1>1, <1>2, <1>3, <1>4, <1>5, NextCases, TypeProcessor, TypeTask

\* The types of the lease table and of the processor's side; the monitor of
\* ensureLease belongs to the one task that renews.
THEOREM TypeCorrect == Spec => []TypeOK
<1>1. TypeInv => TypeOK  BY DEF TypeInv
<1>2. QED  BY <1>1, TypeInit, TypeStep, PTL DEF Spec

-----------------------------------------------------------------------------
(***************************************************************************)
(* What the processor believes is never more than what the Runner has, but *)
(* for a renewal that a purge overtook.                                    *)
(***************************************************************************)
Believed == held # None /\ held \notin late /\ cached > 0 => left[held] >= cached

Entrusted ==
  \A t \in Task :
    pc[t] = "invoke" /\ mine[t] \notin late /\ waited[t] <= Margin =>
      left[mine[t]] + waited[t] > Margin

\* A lease is replaced when the Runner has refused it, even if a late renewal has
\* revived it since.
Replacing == \A t \in Task : pc[t] = "acquire" => left[held] <= 0 \/ held \in orphans

LeaseInv == TypeInv /\ Believed /\ Entrusted /\ Replacing /\ NoLeaseForgotten

LEMMA LeaseInit == Init => LeaseInv
BY TypeInit, ConstantsAssumption
DEF Init, LeaseInv, Believed, Entrusted, Replacing, NoLeaseForgotten, Gone

LEMMA LeaseProcessor ==
  ASSUME LeaseInv, ProcessorStep
  PROVE  Believed' /\ Entrusted' /\ Replacing' /\ NoLeaseForgotten'
<1> USE ConstantsAssumption
    DEF LeaseInv, TypeInv, TypeOK, Scheduled, Believed, Entrusted, Replacing,
        NoLeaseForgotten, Gone, Create, Hold, Lose, processor, tasks, network
<1>1. ASSUME NEW l \in Lease, Schedule(l)
      PROVE  Believed' /\ Entrusted' /\ Replacing' /\ NoLeaseForgotten'
  BY <1>1 DEF Schedule
<1>2. ASSUME NEW l \in Lease, ScheduleLost(l)
      PROVE  Believed' /\ Entrusted' /\ Replacing' /\ NoLeaseForgotten'
  BY <1>2 DEF ScheduleLost
<1>3. CASE Unschedule  BY <1>3 DEF Unschedule
<1>4. CASE Stop  BY <1>4 DEF Stop
<1>5. CASE StopFails  BY <1>5 DEF StopFails
<1>6. QED  BY <1>1, <1>2, <1>3, <1>4, <1>5 DEF ProcessorStep

LEMMA LeaseTask ==
  ASSUME LeaseInv, NEW t \in Task, TaskStep(t)
  PROVE  Believed' /\ Entrusted' /\ Replacing' /\ NoLeaseForgotten'
<1> USE ConstantsAssumption
    DEF LeaseInv, TypeInv, TypeOK, Scheduled, Believed, Entrusted, Replacing,
        NoLeaseForgotten, Gone, Goto, Create, Hold, Use, Drop, Extend, Lose, processor,
        tasks, network
<1>1. CASE Trigger(t)  BY <1>1 DEF Trigger
<1>2. CASE EnsureCached(t)  BY <1>2 DEF EnsureCached
<1>3. CASE BeginRenew(t)  BY <1>3 DEF BeginRenew
<1>4. CASE RenewReads(t)  BY <1>4 DEF RenewReads
<1>5. CASE RenewRefused(t)  BY <1>5 DEF RenewRefused
<1>6. CASE RenewUpdates(t)  BY <1>6 DEF RenewUpdates
<1>7. ASSUME NEW l \in Lease, Acquire(t, l)
      PROVE  Believed' /\ Entrusted' /\ Replacing' /\ NoLeaseForgotten'
  BY <1>7 DEF Acquire
<1>8. CASE Invoke(t)  BY <1>8 DEF Invoke
<1>9. CASE InvokeRefused(t)  BY <1>9 DEF InvokeRefused
<1>10. CASE RenewLost(t)  BY <1>10 DEF RenewLost
<1>11. CASE CallFails(t)  BY <1>11 DEF CallFails
<1>12. ASSUME NEW l \in Lease, AcquireLost(t, l)
       PROVE  Believed' /\ Entrusted' /\ Replacing' /\ NoLeaseForgotten'
  BY <1>12 DEF AcquireLost
<1>13. CASE RenewBlocked(t)  BY <1>13 DEF RenewBlocked
<1>14. CASE RenewDelayed(t)  BY <1>14 DEF RenewDelayed
<1>15. CASE AcquireRefused(t)  BY <1>15 DEF AcquireRefused
<1>16. QED
  BY <1>1, <1>2, <1>3, <1>4, <1>5, <1>6, <1>7, <1>8, <1>9, <1>10, <1>11, <1>12, <1>13, <1>14,
     <1>15
  DEF TaskStep, Proceed, Failure

LEMMA LeaseStep == LeaseInv /\ [Next]_vars => LeaseInv'
<1> SUFFICES ASSUME LeaseInv, [Next]_vars PROVE LeaseInv'
  OBVIOUS
<1>1. TypeInv'  BY TypeStep DEF LeaseInv
<1> USE ConstantsAssumption
    DEF LeaseInv, TypeInv, TypeOK, Believed, Entrusted, Replacing, NoLeaseForgotten, Gone,
        processor, tasks, network
<1>2. CASE Tick
  <2>1. \A l \in Lease : left'[l] = IF left[l] > 0 THEN left[l] - 1 ELSE left[l]
    BY <1>2 DEF Tick
  <2>2. \A t \in Task :
          pc[t] = "invoke" /\ waited'[t] <= Margin =>
            waited'[t] = waited[t] + 1 /\ waited[t] <= Margin
    BY <1>2 DEF Tick
  <2>3. UNCHANGED <<held, late, pc, mine, orphans>>  BY <1>2 DEF Tick
  <2>4. cached' = IF cached > 0 THEN cached - 1 ELSE 0  BY <1>2 DEF Tick
  <2>5. Believed'  BY <2>1, <2>3, <2>4
  <2>6. Entrusted'
    <3> SUFFICES ASSUME NEW t \in Task, pc[t] = "invoke", mine[t] \notin late,
                        waited'[t] <= Margin
                 PROVE  left'[mine[t]] + waited'[t] > Margin
      BY <2>3
    <3>1. mine[t] \in Lease /\ left[mine[t]] + waited[t] > Margin  BY <2>2
    <3>2. QED  BY <2>1, <2>2, <3>1
  <2>7. Replacing'
    <3> SUFFICES ASSUME NEW t \in Task, pc[t] = "acquire" PROVE left'[held] <= 0 \/ held \in orphans
      BY <2>3
    <3>1. held \in Lease  BY DEF Scheduled
    <3>2. QED  BY <2>1, <3>1
  <2>8. NoLeaseForgotten'  BY <2>1, <2>3
  <2>9. QED  BY <1>1, <2>5, <2>6, <2>7, <2>8
<1>3. CASE Purge
  <2>1. \A l \in Lease : left'[l] = IF left[l] = 0 THEN Gone ELSE left[l]
    BY <1>3 DEF Purge
  <2>2. UNCHANGED <<held, cached, late, pc, mine, waited>>  BY <1>3 DEF Purge
  <2>3. \A l \in Lease : left[l] > 0 /\ l \in orphans => l \in orphans'  BY <1>3 DEF Purge
  <2>4. Believed'  BY <2>1, <2>2
  <2>5. Entrusted'
    <3> SUFFICES ASSUME NEW t \in Task, pc[t] = "invoke", mine[t] \notin late,
                        waited[t] <= Margin
                 PROVE  left'[mine[t]] + waited[t] > Margin
      BY <2>2
    <3>1. mine[t] \in Lease /\ left[mine[t]] + waited[t] > Margin  OBVIOUS
    <3>2. QED  BY <2>1, <3>1
  <2>6. Replacing'
    <3> SUFFICES ASSUME NEW t \in Task, pc[t] = "acquire" PROVE left'[held] <= 0 \/ held \in orphans'
      BY <2>2
    <3>1. held \in Lease  BY DEF Scheduled
    <3>2. QED  BY <2>1, <2>3, <3>1
  <2>7. NoLeaseForgotten'  BY <2>1, <2>2, <2>3
  <2>8. QED  BY <1>1, <2>4, <2>5, <2>6, <2>7
<1>4. CASE UNCHANGED vars  BY <1>1, <1>4 DEF vars
<1>5. CASE SwitchRefusal  BY <1>1, <1>5 DEF SwitchRefusal
<1>6. ASSUME NEW l \in Lease, LateRenew(l) PROVE LeaseInv'
  <2>1. \A k \in Lease : left'[k] = IF k = l /\ left[k] # Gone THEN TTL ELSE left[k]
    BY <1>6 DEF LateRenew
  <2>2. \A k \in Lease : left[k] \in Int /\ left'[k] \in Int /\ left'[k] >= left[k]  BY <2>1
  <2>3. UNCHANGED <<held, cached, late, pc, mine, waited>>  BY <1>6 DEF LateRenew
  <2>4. /\ orphans \subseteq orphans'
        /\ left[l] # Gone /\ (l # held \/ \E t \in Task : pc[t] = "acquire") => l \in orphans'
    BY <1>6 DEF LateRenew
  <2>5. Believed'  BY <2>2, <2>3
  <2>6. Entrusted'
    <3> SUFFICES ASSUME NEW t \in Task, pc[t] = "invoke", mine[t] \notin late,
                        waited[t] <= Margin
                 PROVE  left'[mine[t]] + waited[t] > Margin
      BY <2>3
    <3>1. mine[t] \in Lease /\ left[mine[t]] + waited[t] > Margin  OBVIOUS
    <3>2. QED  BY <2>2, <3>1
  <2>7. Replacing'
    <3> SUFFICES ASSUME NEW t \in Task, pc[t] = "acquire" PROVE left'[held] <= 0 \/ held \in orphans'
      BY <2>3
    <3>1. held \in Lease  BY DEF Scheduled
    <3>2. QED  BY <2>1, <2>4, <3>1
  <2>8. NoLeaseForgotten'  BY <2>1, <2>3, <2>4
  <2>9. QED  BY <1>1, <2>5, <2>6, <2>7, <2>8
<1>7. QED  BY <1>1, <1>2, <1>3, <1>4, <1>5, <1>6, NextCases, LeaseProcessor, LeaseTask

LEMMA Leases == Spec => []LeaseInv
BY LeaseInit, LeaseStep, PTL DEF Spec

\* The margin of ensureLease covers the way to the Runner: a task that was given a
\* lease, and reaches the Runner before the margin has passed, invokes with one the
\* Runner still has.
THEOREM InvokedIsKnown == Spec => []InvokedLeaseIsKnown
<1>1. LeaseInv => InvokedLeaseIsKnown
  BY ConstantsAssumption DEF LeaseInv, TypeInv, TypeOK, Entrusted, InvokedLeaseIsKnown, Gone
<1>2. QED  BY <1>1, Leases, PTL

\* ensureLease and onStopped leave no usable lease behind, but for those that live
\* because of a lost call: its answer had the id, or it renewed the lease too late.
THEOREM NoneForgotten == Spec => []NoLeaseForgotten
<1>1. LeaseInv => NoLeaseForgotten  BY DEF LeaseInv
<1>2. QED  BY <1>1, Leases, PTL
=============================================================================
