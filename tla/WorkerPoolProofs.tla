-------------------------- MODULE WorkerPoolProofs --------------------------
(***************************************************************************)
(* Proofs about WorkerPool, for every number of threads, workers, tenants  *)
(* and every quota, with and without faults of the backend, and about the  *)
(* agent in each worker (WorkerAgent).                                     *)
(***************************************************************************)
EXTENDS WorkerPool, WorkerAgent, FiniteSetTheorems, TLAPS

-----------------------------------------------------------------------------
(***************************************************************************)
(* The strengthening.  Shape ties the local variables of an actor to its   *)
(* control location; Identities says which Worker objects exist and that   *)
(* nobody points at an identity that is still being created.               *)
(***************************************************************************)
Serving == {"warm", "reserve", "slot", "create", "install", "undo", "unreserve", "hold", "park"}
Pointing == {"condemn", "cancelling"} \cup Deleting
Unborn == Reserved \cup {"install", "undo"}

Shape ==
  \A a \in Actor :
    /\ pc[a] \in Serving => req[a] # None /\ stale[a] = {}
    /\ pc[a] \in Serving \ {"reserve"} => worker[a] # None
    /\ pc[a] \in {"out", "cancelling", "reserve"} => worker[a] = None /\ stale[a] = {}
    /\ pc[a] \in {"out", "cancelling"} => req[a] = None
    /\ pc[a] \in Pointing <=> doomed[a] # None
    /\ req[a] = None => worker[a] = None
    /\ req[a] # None => a \in Thread

\* TenantIsolation in terms of the key.
Isolation ==
  /\ \A k \in Key : \A w \in idle[k] : owner[w] = k
  /\ \A t \in Thread : req[t] # None /\ worker[t] # None => owner[worker[t]] = KeyOf(req[t])

Identities ==
  /\ \A k \in Key : \A w \in idle[k] : state[w] # "none"
  /\ \A a \in Actor : \A w \in stale[a] : state[w] # "none"
  /\ \A a \in Actor : doomed[a] # None => state[doomed[a]] # "none"
  /\ \A a \in Actor : worker[a] # None /\ pc[a] \notin Reserved => state[worker[a]] # "none"
  /\ \A a \in Actor : pc[a] \in Reserved => state[worker[a]] \notin Up
  /\ \A a \in Actor : pc[a] \in {"install", "undo"} => state[worker[a]] \in Up
  /\ \A w \in Worker : state[w] # "none" => owner[w] \in Key

Deletions ==
  /\ \A a, b \in Actor : pc[a] \in Unborn => doomed[b] # worker[a]
  /\ \A a \in Actor : pc[a] \in Deleting => state[doomed[a]] = "destroyed"
  /\ \A a, b \in Actor :
       a # b /\ pc[a] \in Deleting /\ pc[b] \in Deleting => doomed[a] # doomed[b]

OwnershipInv == PoolTypeOK /\ Shape /\ ExclusiveOwnership /\ Isolation /\ Identities /\ Deletions

\* While the backend answers, a sandbox the pool has not lost sight of lives only
\* on accounted capacity.
Paid ==
  ~BackendFaults =>
    /\ sandboxes \ strays \subseteq Accounted
    /\ \A a \in Actor : pc[a] = "refund" => doomed[a] \notin sandboxes \ strays
    /\ \A a \in Actor : pc[a] = "unreserve" => worker[a] \notin sandboxes \ strays
    /\ \A a \in Actor : pc[a] # "rethrow"

IInv == OwnershipInv /\ QuotaTypeOK /\ QuotaExact /\ QuotaBounded /\ Paid

-----------------------------------------------------------------------------
(***************************************************************************)
(* Type correctness of the pool's own state                                *)
(***************************************************************************)
LEMMA KeyOfType ==
  ASSUME NEW q \in Request
  PROVE  KeyOf(q) \in Key /\ KeyOf(q)[1] = q[1]
BY ConstantsAssumption DEF Request, Key, KeyOf

LEMMA StepPoolType == PoolTypeOK /\ Shape /\ [Next]_vars => PoolTypeOK'
<1> SUFFICES ASSUME PoolTypeOK, Shape, [Next]_vars PROVE PoolTypeOK'
  OBVIOUS
<1> USE ConstantsAssumption, KeyOfType
    DEF PoolTypeOK, Shape, Actor, Location, Deleting, Reserved, Serving, Pointing, Up, Goto,
        vars, localVars, poolVars, clusterVars, quotaVars
<1>1. ASSUME NEW t \in Thread, NEW q \in Request, AcquirePop(t, q) PROVE PoolTypeOK'
  BY <1>1 DEF AcquirePop
<1>2. ASSUME NEW t \in Thread, CancelLookup(t) PROVE PoolTypeOK'
  BY <1>2 DEF CancelLookup
<1>3. ASSUME NEW t \in Thread, WarmSucceeds(t) PROVE PoolTypeOK'
  BY <1>3 DEF WarmSucceeds, Request
<1>4. ASSUME NEW t \in Thread, WarmFails(t) PROVE PoolTypeOK'
  BY <1>4 DEF WarmFails
<1>5. ASSUME NEW t \in Thread, ReserveRefused(t) PROVE PoolTypeOK'
  BY <1>5 DEF ReserveRefused
<1>6. ASSUME NEW t \in Thread, Reserve(t) PROVE PoolTypeOK'
  BY <1>6 DEF Reserve
<1>7. ASSUME NEW t \in Thread, CreationSlot(t) PROVE PoolTypeOK'
  BY <1>7 DEF CreationSlot
<1>8. ASSUME NEW t \in Thread, CreateSucceeds(t) PROVE PoolTypeOK'
  BY <1>8 DEF CreateSucceeds
<1>9. ASSUME NEW t \in Thread, CreateFails(t) PROVE PoolTypeOK'
  BY <1>9 DEF CreateFails
<1>10. ASSUME NEW t \in Thread, InstallSucceeds(t) PROVE PoolTypeOK'
  BY <1>10 DEF InstallSucceeds, Request
<1>11. ASSUME NEW t \in Thread, InstallFails(t) PROVE PoolTypeOK'
  BY <1>11 DEF InstallFails
<1>12. ASSUME NEW t \in Thread, Undo(t) PROVE PoolTypeOK'
  BY <1>12 DEF Undo
<1>13. ASSUME NEW t \in Thread, Unreserve(t) PROVE PoolTypeOK'
  BY <1>13 DEF Unreserve
<1>14. ASSUME NEW t \in Thread, ReleaseToPark(t) PROVE PoolTypeOK'
  BY <1>14 DEF ReleaseToPark
<1>15. ASSUME NEW t \in Thread, Park(t) PROVE PoolTypeOK'
  <2>1. worker[t] \in Worker
    BY <1>15 DEF Park
  <2>2. idle' \in [Key -> SUBSET Worker]
    BY <1>15, <2>1 DEF Park
  <2> QED
    BY <1>15, <2>2 DEF Park
<1>16. ASSUME NEW t \in Thread, ReleaseToDestroy(t) PROVE PoolTypeOK'
  BY <1>16 DEF ReleaseToDestroy
<1>17. ASSUME NEW t \in Thread, Invalidate(t) PROVE PoolTypeOK'
  BY <1>17 DEF Invalidate
<1>18. ASSUME NEW t \in Thread, CancelAnswered(t) PROVE PoolTypeOK'
  BY <1>18 DEF CancelAnswered
<1>19. ASSUME NEW t \in Thread, CancelFails(t) PROVE PoolTypeOK'
  BY <1>19 DEF CancelFails
<1>20. ASSUME NEW a \in Actor, PurgeNext(a) PROVE PoolTypeOK'
  BY <1>20 DEF PurgeNext
<1>21. ASSUME NEW a \in Actor, PurgeDone(a) PROVE PoolTypeOK'
  BY <1>21 DEF PurgeDone
<1>22. ASSUME NEW a \in Actor, AlreadyDestroyed(a) PROVE PoolTypeOK'
  BY <1>22 DEF AlreadyDestroyed
<1>23. ASSUME NEW a \in Actor, Condemn(a) PROVE PoolTypeOK'
  BY <1>23 DEF Condemn
<1>24. ASSUME NEW a \in Actor, DeleteSucceeds(a) PROVE PoolTypeOK'
  BY <1>24 DEF DeleteSucceeds
<1>25. ASSUME NEW a \in Actor, DeleteFails(a) PROVE PoolTypeOK'
  BY <1>25 DEF DeleteFails
<1>26. ASSUME NEW a \in Actor, Refund(a) PROVE PoolTypeOK'
  BY <1>26 DEF Refund
<1>27. ASSUME NEW a \in Actor, RefundAndRaise(a) PROVE PoolTypeOK'
  BY <1>27 DEF RefundAndRaise
<1>28. ASSUME Reap PROVE PoolTypeOK'
  BY <1>28 DEF Reap
<1>29. ASSUME NEW w \in Worker, IdleTooLong(w) PROVE PoolTypeOK'
  BY <1>29 DEF IdleTooLong
<1>30. ASSUME NEW w \in Worker, SandboxDies(w) PROVE PoolTypeOK'
  BY <1>30 DEF SandboxDies
<1>31. ASSUME NEW w \in Worker, LateCreation(w) PROVE PoolTypeOK'
  BY <1>31 DEF LateCreation
<1>32. ASSUME Restart PROVE PoolTypeOK'
  BY <1>32 DEF Restart
<1>33. CASE UNCHANGED vars
  BY <1>33
<1> QED
  BY <1>1, <1>2, <1>3, <1>4, <1>5, <1>6, <1>7, <1>8, <1>9, <1>10, <1>11, <1>12, <1>13, <1>14, <1>15, <1>16, <1>17, <1>18, <1>19, <1>20, <1>21, <1>22, <1>23, <1>24, <1>25, <1>26, <1>27, <1>28, <1>29, <1>30, <1>31, <1>32, <1>33
     DEF Next, AcquireStep, FinishStep, CancelStep, DestroyStep

LEMMA StepShape == PoolTypeOK /\ Shape /\ [Next]_vars => Shape'
<1> SUFFICES ASSUME PoolTypeOK, Shape, [Next]_vars PROVE Shape'
  OBVIOUS
<1> USE ConstantsAssumption, KeyOfType
    DEF PoolTypeOK, Shape, Actor, Location, Deleting, Reserved, Serving, Pointing, Up, Goto,
        vars, localVars, poolVars, clusterVars, quotaVars
<1>1. ASSUME NEW t \in Thread, NEW q \in Request, AcquirePop(t, q) PROVE Shape'
  BY <1>1 DEF AcquirePop
<1>2. ASSUME NEW t \in Thread, CancelLookup(t) PROVE Shape'
  BY <1>2 DEF CancelLookup
<1>3. ASSUME NEW t \in Thread, WarmSucceeds(t) PROVE Shape'
  BY <1>3 DEF WarmSucceeds
<1>4. ASSUME NEW t \in Thread, WarmFails(t) PROVE Shape'
  BY <1>4 DEF WarmFails
<1>5. ASSUME NEW t \in Thread, ReserveRefused(t) PROVE Shape'
  BY <1>5 DEF ReserveRefused
<1>6. ASSUME NEW t \in Thread, Reserve(t) PROVE Shape'
  BY <1>6 DEF Reserve
<1>7. ASSUME NEW t \in Thread, CreationSlot(t) PROVE Shape'
  BY <1>7 DEF CreationSlot
<1>8. ASSUME NEW t \in Thread, CreateSucceeds(t) PROVE Shape'
  BY <1>8 DEF CreateSucceeds
<1>9. ASSUME NEW t \in Thread, CreateFails(t) PROVE Shape'
  BY <1>9 DEF CreateFails
<1>10. ASSUME NEW t \in Thread, InstallSucceeds(t) PROVE Shape'
  BY <1>10 DEF InstallSucceeds
<1>11. ASSUME NEW t \in Thread, InstallFails(t) PROVE Shape'
  BY <1>11 DEF InstallFails
<1>12. ASSUME NEW t \in Thread, Undo(t) PROVE Shape'
  BY <1>12 DEF Undo
<1>13. ASSUME NEW t \in Thread, Unreserve(t) PROVE Shape'
  BY <1>13 DEF Unreserve
<1>14. ASSUME NEW t \in Thread, ReleaseToPark(t) PROVE Shape'
  BY <1>14 DEF ReleaseToPark
<1>15. ASSUME NEW t \in Thread, Park(t) PROVE Shape'
  BY <1>15 DEF Park
<1>16. ASSUME NEW t \in Thread, ReleaseToDestroy(t) PROVE Shape'
  BY <1>16 DEF ReleaseToDestroy
<1>17. ASSUME NEW t \in Thread, Invalidate(t) PROVE Shape'
  BY <1>17 DEF Invalidate
<1>18. ASSUME NEW t \in Thread, CancelAnswered(t) PROVE Shape'
  BY <1>18 DEF CancelAnswered
<1>19. ASSUME NEW t \in Thread, CancelFails(t) PROVE Shape'
  BY <1>19 DEF CancelFails
<1>20. ASSUME NEW a \in Actor, PurgeNext(a) PROVE Shape'
  BY <1>20 DEF PurgeNext
<1>21. ASSUME NEW a \in Actor, PurgeDone(a) PROVE Shape'
  BY <1>21 DEF PurgeDone
<1>22. ASSUME NEW a \in Actor, AlreadyDestroyed(a) PROVE Shape'
  BY <1>22 DEF AlreadyDestroyed
<1>23. ASSUME NEW a \in Actor, Condemn(a) PROVE Shape'
  BY <1>23 DEF Condemn
<1>24. ASSUME NEW a \in Actor, DeleteSucceeds(a) PROVE Shape'
  BY <1>24 DEF DeleteSucceeds
<1>25. ASSUME NEW a \in Actor, DeleteFails(a) PROVE Shape'
  BY <1>25 DEF DeleteFails
<1>26. ASSUME NEW a \in Actor, Refund(a) PROVE Shape'
  BY <1>26 DEF Refund
<1>27. ASSUME NEW a \in Actor, RefundAndRaise(a) PROVE Shape'
  BY <1>27 DEF RefundAndRaise
<1>28. ASSUME Reap PROVE Shape'
  BY <1>28 DEF Reap
<1>29. ASSUME NEW w \in Worker, IdleTooLong(w) PROVE Shape'
  BY <1>29 DEF IdleTooLong
<1>30. ASSUME NEW w \in Worker, SandboxDies(w) PROVE Shape'
  BY <1>30 DEF SandboxDies
<1>31. ASSUME NEW w \in Worker, LateCreation(w) PROVE Shape'
  BY <1>31 DEF LateCreation
<1>32. ASSUME Restart PROVE Shape'
  BY <1>32 DEF Restart
<1>33. CASE UNCHANGED vars
  BY <1>33
<1> QED
  BY <1>1, <1>2, <1>3, <1>4, <1>5, <1>6, <1>7, <1>8, <1>9, <1>10, <1>11, <1>12, <1>13, <1>14, <1>15, <1>16, <1>17, <1>18, <1>19, <1>20, <1>21, <1>22, <1>23, <1>24, <1>25, <1>26, <1>27, <1>28, <1>29, <1>30, <1>31, <1>32, <1>33
     DEF Next, AcquireStep, FinishStep, CancelStep, DestroyStep

\* What acquire takes out of the bucket of its key, whether or not it finds a
\* candidate w.
Popped(t, q, w, popped) ==
  /\ worker' = [worker EXCEPT ![t] = w]
  /\ stale' = [stale EXCEPT ![t] = popped]
  /\ idle' = [idle EXCEPT ![KeyOf(q)] = @ \ (popped \cup {w})]
  /\ popped \subseteq idle[KeyOf(q)] /\ w \notin popped
  /\ w # None => w \in idle[KeyOf(q)]

LEMMA AcquirePopEffect ==
  ASSUME PoolTypeOK, Shape, NEW t \in Thread, NEW q \in Request, AcquirePop(t, q)
  PROVE  \E w \in Worker \cup {None}, popped \in SUBSET Worker : Popped(t, q, w, popped)
<1> DEFINE k == KeyOf(q)
           bad == {w \in idle[k] : Expired(w) \/ Full(w, q[2])}
<1> USE ConstantsAssumption, KeyOfType DEF PoolTypeOK
<1>1. worker[t] = None /\ k \in Key /\ t \in Actor
  BY DEF AcquirePop, Goto, Shape, Actor
<1>2. bad \in SUBSET Worker /\ None \notin bad
  BY <1>1
<1>3. ASSUME NEW w \in idle[k] \ bad, NEW popped \in SUBSET bad,
             worker' = [worker EXCEPT ![t] = w],
             stale' = [stale EXCEPT ![t] = popped],
             idle' = [idle EXCEPT ![k] = @ \ (popped \cup {w})]
      PROVE  \E v \in Worker \cup {None}, gone \in SUBSET Worker : Popped(t, q, v, gone)
  <2>1. w \in Worker /\ popped \in SUBSET Worker /\ w \notin popped
    BY <1>1, <1>2, <1>3
  <2>2. Popped(t, q, w, popped)
    BY <1>1, <1>3, <2>1 DEF Popped
  <2> QED
    BY <2>1, <2>2
<1>4. ASSUME idle[k] = bad,
             stale' = [stale EXCEPT ![t] = bad],
             idle' = [idle EXCEPT ![k] = {}],
             UNCHANGED worker
      PROVE  \E v \in Worker \cup {None}, gone \in SUBSET Worker : Popped(t, q, v, gone)
  <2>1. idle[k] \ (bad \cup {None}) = {}
    BY <1>4
  <2>2. worker' = [worker EXCEPT ![t] = None]
    BY <1>1, <1>4
  <2>3. Popped(t, q, None, bad)
    BY <1>1, <1>2, <1>4, <2>1, <2>2 DEF Popped
  <2> QED
    BY <1>2, <2>3
<1> QED
  BY <1>3, <1>4 DEF AcquirePop

LEMMA StepExclusive == PoolTypeOK /\ Shape /\ ExclusiveOwnership /\ Isolation /\ [Next]_vars => ExclusiveOwnership'
<1> SUFFICES ASSUME PoolTypeOK, Shape, ExclusiveOwnership, Isolation, [Next]_vars PROVE ExclusiveOwnership'
  OBVIOUS
<1> USE ConstantsAssumption, KeyOfType
    DEF PoolTypeOK, Shape, ExclusiveOwnership, Taken, Actor, Location, Deleting, Reserved, Serving, Pointing, Up, Goto,
        vars, localVars, poolVars, clusterVars, quotaVars
<1>1. ASSUME NEW t \in Thread, NEW q \in Request, AcquirePop(t, q) PROVE ExclusiveOwnership'
  <2> DEFINE k == KeyOf(q)
  <2>1. /\ pc[t] = "out" /\ worker[t] = None /\ stale[t] = {} /\ k \in Key /\ t \in Actor
    BY <1>1 DEF AcquirePop
  <2>2. PICK w \in Worker \cup {None}, popped \in SUBSET Worker : Popped(t, q, w, popped)
    BY <1>1, AcquirePopEffect
  <2>3. \A l \in Key : l # k => idle[l] \cap idle[k] = {}
    BY <2>1 DEF Isolation
  <2>4. /\ Taken(t)' \subseteq idle[k]
        /\ Taken(t)' \cap idle'[k] = {}
        /\ \A a \in Actor : a # t => Taken(a)' = Taken(a)
    BY <2>1, <2>2 DEF Popped
  <2> QED
    BY <2>1, <2>2, <2>3, <2>4 DEF Popped
<1>2. ASSUME NEW t \in Thread, CancelLookup(t) PROVE ExclusiveOwnership'
  BY <1>2 DEF CancelLookup
<1>3. ASSUME NEW t \in Thread, WarmSucceeds(t) PROVE ExclusiveOwnership'
  BY <1>3 DEF WarmSucceeds
<1>4. ASSUME NEW t \in Thread, WarmFails(t) PROVE ExclusiveOwnership'
  BY <1>4 DEF WarmFails
<1>5. ASSUME NEW t \in Thread, ReserveRefused(t) PROVE ExclusiveOwnership'
  BY <1>5 DEF ReserveRefused
<1>6. ASSUME NEW t \in Thread, Reserve(t) PROVE ExclusiveOwnership'
  BY <1>6 DEF Reserve, Fresh
<1>7. ASSUME NEW t \in Thread, CreationSlot(t) PROVE ExclusiveOwnership'
  BY <1>7 DEF CreationSlot
<1>8. ASSUME NEW t \in Thread, CreateSucceeds(t) PROVE ExclusiveOwnership'
  BY <1>8 DEF CreateSucceeds
<1>9. ASSUME NEW t \in Thread, CreateFails(t) PROVE ExclusiveOwnership'
  BY <1>9 DEF CreateFails
<1>10. ASSUME NEW t \in Thread, InstallSucceeds(t) PROVE ExclusiveOwnership'
  BY <1>10 DEF InstallSucceeds
<1>11. ASSUME NEW t \in Thread, InstallFails(t) PROVE ExclusiveOwnership'
  BY <1>11 DEF InstallFails
<1>12. ASSUME NEW t \in Thread, Undo(t) PROVE ExclusiveOwnership'
  BY <1>12 DEF Undo
<1>13. ASSUME NEW t \in Thread, Unreserve(t) PROVE ExclusiveOwnership'
  BY <1>13 DEF Unreserve
<1>14. ASSUME NEW t \in Thread, ReleaseToPark(t) PROVE ExclusiveOwnership'
  BY <1>14 DEF ReleaseToPark
<1>15. ASSUME NEW t \in Thread, Park(t) PROVE ExclusiveOwnership'
  BY <1>15 DEF Park
<1>16. ASSUME NEW t \in Thread, ReleaseToDestroy(t) PROVE ExclusiveOwnership'
  BY <1>16 DEF ReleaseToDestroy
<1>17. ASSUME NEW t \in Thread, Invalidate(t) PROVE ExclusiveOwnership'
  BY <1>17 DEF Invalidate
<1>18. ASSUME NEW t \in Thread, CancelAnswered(t) PROVE ExclusiveOwnership'
  BY <1>18 DEF CancelAnswered
<1>19. ASSUME NEW t \in Thread, CancelFails(t) PROVE ExclusiveOwnership'
  BY <1>19 DEF CancelFails
<1>20. ASSUME NEW a \in Actor, PurgeNext(a) PROVE ExclusiveOwnership'
  BY <1>20 DEF PurgeNext
<1>21. ASSUME NEW a \in Actor, PurgeDone(a) PROVE ExclusiveOwnership'
  BY <1>21 DEF PurgeDone
<1>22. ASSUME NEW a \in Actor, AlreadyDestroyed(a) PROVE ExclusiveOwnership'
  BY <1>22 DEF AlreadyDestroyed
<1>23. ASSUME NEW a \in Actor, Condemn(a) PROVE ExclusiveOwnership'
  BY <1>23 DEF Condemn
<1>24. ASSUME NEW a \in Actor, DeleteSucceeds(a) PROVE ExclusiveOwnership'
  BY <1>24 DEF DeleteSucceeds
<1>25. ASSUME NEW a \in Actor, DeleteFails(a) PROVE ExclusiveOwnership'
  BY <1>25 DEF DeleteFails
<1>26. ASSUME NEW a \in Actor, Refund(a) PROVE ExclusiveOwnership'
  BY <1>26 DEF Refund
<1>27. ASSUME NEW a \in Actor, RefundAndRaise(a) PROVE ExclusiveOwnership'
  BY <1>27 DEF RefundAndRaise
<1>28. ASSUME Reap PROVE ExclusiveOwnership'
  BY <1>28 DEF Reap
<1>29. ASSUME NEW w \in Worker, IdleTooLong(w) PROVE ExclusiveOwnership'
  BY <1>29 DEF IdleTooLong
<1>30. ASSUME NEW w \in Worker, SandboxDies(w) PROVE ExclusiveOwnership'
  BY <1>30 DEF SandboxDies
<1>31. ASSUME NEW w \in Worker, LateCreation(w) PROVE ExclusiveOwnership'
  BY <1>31 DEF LateCreation
<1>32. ASSUME Restart PROVE ExclusiveOwnership'
  BY <1>32 DEF Restart
<1>33. CASE UNCHANGED vars
  BY <1>33
<1> QED
  BY <1>1, <1>2, <1>3, <1>4, <1>5, <1>6, <1>7, <1>8, <1>9, <1>10, <1>11, <1>12, <1>13, <1>14, <1>15, <1>16, <1>17, <1>18, <1>19, <1>20, <1>21, <1>22, <1>23, <1>24, <1>25, <1>26, <1>27, <1>28, <1>29, <1>30, <1>31, <1>32, <1>33
     DEF Next, AcquireStep, FinishStep, CancelStep, DestroyStep

LEMMA StepIsolation == PoolTypeOK /\ Shape /\ ExclusiveOwnership /\ Isolation /\ [Next]_vars => Isolation'
<1> SUFFICES ASSUME PoolTypeOK, Shape, ExclusiveOwnership, Isolation, [Next]_vars PROVE Isolation'
  OBVIOUS
<1> USE ConstantsAssumption, KeyOfType
    DEF PoolTypeOK, Shape, ExclusiveOwnership, Taken, Isolation, Actor, Location, Deleting, Reserved, Serving, Pointing, Up, Goto,
        vars, localVars, poolVars, clusterVars, quotaVars
<1>1. ASSUME NEW t \in Thread, NEW q \in Request, AcquirePop(t, q) PROVE Isolation'
  BY <1>1 DEF AcquirePop
<1>2. ASSUME NEW t \in Thread, CancelLookup(t) PROVE Isolation'
  BY <1>2 DEF CancelLookup
<1>3. ASSUME NEW t \in Thread, WarmSucceeds(t) PROVE Isolation'
  BY <1>3 DEF WarmSucceeds
<1>4. ASSUME NEW t \in Thread, WarmFails(t) PROVE Isolation'
  BY <1>4 DEF WarmFails
<1>5. ASSUME NEW t \in Thread, ReserveRefused(t) PROVE Isolation'
  BY <1>5 DEF ReserveRefused
<1>6. ASSUME NEW t \in Thread, Reserve(t) PROVE Isolation'
  <2>1. PICK w \in Worker :
          /\ Fresh(w)
          /\ worker' = [worker EXCEPT ![t] = w]
          /\ owner' = [owner EXCEPT ![w] = KeyOf(req[t])]
    BY <1>6 DEF Reserve
  <2> QED
    BY <1>6, <2>1 DEF Reserve, Fresh
<1>7. ASSUME NEW t \in Thread, CreationSlot(t) PROVE Isolation'
  BY <1>7 DEF CreationSlot
<1>8. ASSUME NEW t \in Thread, CreateSucceeds(t) PROVE Isolation'
  BY <1>8 DEF CreateSucceeds
<1>9. ASSUME NEW t \in Thread, CreateFails(t) PROVE Isolation'
  BY <1>9 DEF CreateFails
<1>10. ASSUME NEW t \in Thread, InstallSucceeds(t) PROVE Isolation'
  BY <1>10 DEF InstallSucceeds
<1>11. ASSUME NEW t \in Thread, InstallFails(t) PROVE Isolation'
  BY <1>11 DEF InstallFails
<1>12. ASSUME NEW t \in Thread, Undo(t) PROVE Isolation'
  BY <1>12 DEF Undo
<1>13. ASSUME NEW t \in Thread, Unreserve(t) PROVE Isolation'
  BY <1>13 DEF Unreserve
<1>14. ASSUME NEW t \in Thread, ReleaseToPark(t) PROVE Isolation'
  BY <1>14 DEF ReleaseToPark
<1>15. ASSUME NEW t \in Thread, Park(t) PROVE Isolation'
  BY <1>15 DEF Park
<1>16. ASSUME NEW t \in Thread, ReleaseToDestroy(t) PROVE Isolation'
  BY <1>16 DEF ReleaseToDestroy
<1>17. ASSUME NEW t \in Thread, Invalidate(t) PROVE Isolation'
  BY <1>17 DEF Invalidate
<1>18. ASSUME NEW t \in Thread, CancelAnswered(t) PROVE Isolation'
  BY <1>18 DEF CancelAnswered
<1>19. ASSUME NEW t \in Thread, CancelFails(t) PROVE Isolation'
  BY <1>19 DEF CancelFails
<1>20. ASSUME NEW a \in Actor, PurgeNext(a) PROVE Isolation'
  BY <1>20 DEF PurgeNext
<1>21. ASSUME NEW a \in Actor, PurgeDone(a) PROVE Isolation'
  BY <1>21 DEF PurgeDone
<1>22. ASSUME NEW a \in Actor, AlreadyDestroyed(a) PROVE Isolation'
  BY <1>22 DEF AlreadyDestroyed
<1>23. ASSUME NEW a \in Actor, Condemn(a) PROVE Isolation'
  BY <1>23 DEF Condemn
<1>24. ASSUME NEW a \in Actor, DeleteSucceeds(a) PROVE Isolation'
  BY <1>24 DEF DeleteSucceeds
<1>25. ASSUME NEW a \in Actor, DeleteFails(a) PROVE Isolation'
  BY <1>25 DEF DeleteFails
<1>26. ASSUME NEW a \in Actor, Refund(a) PROVE Isolation'
  BY <1>26 DEF Refund
<1>27. ASSUME NEW a \in Actor, RefundAndRaise(a) PROVE Isolation'
  BY <1>27 DEF RefundAndRaise
<1>28. ASSUME Reap PROVE Isolation'
  BY <1>28 DEF Reap
<1>29. ASSUME NEW w \in Worker, IdleTooLong(w) PROVE Isolation'
  BY <1>29 DEF IdleTooLong
<1>30. ASSUME NEW w \in Worker, SandboxDies(w) PROVE Isolation'
  BY <1>30 DEF SandboxDies
<1>31. ASSUME NEW w \in Worker, LateCreation(w) PROVE Isolation'
  BY <1>31 DEF LateCreation
<1>32. ASSUME Restart PROVE Isolation'
  BY <1>32 DEF Restart
<1>33. CASE UNCHANGED vars
  BY <1>33
<1> QED
  BY <1>1, <1>2, <1>3, <1>4, <1>5, <1>6, <1>7, <1>8, <1>9, <1>10, <1>11, <1>12, <1>13, <1>14, <1>15, <1>16, <1>17, <1>18, <1>19, <1>20, <1>21, <1>22, <1>23, <1>24, <1>25, <1>26, <1>27, <1>28, <1>29, <1>30, <1>31, <1>32, <1>33
     DEF Next, AcquireStep, FinishStep, CancelStep, DestroyStep

LEMMA StepIdentities == PoolTypeOK /\ Shape /\ ExclusiveOwnership /\ Isolation /\ Identities /\ Deletions /\ [Next]_vars => Identities'
<1> SUFFICES ASSUME PoolTypeOK, Shape, ExclusiveOwnership, Isolation, Identities, Deletions, [Next]_vars PROVE Identities'
  OBVIOUS
<1> USE ConstantsAssumption, KeyOfType
    DEF PoolTypeOK, Shape, ExclusiveOwnership, Taken, Isolation, Identities, Deletions,
        Actor, Location, Deleting, Reserved, Serving, Pointing, Unborn, Up, Goto,
        vars, localVars, poolVars, clusterVars, quotaVars
<1>1. ASSUME NEW t \in Thread, NEW q \in Request, AcquirePop(t, q) PROVE Identities'
  <2>1. PICK w \in Worker \cup {None}, popped \in SUBSET Worker : Popped(t, q, w, popped)
    BY <1>1, AcquirePopEffect
  <2> QED
    BY <1>1, <2>1 DEF AcquirePop, Popped
<1>2. ASSUME NEW t \in Thread, CancelLookup(t) PROVE Identities'
  BY <1>2 DEF CancelLookup
<1>3. ASSUME NEW t \in Thread, WarmSucceeds(t) PROVE Identities'
  BY <1>3 DEF WarmSucceeds
<1>4. ASSUME NEW t \in Thread, WarmFails(t) PROVE Identities'
  BY <1>4 DEF WarmFails
<1>5. ASSUME NEW t \in Thread, ReserveRefused(t) PROVE Identities'
  BY <1>5 DEF ReserveRefused
<1>6. ASSUME NEW t \in Thread, Reserve(t) PROVE Identities'
  BY <1>6 DEF Reserve, Fresh
<1>7. ASSUME NEW t \in Thread, CreationSlot(t) PROVE Identities'
  BY <1>7 DEF CreationSlot
<1>8. ASSUME NEW t \in Thread, CreateSucceeds(t) PROVE Identities'
  BY <1>8 DEF CreateSucceeds
<1>9. ASSUME NEW t \in Thread, CreateFails(t) PROVE Identities'
  BY <1>9 DEF CreateFails
<1>10. ASSUME NEW t \in Thread, InstallSucceeds(t) PROVE Identities'
  BY <1>10 DEF InstallSucceeds
<1>11. ASSUME NEW t \in Thread, InstallFails(t) PROVE Identities'
  BY <1>11 DEF InstallFails
<1>12. ASSUME NEW t \in Thread, Undo(t) PROVE Identities'
  BY <1>12 DEF Undo
<1>13. ASSUME NEW t \in Thread, Unreserve(t) PROVE Identities'
  BY <1>13 DEF Unreserve
<1>14. ASSUME NEW t \in Thread, ReleaseToPark(t) PROVE Identities'
  BY <1>14 DEF ReleaseToPark
<1>15. ASSUME NEW t \in Thread, Park(t) PROVE Identities'
  BY <1>15 DEF Park
<1>16. ASSUME NEW t \in Thread, ReleaseToDestroy(t) PROVE Identities'
  BY <1>16 DEF ReleaseToDestroy
<1>17. ASSUME NEW t \in Thread, Invalidate(t) PROVE Identities'
  BY <1>17 DEF Invalidate
<1>18. ASSUME NEW t \in Thread, CancelAnswered(t) PROVE Identities'
  BY <1>18 DEF CancelAnswered
<1>19. ASSUME NEW t \in Thread, CancelFails(t) PROVE Identities'
  BY <1>19 DEF CancelFails
<1>20. ASSUME NEW a \in Actor, PurgeNext(a) PROVE Identities'
  BY <1>20 DEF PurgeNext
<1>21. ASSUME NEW a \in Actor, PurgeDone(a) PROVE Identities'
  BY <1>21 DEF PurgeDone
<1>22. ASSUME NEW a \in Actor, AlreadyDestroyed(a) PROVE Identities'
  BY <1>22 DEF AlreadyDestroyed
<1>23. ASSUME NEW a \in Actor, Condemn(a) PROVE Identities'
  BY <1>23 DEF Condemn
<1>24. ASSUME NEW a \in Actor, DeleteSucceeds(a) PROVE Identities'
  BY <1>24 DEF DeleteSucceeds
<1>25. ASSUME NEW a \in Actor, DeleteFails(a) PROVE Identities'
  BY <1>25 DEF DeleteFails
<1>26. ASSUME NEW a \in Actor, Refund(a) PROVE Identities'
  BY <1>26 DEF Refund
<1>27. ASSUME NEW a \in Actor, RefundAndRaise(a) PROVE Identities'
  BY <1>27 DEF RefundAndRaise
<1>28. ASSUME Reap PROVE Identities'
  BY <1>28 DEF Reap
<1>29. ASSUME NEW w \in Worker, IdleTooLong(w) PROVE Identities'
  BY <1>29 DEF IdleTooLong
<1>30. ASSUME NEW w \in Worker, SandboxDies(w) PROVE Identities'
  BY <1>30 DEF SandboxDies
<1>31. ASSUME NEW w \in Worker, LateCreation(w) PROVE Identities'
  BY <1>31 DEF LateCreation
<1>32. ASSUME Restart PROVE Identities'
  BY <1>32 DEF Restart
<1>33. CASE UNCHANGED vars
  BY <1>33
<1> QED
  BY <1>1, <1>2, <1>3, <1>4, <1>5, <1>6, <1>7, <1>8, <1>9, <1>10, <1>11, <1>12, <1>13, <1>14, <1>15, <1>16, <1>17, <1>18, <1>19, <1>20, <1>21, <1>22, <1>23, <1>24, <1>25, <1>26, <1>27, <1>28, <1>29, <1>30, <1>31, <1>32, <1>33
     DEF Next, AcquireStep, FinishStep, CancelStep, DestroyStep

LEMMA StepDeletions == PoolTypeOK /\ Shape /\ ExclusiveOwnership /\ Isolation /\ Identities /\ Deletions /\ [Next]_vars => Deletions'
<1> SUFFICES ASSUME PoolTypeOK, Shape, ExclusiveOwnership, Isolation, Identities, Deletions, [Next]_vars PROVE Deletions'
  OBVIOUS
<1> USE ConstantsAssumption, KeyOfType
    DEF PoolTypeOK, Shape, ExclusiveOwnership, Taken, Isolation, Identities, Deletions,
        Actor, Location, Deleting, Reserved, Serving, Pointing, Unborn, Up, Goto,
        vars, localVars, poolVars, clusterVars, quotaVars
<1>1. ASSUME NEW t \in Thread, NEW q \in Request, AcquirePop(t, q) PROVE Deletions'
  BY <1>1 DEF AcquirePop
<1>2. ASSUME NEW t \in Thread, CancelLookup(t) PROVE Deletions'
  BY <1>2 DEF CancelLookup
<1>3. ASSUME NEW t \in Thread, WarmSucceeds(t) PROVE Deletions'
  BY <1>3 DEF WarmSucceeds
<1>4. ASSUME NEW t \in Thread, WarmFails(t) PROVE Deletions'
  BY <1>4 DEF WarmFails
<1>5. ASSUME NEW t \in Thread, ReserveRefused(t) PROVE Deletions'
  BY <1>5 DEF ReserveRefused
<1>6. ASSUME NEW t \in Thread, Reserve(t) PROVE Deletions'
  BY <1>6 DEF Reserve, Fresh
<1>7. ASSUME NEW t \in Thread, CreationSlot(t) PROVE Deletions'
  BY <1>7 DEF CreationSlot
<1>8. ASSUME NEW t \in Thread, CreateSucceeds(t) PROVE Deletions'
  BY <1>8 DEF CreateSucceeds
<1>9. ASSUME NEW t \in Thread, CreateFails(t) PROVE Deletions'
  BY <1>9 DEF CreateFails
<1>10. ASSUME NEW t \in Thread, InstallSucceeds(t) PROVE Deletions'
  BY <1>10 DEF InstallSucceeds
<1>11. ASSUME NEW t \in Thread, InstallFails(t) PROVE Deletions'
  BY <1>11 DEF InstallFails
<1>12. ASSUME NEW t \in Thread, Undo(t) PROVE Deletions'
  BY <1>12 DEF Undo
<1>13. ASSUME NEW t \in Thread, Unreserve(t) PROVE Deletions'
  BY <1>13 DEF Unreserve
<1>14. ASSUME NEW t \in Thread, ReleaseToPark(t) PROVE Deletions'
  BY <1>14 DEF ReleaseToPark
<1>15. ASSUME NEW t \in Thread, Park(t) PROVE Deletions'
  BY <1>15 DEF Park
<1>16. ASSUME NEW t \in Thread, ReleaseToDestroy(t) PROVE Deletions'
  BY <1>16 DEF ReleaseToDestroy
<1>17. ASSUME NEW t \in Thread, Invalidate(t) PROVE Deletions'
  BY <1>17 DEF Invalidate
<1>18. ASSUME NEW t \in Thread, CancelAnswered(t) PROVE Deletions'
  BY <1>18 DEF CancelAnswered
<1>19. ASSUME NEW t \in Thread, CancelFails(t) PROVE Deletions'
  BY <1>19 DEF CancelFails
<1>20. ASSUME NEW a \in Actor, PurgeNext(a) PROVE Deletions'
  BY <1>20 DEF PurgeNext
<1>21. ASSUME NEW a \in Actor, PurgeDone(a) PROVE Deletions'
  BY <1>21 DEF PurgeDone
<1>22. ASSUME NEW a \in Actor, AlreadyDestroyed(a) PROVE Deletions'
  BY <1>22 DEF AlreadyDestroyed
<1>23. ASSUME NEW a \in Actor, Condemn(a) PROVE Deletions'
  BY <1>23 DEF Condemn
<1>24. ASSUME NEW a \in Actor, DeleteSucceeds(a) PROVE Deletions'
  BY <1>24 DEF DeleteSucceeds
<1>25. ASSUME NEW a \in Actor, DeleteFails(a) PROVE Deletions'
  BY <1>25 DEF DeleteFails
<1>26. ASSUME NEW a \in Actor, Refund(a) PROVE Deletions'
  BY <1>26 DEF Refund
<1>27. ASSUME NEW a \in Actor, RefundAndRaise(a) PROVE Deletions'
  BY <1>27 DEF RefundAndRaise
<1>28. ASSUME Reap PROVE Deletions'
  BY <1>28 DEF Reap
<1>29. ASSUME NEW w \in Worker, IdleTooLong(w) PROVE Deletions'
  BY <1>29 DEF IdleTooLong
<1>30. ASSUME NEW w \in Worker, SandboxDies(w) PROVE Deletions'
  BY <1>30 DEF SandboxDies
<1>31. ASSUME NEW w \in Worker, LateCreation(w) PROVE Deletions'
  BY <1>31 DEF LateCreation
<1>32. ASSUME Restart PROVE Deletions'
  BY <1>32 DEF Restart
<1>33. CASE UNCHANGED vars
  BY <1>33
<1> QED
  BY <1>1, <1>2, <1>3, <1>4, <1>5, <1>6, <1>7, <1>8, <1>9, <1>10, <1>11, <1>12, <1>13, <1>14, <1>15, <1>16, <1>17, <1>18, <1>19, <1>20, <1>21, <1>22, <1>23, <1>24, <1>25, <1>26, <1>27, <1>28, <1>29, <1>30, <1>31, <1>32, <1>33
     DEF Next, AcquireStep, FinishStep, CancelStep, DestroyStep

\* The pool's ownership discipline holds in every reachable state.
THEOREM Ownership == Spec => []OwnershipInv
<1>1. Init => OwnershipInv
  BY ConstantsAssumption
     DEF Init, OwnershipInv, PoolTypeOK, Shape, ExclusiveOwnership, Taken, Isolation,
         Identities, Deletions, Actor, Location, Deleting, Reserved, Serving, Pointing, Unborn, Up
<1>2. OwnershipInv /\ [Next]_vars => OwnershipInv'
  BY StepPoolType, StepShape, StepExclusive, StepIsolation, StepIdentities, StepDeletions
     DEF OwnershipInv
<1> QED
  BY <1>1, <1>2, PTL DEF Spec

-----------------------------------------------------------------------------
(***************************************************************************)
(* Capacity.  A step leaves the accounted workers and the quota alone,     *)
(* takes one identity in and one unit from the quota of its tenant, or     *)
(* lets one worker go and returns its unit.                                *)
(***************************************************************************)
Steady ==
  /\ Accounted' = Accounted
  /\ UNCHANGED <<live, tenantLive>>
  /\ \A w \in Accounted : owner'[w] = owner[w]

Gained(w, n) ==
  /\ w \in Worker \ Accounted
  /\ Accounted' = Accounted \cup {w}
  /\ n \in Tenant /\ owner'[w][1] = n
  /\ \A v \in Accounted : owner'[v] = owner[v]
  /\ ReserveLive(n)

Lost(w, n) ==
  /\ w \in Accounted
  /\ Accounted' = Accounted \ {w}
  /\ n \in Tenant /\ owner[w][1] = n
  /\ owner' = owner
  /\ ReleaseLive(n)

Cleared == Accounted' = {} /\ live' = 0 /\ tenantLive' = [n \in Tenant |-> 0]

AccountStep ==
  \/ Steady
  \/ \E w \in Worker, n \in Tenant : Gained(w, n)
  \/ \E w \in Worker, n \in Tenant : Lost(w, n)
  \/ Cleared

LEMMA StepAccount == OwnershipInv /\ [Next]_vars => AccountStep
<1> SUFFICES ASSUME OwnershipInv, [Next]_vars PROVE AccountStep
  OBVIOUS
<1> USE ConstantsAssumption, KeyOfType
    DEF OwnershipInv, PoolTypeOK, Shape, ExclusiveOwnership, Taken, Isolation, Identities,
        Deletions, Actor, Location, Deleting, Reserved, Serving, Pointing, Unborn, Up, Goto,
        vars, localVars, poolVars, clusterVars, quotaVars
<1>1. ASSUME NEW t \in Thread, NEW q \in Request, AcquirePop(t, q) PROVE AccountStep
  <2>1. Steady
    BY <1>1 DEF AcquirePop, Steady, Accounted
  <2> QED
    BY <2>1 DEF AccountStep
<1>2. ASSUME NEW t \in Thread, CancelLookup(t) PROVE AccountStep
  <2>1. Steady
    BY <1>2 DEF CancelLookup, Steady, Accounted
  <2> QED
    BY <2>1 DEF AccountStep
<1>3. ASSUME NEW t \in Thread, WarmSucceeds(t) PROVE AccountStep
  <2>1. Steady
    BY <1>3 DEF WarmSucceeds, Steady, Accounted
  <2> QED
    BY <2>1 DEF AccountStep
<1>4. ASSUME NEW t \in Thread, WarmFails(t) PROVE AccountStep
  <2>1. Steady
    BY <1>4 DEF WarmFails, Steady, Accounted
  <2> QED
    BY <2>1 DEF AccountStep
<1>5. ASSUME NEW t \in Thread, ReserveRefused(t) PROVE AccountStep
  <2>1. Steady
    BY <1>5 DEF ReserveRefused, Steady, Accounted
  <2> QED
    BY <2>1 DEF AccountStep
<1>6. ASSUME NEW t \in Thread, Reserve(t) PROVE AccountStep
  <2>1. PICK w \in Worker :
          /\ Fresh(w)
          /\ worker' = [worker EXCEPT ![t] = w]
          /\ owner' = [owner EXCEPT ![w] = KeyOf(req[t])]
    BY <1>6 DEF Reserve
  <2>2. req[t] \in Request /\ req[t][1] \in Tenant
    BY <1>6 DEF Reserve, Request
  <2>3. w \in Worker \ Accounted
    BY <1>6, <2>1 DEF Reserve, Fresh, Accounted
  <2>4. Accounted' = Accounted \cup {w}
    BY <1>6, <2>1 DEF Reserve, Accounted
  <2>5. Gained(w, req[t][1])
    BY <1>6, <2>1, <2>2, <2>3, <2>4 DEF Reserve, Gained
  <2> QED
    BY <2>2, <2>5 DEF AccountStep
<1>7. ASSUME NEW t \in Thread, CreationSlot(t) PROVE AccountStep
  <2>1. Steady
    BY <1>7 DEF CreationSlot, Steady, Accounted
  <2> QED
    BY <2>1 DEF AccountStep
<1>8. ASSUME NEW t \in Thread, CreateSucceeds(t) PROVE AccountStep
  <2>1. Steady
    BY <1>8 DEF CreateSucceeds, Steady, Accounted
  <2> QED
    BY <2>1 DEF AccountStep
<1>9. ASSUME NEW t \in Thread, CreateFails(t) PROVE AccountStep
  <2>1. Steady
    BY <1>9 DEF CreateFails, Steady, Accounted
  <2> QED
    BY <2>1 DEF AccountStep
<1>10. ASSUME NEW t \in Thread, InstallSucceeds(t) PROVE AccountStep
  <2>1. Steady
    BY <1>10 DEF InstallSucceeds, Steady, Accounted
  <2> QED
    BY <2>1 DEF AccountStep
<1>11. ASSUME NEW t \in Thread, InstallFails(t) PROVE AccountStep
  <2>1. Steady
    BY <1>11 DEF InstallFails, Steady, Accounted
  <2> QED
    BY <2>1 DEF AccountStep
<1>12. ASSUME NEW t \in Thread, Undo(t) PROVE AccountStep
  <2>1. Steady
    BY <1>12 DEF Undo, Steady, Accounted
  <2> QED
    BY <2>1 DEF AccountStep
<1>13. ASSUME NEW t \in Thread, Unreserve(t) PROVE AccountStep
  <2> DEFINE w == worker[t]
  <2>1. w \in Worker /\ req[t] \in Request /\ req[t][1] \in Tenant
    BY <1>13 DEF Unreserve, Request
  <2>2. owner[w][1] = req[t][1]
    BY <1>13, <2>1 DEF Unreserve
  <2>3. w \in Accounted
    BY <1>13, <2>1 DEF Unreserve, Accounted
  <2>4. Accounted' = Accounted \ {w}
    BY <1>13, <2>1 DEF Unreserve, Accounted
  <2>5. Lost(w, req[t][1])
    BY <1>13, <2>1, <2>2, <2>3, <2>4 DEF Unreserve, Lost
  <2> QED
    BY <2>1, <2>5 DEF AccountStep
<1>14. ASSUME NEW t \in Thread, ReleaseToPark(t) PROVE AccountStep
  <2>1. Steady
    BY <1>14 DEF ReleaseToPark, Steady, Accounted
  <2> QED
    BY <2>1 DEF AccountStep
<1>15. ASSUME NEW t \in Thread, Park(t) PROVE AccountStep
  <2>1. Steady
    BY <1>15 DEF Park, Steady, Accounted
  <2> QED
    BY <2>1 DEF AccountStep
<1>16. ASSUME NEW t \in Thread, ReleaseToDestroy(t) PROVE AccountStep
  <2>1. Steady
    BY <1>16 DEF ReleaseToDestroy, Steady, Accounted
  <2> QED
    BY <2>1 DEF AccountStep
<1>17. ASSUME NEW t \in Thread, Invalidate(t) PROVE AccountStep
  <2>1. Steady
    BY <1>17 DEF Invalidate, Steady, Accounted
  <2> QED
    BY <2>1 DEF AccountStep
<1>18. ASSUME NEW t \in Thread, CancelAnswered(t) PROVE AccountStep
  <2>1. Steady
    BY <1>18 DEF CancelAnswered, Steady, Accounted
  <2> QED
    BY <2>1 DEF AccountStep
<1>19. ASSUME NEW t \in Thread, CancelFails(t) PROVE AccountStep
  <2>1. Steady
    BY <1>19 DEF CancelFails, Steady, Accounted
  <2> QED
    BY <2>1 DEF AccountStep
<1>20. ASSUME NEW a \in Actor, PurgeNext(a) PROVE AccountStep
  <2>1. Steady
    BY <1>20 DEF PurgeNext, Steady, Accounted
  <2> QED
    BY <2>1 DEF AccountStep
<1>21. ASSUME NEW a \in Actor, PurgeDone(a) PROVE AccountStep
  <2>1. Steady
    BY <1>21 DEF PurgeDone, Steady, Accounted
  <2> QED
    BY <2>1 DEF AccountStep
<1>22. ASSUME NEW a \in Actor, AlreadyDestroyed(a) PROVE AccountStep
  <2>1. Steady
    BY <1>22 DEF AlreadyDestroyed, Steady, Accounted
  <2> QED
    BY <2>1 DEF AccountStep
<1>23. ASSUME NEW a \in Actor, Condemn(a) PROVE AccountStep
  <2>1. Steady
    BY <1>23 DEF Condemn, Steady, Accounted
  <2> QED
    BY <2>1 DEF AccountStep
<1>24. ASSUME NEW a \in Actor, DeleteSucceeds(a) PROVE AccountStep
  <2>1. Steady
    BY <1>24 DEF DeleteSucceeds, Steady, Accounted
  <2> QED
    BY <2>1 DEF AccountStep
<1>25. ASSUME NEW a \in Actor, DeleteFails(a) PROVE AccountStep
  <2>1. Steady
    BY <1>25 DEF DeleteFails, Steady, Accounted
  <2> QED
    BY <2>1 DEF AccountStep
<1>26. ASSUME NEW a \in Actor, Refund(a) PROVE AccountStep
  <2> DEFINE w == doomed[a]
  <2>1. w \in Worker /\ owner[w] \in Key /\ owner[w][1] \in Tenant
    BY <1>26 DEF Refund, Key
  <2>2. w \in Accounted
    BY <1>26, <2>1 DEF Refund, Accounted
  <2>3. Accounted' = Accounted \ {w}
    BY <1>26, <2>1 DEF Refund, Accounted
  <2>4. Lost(w, owner[w][1])
    BY <1>26, <2>1, <2>2, <2>3 DEF Refund, Lost
  <2> QED
    BY <2>1, <2>4 DEF AccountStep
<1>27. ASSUME NEW a \in Actor, RefundAndRaise(a) PROVE AccountStep
  <2> DEFINE w == doomed[a]
  <2>1. w \in Worker /\ owner[w] \in Key /\ owner[w][1] \in Tenant
    BY <1>27 DEF RefundAndRaise, Key
  <2>2. w \in Accounted
    BY <1>27, <2>1 DEF RefundAndRaise, Accounted
  <2>3. Accounted' = Accounted \ {w}
    BY <1>27, <2>1 DEF RefundAndRaise, Accounted
  <2>4. Lost(w, owner[w][1])
    BY <1>27, <2>1, <2>2, <2>3 DEF RefundAndRaise, Lost
  <2> QED
    BY <2>1, <2>4 DEF AccountStep
<1>28. ASSUME Reap PROVE AccountStep
  <2>1. Steady
    BY <1>28 DEF Reap, Steady, Accounted
  <2> QED
    BY <2>1 DEF AccountStep
<1>29. ASSUME NEW w \in Worker, IdleTooLong(w) PROVE AccountStep
  <2>1. Steady
    BY <1>29 DEF IdleTooLong, Steady, Accounted
  <2> QED
    BY <2>1 DEF AccountStep
<1>30. ASSUME NEW w \in Worker, SandboxDies(w) PROVE AccountStep
  <2>1. Steady
    BY <1>30 DEF SandboxDies, Steady, Accounted
  <2> QED
    BY <2>1 DEF AccountStep
<1>31. ASSUME NEW w \in Worker, LateCreation(w) PROVE AccountStep
  <2>1. Steady
    BY <1>31 DEF LateCreation, Steady, Accounted
  <2> QED
    BY <2>1 DEF AccountStep
<1>32. ASSUME Restart PROVE AccountStep
  BY <1>32 DEF Restart, AccountStep, Cleared, Accounted
<1>33. CASE UNCHANGED vars
  <2>1. Steady
    BY <1>33 DEF Steady, Accounted
  <2> QED
    BY <2>1 DEF AccountStep
<1> QED
  BY <1>1, <1>2, <1>3, <1>4, <1>5, <1>6, <1>7, <1>8, <1>9, <1>10, <1>11, <1>12, <1>13, <1>14, <1>15, <1>16, <1>17, <1>18, <1>19, <1>20, <1>21, <1>22, <1>23, <1>24, <1>25, <1>26, <1>27, <1>28, <1>29, <1>30, <1>31, <1>32, <1>33
     DEF Next, AcquireStep, FinishStep, CancelStep, DestroyStep

\* The accounted workers of one tenant; they and all sets of actors are finite.
OfTenant(n) == {w \in Accounted : owner[w][1] = n}

LEMMA FiniteCapacity ==
  /\ IsFiniteSet(Accounted)
  /\ \A n : IsFiniteSet(OfTenant(n))
  /\ IsFiniteSet(sandboxes \ strays) \/ ~PoolTypeOK
BY ConstantsAssumption, FS_Subset DEF Accounted, OfTenant, PoolTypeOK

LEMMA StepQuotaExact ==
  QuotaExact /\ QuotaTypeOK /\ AccountStep
    => QuotaExact' /\ (live' \in Nat) /\ (tenantLive' \in [Tenant -> Nat])
<1> SUFFICES ASSUME QuotaExact, QuotaTypeOK, AccountStep
             PROVE  QuotaExact' /\ (live' \in Nat) /\ (tenantLive' \in [Tenant -> Nat])
  OBVIOUS
<1> USE DEF QuotaTypeOK
<1>0. /\ live = Cardinality(Accounted)
      /\ \A n \in Tenant : tenantLive[n] = Cardinality(OfTenant(n))
  BY DEF QuotaExact, OfTenant
<1>1. SUFFICES /\ live' = Cardinality(Accounted')
               /\ \A n \in Tenant : tenantLive'[n] = Cardinality(OfTenant(n)')
               /\ live' \in Nat
               /\ tenantLive' \in [Tenant -> Nat]
  BY DEF QuotaExact, OfTenant
<1>2. CASE Steady
  <2>1. \A n \in Tenant : OfTenant(n)' = OfTenant(n)
    BY <1>2 DEF Steady, OfTenant
  <2> QED
    BY <1>0, <1>2, <2>1 DEF Steady
<1>3. ASSUME NEW w \in Worker, NEW n \in Tenant, Gained(w, n)
      PROVE  <1>1!1
  <2>1. /\ OfTenant(n)' = OfTenant(n) \cup {w}
        /\ w \notin OfTenant(n)
        /\ \A m \in Tenant : m # n => OfTenant(m)' = OfTenant(m)
    BY <1>3 DEF Gained, OfTenant
  <2>2. Cardinality(Accounted') = Cardinality(Accounted) + 1
    BY <1>3, FiniteCapacity, FS_AddElement DEF Gained
  <2>3. Cardinality(OfTenant(n)') = Cardinality(OfTenant(n)) + 1
    BY <2>1, FiniteCapacity, FS_AddElement
  <2> QED
    BY <1>0, <1>3, <2>1, <2>2, <2>3 DEF Gained, ReserveLive
<1>4. ASSUME NEW w \in Worker, NEW n \in Tenant, Lost(w, n)
      PROVE  <1>1!1
  <2>1. /\ OfTenant(n)' = OfTenant(n) \ {w}
        /\ w \in OfTenant(n)
        /\ \A m \in Tenant : m # n => OfTenant(m)' = OfTenant(m)
    BY <1>4 DEF Lost, OfTenant
  <2>2. /\ Cardinality(Accounted') = Cardinality(Accounted) - 1
        /\ Cardinality(Accounted') \in Nat
    BY <1>4, FiniteCapacity, FS_RemoveElement, FS_CardinalityType DEF Lost
  <2>3. /\ Cardinality(OfTenant(n)') = Cardinality(OfTenant(n)) - 1
        /\ Cardinality(OfTenant(n)') \in Nat
    BY <2>1, FiniteCapacity, FS_RemoveElement, FS_CardinalityType
  <2>4. tenantLive[n] # 0
    BY <1>0, <2>3
  <2> QED
    BY <1>0, <1>4, <2>1, <2>2, <2>3, <2>4 DEF Lost, ReleaseLive
<1>5. CASE Cleared
  <2>1. \A n \in Tenant : OfTenant(n)' = {}
    BY <1>5 DEF Cleared, OfTenant
  <2> QED
    BY <1>5, <2>1, FS_EmptySet DEF Cleared
<1> QED
  BY <1>2, <1>3, <1>4, <1>5 DEF AccountStep

-----------------------------------------------------------------------------
(***************************************************************************)
(* The limits.  The creation semaphore counts the threads in its section.  *)
(***************************************************************************)
Creators == {t \in Thread : pc[t] \in {"create", "install"}}

CreatorStep ==
  \/ Creators' = Creators /\ creating' = creating
  \/ \E t \in Thread : /\ Creators' = Creators \cup {t} /\ t \notin Creators
                       /\ creating < MaxCreating /\ creating' = creating + 1
  \/ \E t \in Thread : Creators' = Creators \ {t} /\ t \in Creators /\ creating' = creating - 1
  \/ Creators' = {} /\ creating' = 0

LEMMA StepCreators == PoolTypeOK /\ [Next]_vars => CreatorStep
<1> SUFFICES ASSUME PoolTypeOK, [Next]_vars PROVE CreatorStep
  OBVIOUS
<1> USE DEF PoolTypeOK, Actor, CreatorStep, Creators, Deleting, Reserved, Goto,
        vars, localVars, poolVars, clusterVars, quotaVars
<1>1. ASSUME NEW t \in Thread, NEW q \in Request, AcquirePop(t, q) PROVE CreatorStep
  BY <1>1 DEF AcquirePop
<1>2. ASSUME NEW t \in Thread, CancelLookup(t) PROVE CreatorStep
  BY <1>2 DEF CancelLookup
<1>3. ASSUME NEW t \in Thread, WarmSucceeds(t) PROVE CreatorStep
  BY <1>3 DEF WarmSucceeds
<1>4. ASSUME NEW t \in Thread, WarmFails(t) PROVE CreatorStep
  BY <1>4 DEF WarmFails
<1>5. ASSUME NEW t \in Thread, ReserveRefused(t) PROVE CreatorStep
  BY <1>5 DEF ReserveRefused
<1>6. ASSUME NEW t \in Thread, Reserve(t) PROVE CreatorStep
  BY <1>6 DEF Reserve
<1>7. ASSUME NEW t \in Thread, CreationSlot(t) PROVE CreatorStep
  BY <1>7 DEF CreationSlot
<1>8. ASSUME NEW t \in Thread, CreateSucceeds(t) PROVE CreatorStep
  BY <1>8 DEF CreateSucceeds
<1>9. ASSUME NEW t \in Thread, CreateFails(t) PROVE CreatorStep
  BY <1>9 DEF CreateFails
<1>10. ASSUME NEW t \in Thread, InstallSucceeds(t) PROVE CreatorStep
  BY <1>10 DEF InstallSucceeds
<1>11. ASSUME NEW t \in Thread, InstallFails(t) PROVE CreatorStep
  BY <1>11 DEF InstallFails
<1>12. ASSUME NEW t \in Thread, Undo(t) PROVE CreatorStep
  BY <1>12 DEF Undo
<1>13. ASSUME NEW t \in Thread, Unreserve(t) PROVE CreatorStep
  BY <1>13 DEF Unreserve
<1>14. ASSUME NEW t \in Thread, ReleaseToPark(t) PROVE CreatorStep
  BY <1>14 DEF ReleaseToPark
<1>15. ASSUME NEW t \in Thread, Park(t) PROVE CreatorStep
  BY <1>15 DEF Park
<1>16. ASSUME NEW t \in Thread, ReleaseToDestroy(t) PROVE CreatorStep
  BY <1>16 DEF ReleaseToDestroy
<1>17. ASSUME NEW t \in Thread, Invalidate(t) PROVE CreatorStep
  BY <1>17 DEF Invalidate
<1>18. ASSUME NEW t \in Thread, CancelAnswered(t) PROVE CreatorStep
  BY <1>18 DEF CancelAnswered
<1>19. ASSUME NEW t \in Thread, CancelFails(t) PROVE CreatorStep
  BY <1>19 DEF CancelFails
<1>20. ASSUME NEW a \in Actor, PurgeNext(a) PROVE CreatorStep
  BY <1>20 DEF PurgeNext
<1>21. ASSUME NEW a \in Actor, PurgeDone(a) PROVE CreatorStep
  BY <1>21 DEF PurgeDone
<1>22. ASSUME NEW a \in Actor, AlreadyDestroyed(a) PROVE CreatorStep
  BY <1>22 DEF AlreadyDestroyed
<1>23. ASSUME NEW a \in Actor, Condemn(a) PROVE CreatorStep
  BY <1>23 DEF Condemn
<1>24. ASSUME NEW a \in Actor, DeleteSucceeds(a) PROVE CreatorStep
  BY <1>24 DEF DeleteSucceeds
<1>25. ASSUME NEW a \in Actor, DeleteFails(a) PROVE CreatorStep
  BY <1>25 DEF DeleteFails
<1>26. ASSUME NEW a \in Actor, Refund(a) PROVE CreatorStep
  BY <1>26 DEF Refund
<1>27. ASSUME NEW a \in Actor, RefundAndRaise(a) PROVE CreatorStep
  BY <1>27 DEF RefundAndRaise
<1>28. ASSUME Reap PROVE CreatorStep
  BY <1>28 DEF Reap
<1>29. ASSUME NEW w \in Worker, IdleTooLong(w) PROVE CreatorStep
  BY <1>29 DEF IdleTooLong
<1>30. ASSUME NEW w \in Worker, SandboxDies(w) PROVE CreatorStep
  BY <1>30 DEF SandboxDies
<1>31. ASSUME NEW w \in Worker, LateCreation(w) PROVE CreatorStep
  BY <1>31 DEF LateCreation
<1>32. ASSUME Restart PROVE CreatorStep
  BY <1>32 DEF Restart
<1>33. CASE UNCHANGED vars
  BY <1>33
<1> QED
  BY <1>1, <1>2, <1>3, <1>4, <1>5, <1>6, <1>7, <1>8, <1>9, <1>10, <1>11, <1>12, <1>13, <1>14, <1>15, <1>16, <1>17, <1>18, <1>19, <1>20, <1>21, <1>22, <1>23, <1>24, <1>25, <1>26, <1>27, <1>28, <1>29, <1>30, <1>31, <1>32, <1>33
     DEF Next, AcquireStep, FinishStep, CancelStep, DestroyStep

LEMMA StepQuotaBounded ==
  OwnershipInv /\ QuotaTypeOK /\ QuotaBounded /\ AccountStep /\ CreatorStep
    => QuotaBounded' /\ (creating' \in Nat)
<1> SUFFICES ASSUME OwnershipInv, QuotaTypeOK, QuotaBounded, AccountStep, CreatorStep
             PROVE  QuotaBounded' /\ (creating' \in Nat)
  OBVIOUS
<1>1. live' <= MaxLive /\ \A n \in Tenant : tenantLive'[n] <= MaxLivePerTenant
  BY ConstantsAssumption
     DEF QuotaTypeOK, QuotaBounded, AccountStep, Steady, Gained, Lost, Cleared,
         ReserveLive, CanReserve, ReleaseLive
<1>2. /\ creating' = Cardinality(Creators')
      /\ creating' <= MaxCreating
      /\ creating' \in Nat
  <2>1. creating = Cardinality(Creators) /\ creating <= MaxCreating /\ IsFiniteSet(Creators)
    BY ConstantsAssumption, FS_Subset DEF QuotaBounded, Creators
  <2>2. creating \in Nat /\ MaxCreating \in Nat
    BY ConstantsAssumption DEF QuotaTypeOK
  <2>3. ASSUME NEW t \in Thread, Creators' = Creators \cup {t}, t \notin Creators,
               creating < MaxCreating, creating' = creating + 1
        PROVE  <1>2!1
    BY <2>1, <2>2, <2>3, FS_AddElement
  <2>4. ASSUME NEW t \in Thread, Creators' = Creators \ {t}, t \in Creators, creating' = creating - 1
        PROVE  <1>2!1
    BY <2>1, <2>2, <2>4, FS_RemoveElement, FS_CardinalityType
  <2> QED
    BY <2>1, <2>2, <2>3, <2>4, FS_EmptySet DEF CreatorStep
<1> QED
  BY <1>1, <1>2 DEF QuotaBounded, Creators

\* Capacity is counted exactly and never exceeds its limits.
THEOREM Capacity == Spec => [](OwnershipInv /\ QuotaTypeOK /\ QuotaExact /\ QuotaBounded)
<1> DEFINE Inv == QuotaTypeOK /\ QuotaExact /\ QuotaBounded
<1>1. Init => Inv
  <2> SUFFICES ASSUME Init PROVE Inv
    OBVIOUS
  <2>1. Accounted = {} /\ Creators = {}
    BY DEF Init, Accounted, Creators, Up, Reserved, Deleting, Actor
  <2>2. \A n \in Tenant : {w \in Accounted : owner[w][1] = n} = {}
    BY <2>1
  <2>3. QuotaExact
    BY <2>1, <2>2, FS_EmptySet DEF Init, QuotaExact
  <2>4. Cardinality(Creators) = 0
    BY <2>1, FS_EmptySet
  <2>5. QuotaTypeOK
    BY DEF Init, QuotaTypeOK
  <2>6. QuotaBounded
    BY <2>4, ConstantsAssumption DEF Init, QuotaBounded, Creators
  <2> QED
    BY <2>3, <2>5, <2>6
<1>2. OwnershipInv /\ Inv /\ [Next]_vars => Inv'
  <2> SUFFICES ASSUME OwnershipInv, Inv, [Next]_vars PROVE Inv'
    OBVIOUS
  <2>1. AccountStep /\ CreatorStep
    BY StepAccount, StepCreators DEF OwnershipInv
  <2> QED
    BY <2>1, StepQuotaExact, StepQuotaBounded DEF QuotaTypeOK
<1> QED
  BY <1>1, <1>2, Ownership, PTL DEF Spec

-----------------------------------------------------------------------------
(***************************************************************************)
(* Sandboxes.  With a backend that answers, Paid keeps every sandbox on    *)
(* accounted capacity; the quota then bounds what runs in the cluster.     *)
(***************************************************************************)
LEMMA PaidBound ==
  ASSUME OwnershipInv, QuotaExact, QuotaBounded, Paid
  PROVE  SandboxesWithinQuota
<1> SUFFICES ASSUME ~BackendFaults
             PROVE  Cardinality(sandboxes \ strays) <= MaxLive
  BY DEF SandboxesWithinQuota
<1>1. sandboxes \ strays \subseteq Accounted
  BY DEF Paid
<1>2. Cardinality(sandboxes \ strays) <= Cardinality(Accounted)
  BY <1>1, FiniteCapacity, FS_Subset
<1>3. Cardinality(Accounted) <= MaxLive
  BY DEF QuotaExact, QuotaBounded
<1>4. Cardinality(sandboxes \ strays) \in Nat /\ Cardinality(Accounted) \in Nat
  BY FiniteCapacity, FS_CardinalityType DEF OwnershipInv
<1> QED
  BY <1>2, <1>3, <1>4, ConstantsAssumption

LEMMA StepPaid == OwnershipInv /\ QuotaExact /\ QuotaBounded /\ Paid /\ [Next]_vars => Paid'
<1> SUFFICES ASSUME OwnershipInv, QuotaExact, QuotaBounded, Paid, [Next]_vars PROVE Paid'
  OBVIOUS
<1> USE ConstantsAssumption, KeyOfType
    DEF OwnershipInv, PoolTypeOK, Shape, ExclusiveOwnership, Taken, Identities, Deletions,
        Actor, Location, Deleting, Reserved, Serving, Pointing, Unborn, Up, Goto,
        vars, localVars, poolVars, clusterVars, quotaVars
<1>1. ASSUME NEW t \in Thread, NEW q \in Request, AcquirePop(t, q) PROVE Paid'
  BY <1>1 DEF AcquirePop, Paid, Accounted
<1>2. ASSUME NEW t \in Thread, CancelLookup(t) PROVE Paid'
  BY <1>2 DEF CancelLookup, Paid, Accounted
<1>3. ASSUME NEW t \in Thread, WarmSucceeds(t) PROVE Paid'
  BY <1>3 DEF WarmSucceeds, Paid, Accounted
<1>4. ASSUME NEW t \in Thread, WarmFails(t) PROVE Paid'
  BY <1>4 DEF WarmFails, Paid, Accounted
<1>5. ASSUME NEW t \in Thread, ReserveRefused(t) PROVE Paid'
  BY <1>5 DEF ReserveRefused, Paid, Accounted
<1>6. ASSUME NEW t \in Thread, Reserve(t) PROVE Paid'
  BY <1>6 DEF Reserve, Fresh, Paid, Accounted
<1>7. ASSUME NEW t \in Thread, CreationSlot(t) PROVE Paid'
  BY <1>7 DEF CreationSlot, Paid, Accounted
<1>8. ASSUME NEW t \in Thread, CreateSucceeds(t) PROVE Paid'
  BY <1>8 DEF CreateSucceeds, Paid, Accounted
<1>9. ASSUME NEW t \in Thread, CreateFails(t) PROVE Paid'
  BY <1>9 DEF CreateFails, Paid, Accounted
<1>10. ASSUME NEW t \in Thread, InstallSucceeds(t) PROVE Paid'
  <2>1. \A a \in Actor :
          /\ pc'[a] \in Reserved <=> pc[a] \in Reserved
          /\ pc'[a] \in Deleting <=> pc[a] \in Deleting
          /\ pc'[a] \in {"refund", "unreserve", "rethrow"} => pc'[a] = pc[a]
    BY <1>10 DEF InstallSucceeds
  <2>2. /\ worker' = worker /\ doomed' = doomed
        /\ state' = state /\ sandboxes' = sandboxes /\ strays' = strays
    BY <1>10 DEF InstallSucceeds
  <2>3. Accounted' = Accounted
    BY ONLY <2>1, <2>2 DEF Accounted
  <2> QED
    BY ONLY Paid, <2>1, <2>2, <2>3 DEF Paid
<1>11. ASSUME NEW t \in Thread, InstallFails(t) PROVE Paid'
  BY <1>11 DEF InstallFails, Paid, Accounted
<1>12. ASSUME NEW t \in Thread, Undo(t) PROVE Paid'
  BY <1>12 DEF Undo, Paid, Accounted
<1>13. ASSUME NEW t \in Thread, Unreserve(t) PROVE Paid'
  BY <1>13 DEF Unreserve, Paid, Accounted
<1>14. ASSUME NEW t \in Thread, ReleaseToPark(t) PROVE Paid'
  BY <1>14 DEF ReleaseToPark, Paid, Accounted
<1>15. ASSUME NEW t \in Thread, Park(t) PROVE Paid'
  BY <1>15 DEF Park, Paid, Accounted
<1>16. ASSUME NEW t \in Thread, ReleaseToDestroy(t) PROVE Paid'
  BY <1>16 DEF ReleaseToDestroy, Paid, Accounted
<1>17. ASSUME NEW t \in Thread, Invalidate(t) PROVE Paid'
  BY <1>17 DEF Invalidate, Paid, Accounted
<1>18. ASSUME NEW t \in Thread, CancelAnswered(t) PROVE Paid'
  BY <1>18 DEF CancelAnswered, Paid, Accounted
<1>19. ASSUME NEW t \in Thread, CancelFails(t) PROVE Paid'
  BY <1>19 DEF CancelFails, Paid, Accounted
<1>20. ASSUME NEW a \in Actor, PurgeNext(a) PROVE Paid'
  BY <1>20 DEF PurgeNext, Paid, Accounted
<1>21. ASSUME NEW a \in Actor, PurgeDone(a) PROVE Paid'
  BY <1>21 DEF PurgeDone, Paid, Accounted
<1>22. ASSUME NEW a \in Actor, AlreadyDestroyed(a) PROVE Paid'
  BY <1>22 DEF AlreadyDestroyed, Paid, Accounted
<1>23. ASSUME NEW a \in Actor, Condemn(a) PROVE Paid'
  <2>1. Accounted' = Accounted
    BY <1>23 DEF Condemn, Accounted
  <2>2. sandboxes' = sandboxes /\ strays' = strays /\ doomed' = doomed /\ worker' = worker
    BY <1>23 DEF Condemn
  <2>3. \A b \in Actor : pc'[b] \in {"refund", "unreserve", "rethrow"} => pc'[b] = pc[b]
    BY <1>23 DEF Condemn
  <2> QED
    BY ONLY Paid, <2>1, <2>2, <2>3 DEF Paid
<1>24. ASSUME NEW a \in Actor, DeleteSucceeds(a) PROVE Paid'
  BY <1>24 DEF DeleteSucceeds, Paid, Accounted
<1>25. ASSUME NEW a \in Actor, DeleteFails(a) PROVE Paid'
  BY <1>25 DEF DeleteFails, Paid, Accounted
<1>26. ASSUME NEW a \in Actor, Refund(a) PROVE Paid'
  BY <1>26 DEF Refund, Paid, Accounted
<1>27. ASSUME NEW a \in Actor, RefundAndRaise(a) PROVE Paid'
  BY <1>27 DEF RefundAndRaise, Paid, Accounted
<1>28. ASSUME Reap PROVE Paid'
  <2>1. \A a \in Actor :
          /\ pc'[a] \in Reserved <=> pc[a] \in Reserved
          /\ pc'[a] \in Deleting <=> pc[a] \in Deleting
          /\ pc'[a] \in {"refund", "unreserve", "rethrow"} => pc'[a] = pc[a]
    BY <1>28 DEF Reap
  <2>2. /\ worker' = worker /\ doomed' = doomed
        /\ state' = state /\ sandboxes' = sandboxes /\ strays' = strays
    BY <1>28 DEF Reap
  <2>3. Accounted' = Accounted
    BY ONLY <2>1, <2>2 DEF Accounted
  <2> QED
    BY ONLY Paid, <2>1, <2>2, <2>3 DEF Paid
<1>29. ASSUME NEW w \in Worker, IdleTooLong(w) PROVE Paid'
  BY <1>29 DEF IdleTooLong, Paid, Accounted
<1>30. ASSUME NEW w \in Worker, SandboxDies(w) PROVE Paid'
  BY <1>30 DEF SandboxDies, Paid, Accounted
<1>31. ASSUME NEW w \in Worker, LateCreation(w) PROVE Paid'
  BY <1>31 DEF LateCreation, Paid, Accounted
<1>32. ASSUME Restart PROVE Paid'
  <2>1. sandboxes' \subseteq strays' /\ pc' = [a \in Actor |-> "out"]
    BY <1>32 DEF Restart
  <2> QED
    BY <2>1 DEF Paid
<1>33. CASE UNCHANGED vars
  BY <1>33 DEF Paid, Accounted
<1> QED
  BY <1>1, <1>2, <1>3, <1>4, <1>5, <1>6, <1>7, <1>8, <1>9, <1>10, <1>11, <1>12, <1>13, <1>14, <1>15, <1>16, <1>17, <1>18, <1>19, <1>20, <1>21, <1>22, <1>23, <1>24, <1>25, <1>26, <1>27, <1>28, <1>29, <1>30, <1>31, <1>32, <1>33
     DEF Next, AcquireStep, FinishStep, CancelStep, DestroyStep

-----------------------------------------------------------------------------
(***************************************************************************)
(* No worker is forgotten.  A backend that answers never makes _destroy    *)
(* raise, so the loop over the stale workers runs to its end; and a cancel *)
(* only remembers a worker that somebody else holds, so its reference is   *)
(* not needed to find the worker.                                          *)
(***************************************************************************)
Found(w) ==
  \/ \E k \in Key : w \in idle[k]
  \/ \E a \in Actor : w \in Taken(a)
  \/ \E a \in Actor : pc[a] = "condemn" /\ doomed[a] = w

NothingForgotten ==
  /\ \A a \in Actor : pc[a] # "rethrow"
  /\ \A w \in Worker : state[w] \in Up => Found(w)

LEMMA StepForgotten ==
  ASSUME ~BackendFaults, OwnershipInv, NothingForgotten, [Next]_vars
  PROVE  NothingForgotten'
<1> USE ConstantsAssumption, KeyOfType
    DEF OwnershipInv, PoolTypeOK, Shape, Isolation, Identities, Deletions, NothingForgotten, Found, Taken,
        Actor, Location, Deleting, Reserved, Serving, Pointing, Unborn, Up, Goto,
        vars, localVars, poolVars, clusterVars, quotaVars
<1>1. ASSUME NEW t \in Thread, NEW q \in Request, AcquirePop(t, q) PROVE NothingForgotten'
  <2>1. /\ pc[t] = "out" /\ worker[t] = None /\ stale[t] = {} /\ KeyOf(q) \in Key /\ t \in Actor
        /\ pc' = [pc EXCEPT ![t] = "purge"]
        /\ doomed' = doomed /\ state' = state
    BY <1>1 DEF AcquirePop
  <2>2. PICK w \in Worker \cup {None}, popped \in SUBSET Worker : Popped(t, q, w, popped)
    BY <1>1, AcquirePopEffect
  <2>3. ASSUME NEW v \in Worker, state'[v] \in Up PROVE Found(v)'
    <3>1. Found(v)
      BY <2>1, <2>3
    <3>2. CASE \E k \in Key : v \in idle[k]
      BY <2>1, <2>2, <3>2 DEF Popped
    <3>3. CASE \E a \in Actor : v \in Taken(a)
      BY <2>1, <2>2, <3>3 DEF Popped
    <3>4. CASE \E a \in Actor : pc[a] = "condemn" /\ doomed[a] = v
      BY <2>1, <3>4
    <3> QED
      BY <3>1, <3>2, <3>3, <3>4 DEF Found
  <2> QED
    BY <2>1, <2>3
<1>2. ASSUME NEW t \in Thread, CancelLookup(t) PROVE NothingForgotten'
  BY <1>2 DEF CancelLookup
<1>3. ASSUME NEW t \in Thread, WarmSucceeds(t) PROVE NothingForgotten'
  BY <1>3 DEF WarmSucceeds
<1>4. ASSUME NEW t \in Thread, WarmFails(t) PROVE NothingForgotten'
  BY <1>4 DEF WarmFails
<1>5. ASSUME NEW t \in Thread, ReserveRefused(t) PROVE NothingForgotten'
  BY <1>5 DEF ReserveRefused
<1>6. ASSUME NEW t \in Thread, Reserve(t) PROVE NothingForgotten'
  BY <1>6 DEF Reserve, Fresh
<1>7. ASSUME NEW t \in Thread, CreationSlot(t) PROVE NothingForgotten'
  BY <1>7 DEF CreationSlot
<1>8. ASSUME NEW t \in Thread, CreateSucceeds(t) PROVE NothingForgotten'
  BY <1>8 DEF CreateSucceeds
<1>9. ASSUME NEW t \in Thread, CreateFails(t) PROVE NothingForgotten'
  BY <1>9 DEF CreateFails
<1>10. ASSUME NEW t \in Thread, InstallSucceeds(t) PROVE NothingForgotten'
  BY <1>10 DEF InstallSucceeds
<1>11. ASSUME NEW t \in Thread, InstallFails(t) PROVE NothingForgotten'
  BY <1>11 DEF InstallFails
<1>12. ASSUME NEW t \in Thread, Undo(t) PROVE NothingForgotten'
  BY <1>12 DEF Undo
<1>13. ASSUME NEW t \in Thread, Unreserve(t) PROVE NothingForgotten'
  BY <1>13 DEF Unreserve
<1>14. ASSUME NEW t \in Thread, ReleaseToPark(t) PROVE NothingForgotten'
  BY <1>14 DEF ReleaseToPark
<1>15. ASSUME NEW t \in Thread, Park(t) PROVE NothingForgotten'
  BY <1>15 DEF Park
<1>16. ASSUME NEW t \in Thread, ReleaseToDestroy(t) PROVE NothingForgotten'
  BY <1>16 DEF ReleaseToDestroy
<1>17. ASSUME NEW t \in Thread, Invalidate(t) PROVE NothingForgotten'
  BY <1>17 DEF Invalidate
<1>18. ASSUME NEW t \in Thread, CancelAnswered(t) PROVE NothingForgotten'
  BY <1>18 DEF CancelAnswered
<1>19. ASSUME NEW t \in Thread, CancelFails(t) PROVE NothingForgotten'
  BY <1>19 DEF CancelFails
<1>20. ASSUME NEW a \in Actor, PurgeNext(a) PROVE NothingForgotten'
  BY <1>20 DEF PurgeNext
<1>21. ASSUME NEW a \in Actor, PurgeDone(a) PROVE NothingForgotten'
  BY <1>21 DEF PurgeDone
<1>22. ASSUME NEW a \in Actor, AlreadyDestroyed(a) PROVE NothingForgotten'
  BY <1>22 DEF AlreadyDestroyed
<1>23. ASSUME NEW a \in Actor, Condemn(a) PROVE NothingForgotten'
  BY <1>23 DEF Condemn
<1>24. ASSUME NEW a \in Actor, DeleteSucceeds(a) PROVE NothingForgotten'
  BY <1>24 DEF DeleteSucceeds
<1>25. ASSUME NEW a \in Actor, DeleteFails(a) PROVE NothingForgotten'
  BY <1>25 DEF DeleteFails
<1>26. ASSUME NEW a \in Actor, Refund(a) PROVE NothingForgotten'
  BY <1>26 DEF Refund
<1>27. ASSUME NEW a \in Actor, RefundAndRaise(a) PROVE NothingForgotten'
  BY <1>27 DEF RefundAndRaise
<1>28. ASSUME Reap PROVE NothingForgotten'
  BY <1>28 DEF Reap
<1>29. ASSUME NEW w \in Worker, IdleTooLong(w) PROVE NothingForgotten'
  BY <1>29 DEF IdleTooLong
<1>30. ASSUME NEW w \in Worker, SandboxDies(w) PROVE NothingForgotten'
  BY <1>30 DEF SandboxDies
<1>31. ASSUME NEW w \in Worker, LateCreation(w) PROVE NothingForgotten'
  BY <1>31 DEF LateCreation
<1>32. ASSUME Restart PROVE NothingForgotten'
  BY <1>32 DEF Restart
<1>33. CASE UNCHANGED vars
  BY <1>33
<1> QED
  BY <1>1, <1>2, <1>3, <1>4, <1>5, <1>6, <1>7, <1>8, <1>9, <1>10, <1>11, <1>12, <1>13, <1>14, <1>15, <1>16, <1>17, <1>18, <1>19, <1>20, <1>21, <1>22, <1>23, <1>24, <1>25, <1>26, <1>27, <1>28, <1>29, <1>30, <1>31, <1>32, <1>33
     DEF Next, AcquireStep, FinishStep, CancelStep, DestroyStep

-----------------------------------------------------------------------------
(***************************************************************************)
(* The theorems                                                            *)
(***************************************************************************)
LEMMA Inductive == Spec => []IInv
<1>1. Init => Paid
  BY DEF Init, Paid, Actor
<1>2. /\ OwnershipInv /\ QuotaTypeOK /\ QuotaExact /\ QuotaBounded
      /\ Paid /\ [Next]_vars
      => Paid'
  BY StepPaid
<1>3. OwnershipInv /\ QuotaTypeOK /\ QuotaExact /\ QuotaBounded /\ Paid => IInv
  BY DEF IInv
<1> QED
  BY <1>1, <1>2, <1>3, Capacity, PTL DEF Spec

\* Every variable of the pool and of the quota keeps its type.
THEOREM TypeCorrect == Spec => []TypeOK
<1>1. IInv => TypeOK
  BY DEF IInv, OwnershipInv, TypeOK
<1> QED
  BY <1>1, Inductive, PTL

\* No two invocations, and no invocation and the reaper, ever own one worker.
THEOREM Exclusive == Spec => []ExclusiveOwnership
<1>1. IInv => ExclusiveOwnership
  BY DEF IInv, OwnershipInv
<1> QED
  BY <1>1, Inductive, PTL

\* No worker serves a tenant or an image other than its own.
THEOREM Isolated == Spec => []TenantIsolation
<1>1. IInv => TenantIsolation
  BY DEF IInv, OwnershipInv, Isolation, TenantIsolation, KeyOf
<1> QED
  BY <1>1, Inductive, PTL

\* The quota counts the capacity in use exactly, per tenant and in total.
THEOREM Exact == Spec => []QuotaExact
<1>1. IInv => QuotaExact
  BY DEF IInv
<1> QED
  BY <1>1, Inductive, PTL

\* No limit of the quota is ever exceeded.
THEOREM Bounded == Spec => []QuotaBounded
<1>1. IInv => QuotaBounded
  BY DEF IInv
<1> QED
  BY <1>1, Inductive, PTL

\* With a backend that answers, the sandboxes a process has made never exceed
\* max_live.  What a restart has lost sight of is not counted: sandboxes beyond
\* the page it reads, and creations that were under way.
THEOREM ClusterBounded == Spec => []SandboxesWithinQuota
<1>1. IInv => SandboxesWithinQuota
  BY PaidBound DEF IInv
<1> QED
  BY <1>1, Inductive, PTL

\* While the backend answers, no interleaving of acquire, release, cancel and
\* reap loses a worker that is not destroyed: someone is going to delete it.
THEOREM DeletedOnce ==
  ASSUME ~BackendFaults
  PROVE  Spec => []DeletionStillToCome
<1>1. Init => NothingForgotten
  BY DEF Init, NothingForgotten, Actor, Up
<1>2. OwnershipInv /\ NothingForgotten /\ [Next]_vars => NothingForgotten'
  BY StepForgotten
<1>3. NothingForgotten => DeletionStillToCome
  BY DEF NothingForgotten, Found, DeletionStillToCome
<1> QED
  BY <1>1, <1>2, <1>3, Ownership, PTL DEF Spec

-----------------------------------------------------------------------------
(***************************************************************************)
(* The agent inside a worker, for every number of runs and cancels, with   *)
(* and without the right to kill every process of the children's user.     *)
(***************************************************************************)
Own(r) == Prepare(r) \/ PrepareFails(r) \/ Spawn(r) \/ Register(r) \/ ReadersFail(r)
          \/ WriteRequest(r) \/ ChildGone(r) \/ Timeout(r) \/ ReapChild(r) \/ Judge(r)
          \/ Clear(r) \/ Sweep(r) \/ ReleaseGate(r)

Cancels(c) ==
  (\E i \in Invocation : CancelMisses(c, i) \/ CancelMarks(c, i)) \/ CancelKills(c)

LEMMA AgentNextCases ==
  ASSUME [AgentNext]_agentVars
  PROVE  \/ \E r \in Run : Refuse(r) \/ Enter(r) \/ Own(r) \/ Operate(r)
         \/ \E c \in Cancel : Cancels(c)
         \/ UNCHANGED agentVars
BY DEF AgentNext, Proceed, Own, Cancels

-----------------------------------------------------------------------------
(***************************************************************************)
(* The types of the agent                                                  *)
(***************************************************************************)
LEMMA AgentTypeInit == AgentInit => AgentTypeOK
BY AgentConstants DEF AgentInit, AgentTypeOK, Alive

LEMMA AgentTypeOwn ==
  ASSUME AgentTypeOK, NEW r \in Run, Refuse(r) \/ Enter(r) \/ Own(r)
  PROVE  AgentTypeOK'
<1> USE AgentConstants DEF AgentTypeOK, Step, Alive, marks, remains, processes, cancels
<1>1. CASE Refuse(r)  BY <1>1 DEF Refuse
<1>2. CASE Enter(r)  BY <1>2 DEF Enter
<1>3. CASE Prepare(r)  BY <1>3 DEF Prepare
<1>4. CASE PrepareFails(r)  BY <1>4 DEF PrepareFails
<1>5. CASE Spawn(r)  BY <1>5 DEF Spawn
<1>6. CASE Register(r)  BY <1>6 DEF Register
<1>7. CASE ReadersFail(r)  BY <1>7 DEF ReadersFail
<1>8. CASE WriteRequest(r)  BY <1>8 DEF WriteRequest
<1>9. CASE ChildGone(r)  BY <1>9 DEF ChildGone
<1>10. CASE Timeout(r)  BY <1>10 DEF Timeout, KillGroup
<1>11. CASE ReapChild(r)  BY <1>11 DEF ReapChild, KillAll, KillGroup, Detached
<1>12. CASE Judge(r)
  <2>1. Verdict(r) \in {"CANCELLED", "TIMEOUT", "LOG_LIMIT", "USER_PROCESS_EXITED", "result"}
    BY DEF Verdict
  <2>2. QED  BY <1>12, <2>1 DEF Judge
<1>13. CASE Clear(r)  BY <1>13 DEF Clear, KillGroup
<1>14. CASE Sweep(r)  BY <1>14 DEF Sweep, KillAll, KillGroup, Detached
<1>15. CASE ReleaseGate(r)  BY <1>15 DEF ReleaseGate
<1>16. QED
  BY <1>1, <1>2, <1>3, <1>4, <1>5, <1>6, <1>7, <1>8, <1>9, <1>10, <1>11, <1>12, <1>13,
     <1>14, <1>15
  DEF Own

LEMMA AgentTypeOperate ==
  ASSUME AgentTypeOK, NEW r \in Run, Operate(r)
  PROVE  AgentTypeOK'
<1> USE DEF AgentTypeOK, Alive, marks, remains, processes, cancels
<1>1. CASE ChildReads(r)  BY <1>1 DEF ChildReads
<1>2. CASE \E o \in Outcomes : ChildReports(r, o)  BY <1>2 DEF ChildReports
<1>3. CASE ChildExits(r)  BY <1>3 DEF ChildExits
<1>4. CASE ChildFloods(r)  BY <1>4 DEF ChildFloods, KillGroup
<1>5. ASSUME NEW k \in {"group", "session"}, ChildForks(r, k) PROVE AgentTypeOK'
  BY <1>5 DEF ChildForks
<1>6. QED  BY <1>1, <1>2, <1>3, <1>4, <1>5 DEF Operate

LEMMA AgentTypeCancel ==
  ASSUME AgentTypeOK, NEW c \in Cancel, Cancels(c)
  PROVE  AgentTypeOK'
<1> USE DEF AgentTypeOK, Alive, marks, remains, processes
<1>1. CASE \E i \in Invocation : CancelMisses(c, i)  BY <1>1 DEF CancelMisses
<1>2. CASE \E i \in Invocation : CancelMarks(c, i)  BY <1>2 DEF CancelMarks, ActiveIs
<1>3. CASE CancelKills(c)  BY <1>3 DEF CancelKills, KillGroup
<1>4. QED  BY <1>1, <1>2, <1>3 DEF Cancels

LEMMA AgentTypeStep == AgentTypeOK /\ [AgentNext]_agentVars => AgentTypeOK'
<1> SUFFICES ASSUME AgentTypeOK, [AgentNext]_agentVars PROVE AgentTypeOK'
  OBVIOUS
<1>1. CASE UNCHANGED agentVars
  BY <1>1 DEF agentVars, AgentTypeOK, marks, remains, processes, cancels
<1>2. QED
  BY <1>1, AgentNextCases, AgentTypeOwn, AgentTypeOperate, AgentTypeCancel

\* The gate belongs to the run that is through it, and the rest of the agent's
\* state has its type, whatever the operator does.
THEOREM AgentTypeCorrect == AgentSpec => []AgentTypeOK
BY AgentTypeInit, AgentTypeStep, PTL DEF AgentSpec

-----------------------------------------------------------------------------
(***************************************************************************)
(* What a run has in the sandbox follows from where its thread is: nothing *)
(* before it has spawned, a live child only until it has killed it, and    *)
(* what its sweep has missed once it is about to give the gate back.       *)
(***************************************************************************)
Traces ==
  \A r \in Run :
    /\ child[r] \in Alive => thread[r] \in {"register", "write", "wait", "clear"}
    /\ thread[r] \in {"out", "prepare", "spawn"} => child[r] = "none" /\ kin[r] = {}
    /\ thread[r] = "out" => r \notin scratch
    /\ thread[r] \in {"sweep", "release", "answered"} => "group" \notin kin[r]
    /\ thread[r] \in {"release", "answered"} =>
         r \notin scratch \ kept /\ (Privileged /\ r \notin escaped => kin[r] = {})

SandboxInv == AgentTypeOK /\ Traces

LEMMA TracesInit == AgentInit => Traces
BY DEF AgentInit, Traces, Alive

LEMMA TracesOwn ==
  ASSUME SandboxInv, NEW r \in Run, Refuse(r) \/ Enter(r) \/ Own(r)
  PROVE  Traces'
<1> USE DEF SandboxInv, AgentTypeOK, Traces, Step, Alive, marks, remains, processes
<1>1. CASE Refuse(r)  BY <1>1 DEF Refuse
<1>2. CASE Enter(r)  BY <1>2 DEF Enter
<1>3. CASE Prepare(r)  BY <1>3 DEF Prepare
<1>4. CASE PrepareFails(r)  BY <1>4 DEF PrepareFails
<1>5. CASE Spawn(r)  BY <1>5 DEF Spawn
<1>6. CASE Register(r)  BY <1>6 DEF Register
<1>7. CASE ReadersFail(r)  BY <1>7 DEF ReadersFail
<1>8. CASE WriteRequest(r)  BY <1>8 DEF WriteRequest
<1>9. CASE ChildGone(r)  BY <1>9 DEF ChildGone
<1>10. CASE Timeout(r)  BY <1>10 DEF Timeout, KillGroup
<1>11. CASE ReapChild(r)  BY <1>11 DEF ReapChild, KillAll, KillGroup, Detached
<1>12. CASE Judge(r)  BY <1>12 DEF Judge
<1>13. CASE Clear(r)  BY <1>13 DEF Clear, KillGroup
<1>14. CASE Sweep(r)  BY <1>14 DEF Sweep, KillAll, KillGroup, Detached
<1>15. CASE ReleaseGate(r)  BY <1>15 DEF ReleaseGate
<1>16. QED
  BY <1>1, <1>2, <1>3, <1>4, <1>5, <1>6, <1>7, <1>8, <1>9, <1>10, <1>11, <1>12, <1>13,
     <1>14, <1>15
  DEF Own

LEMMA TracesOperate ==
  ASSUME SandboxInv, NEW r \in Run, Operate(r)
  PROVE  Traces'
<1> USE DEF SandboxInv, AgentTypeOK, Traces, Alive, marks, remains, processes
<1>1. CASE ChildReads(r)  BY <1>1 DEF ChildReads
<1>2. CASE \E o \in Outcomes : ChildReports(r, o)  BY <1>2 DEF ChildReports
<1>3. CASE ChildExits(r)  BY <1>3 DEF ChildExits
<1>4. CASE ChildFloods(r)  BY <1>4 DEF ChildFloods, KillGroup
<1>5. ASSUME NEW k \in {"group", "session"}, ChildForks(r, k) PROVE Traces'
  BY <1>5 DEF ChildForks
<1>6. QED  BY <1>1, <1>2, <1>3, <1>4, <1>5 DEF Operate

LEMMA TracesCancel ==
  ASSUME SandboxInv, NEW c \in Cancel, Cancels(c)
  PROVE  Traces'
<1> USE DEF SandboxInv, AgentTypeOK, Traces, Alive, marks, remains, processes
<1>1. CASE \E i \in Invocation : CancelMisses(c, i)  BY <1>1 DEF CancelMisses
<1>2. CASE \E i \in Invocation : CancelMarks(c, i)  BY <1>2 DEF CancelMarks
<1>3. CASE CancelKills(c)  BY <1>3 DEF CancelKills, KillGroup
<1>4. QED  BY <1>1, <1>2, <1>3 DEF Cancels

LEMMA SandboxStep == SandboxInv /\ [AgentNext]_agentVars => SandboxInv'
<1> SUFFICES ASSUME SandboxInv, [AgentNext]_agentVars PROVE SandboxInv'
  OBVIOUS
<1>1. AgentTypeOK'  BY AgentTypeStep DEF SandboxInv
<1>2. CASE UNCHANGED agentVars
  BY <1>1, <1>2 DEF agentVars, SandboxInv, Traces, remains, processes
<1>3. QED
  BY <1>1, <1>2, AgentNextCases, TracesOwn, TracesOperate, TracesCancel DEF SandboxInv

LEMMA Sandbox == AgentSpec => []SandboxInv
<1>1. AgentInit => SandboxInv  BY AgentTypeInit, TracesInit DEF SandboxInv
<1>2. QED  BY <1>1, SandboxStep, PTL DEF AgentSpec

\* One invocation at a time: while a child lives, nothing of another invocation is
\* left in its group, and elsewhere in the sandbox only what the sweep of that
\* invocation has missed or could not remove.
THEOREM CleanSandbox == AgentSpec => []NothingLeftBehind
<1>1. SandboxInv => NothingLeftBehind
  BY DEF SandboxInv, AgentTypeOK, Traces, NothingLeftBehind
<1>2. QED  BY <1>1, Sandbox, PTL

\* _kill_user_processes only ever meets children of the run that sweeps.
THEOREM OwnKill == AgentSpec => OnlyItsOwnKill
<1>1. SandboxInv /\ [AgentNext]_agentVars =>
        [\A r \in Run :
           child[r] \in Alive /\ child'[r] = "killed" =>
             \/ thread'[r] # thread[r]
             \/ flooded'[r]
             \/ \E c \in Cancel : aim[c] = r /\ at'[c] # at[c]]_agentVars
  <2> SUFFICES ASSUME SandboxInv, [AgentNext]_agentVars, NEW r \in Run,
                      child[r] \in Alive, child'[r] = "killed"
               PROVE  \/ thread'[r] # thread[r]
                      \/ flooded'[r]
                      \/ \E c \in Cancel : aim[c] = r /\ at'[c] # at[c]
    OBVIOUS
  <2> USE DEF SandboxInv, AgentTypeOK, Traces, Alive, Step, processes
  <2>1. ASSUME NEW s \in Run, Refuse(s) \/ Enter(s) \/ Own(s)
        PROVE  thread'[r] # thread[r]
    <3>1. CASE Timeout(s)  BY <2>1, <3>1 DEF Timeout, KillGroup
    <3>2. CASE ReapChild(s)  BY <2>1, <3>2 DEF ReapChild, KillAll, KillGroup, Detached
    <3>3. CASE Clear(s)  BY <2>1, <3>3 DEF Clear, KillGroup
    <3>4. CASE Sweep(s)  BY <2>1, <3>4 DEF Sweep, KillAll, KillGroup, Detached
    <3>5. CASE Spawn(s)  BY <2>1, <3>5 DEF Spawn
    <3>6. CASE Refuse(s) \/ Enter(s) \/ Prepare(s) \/ PrepareFails(s) \/ Register(s)
               \/ ReadersFail(s) \/ WriteRequest(s) \/ ChildGone(s) \/ Judge(s)
               \/ ReleaseGate(s)
      <4>1. child' = child
        BY <3>6 DEF Refuse, Enter, Prepare, PrepareFails, Register, ReadersFail, WriteRequest,
                    ChildGone, Judge, ReleaseGate
      <4>2. QED  BY <4>1
    <3>7. QED  BY <2>1, <3>1, <3>2, <3>3, <3>4, <3>5, <3>6 DEF Own
  <2>2. ASSUME NEW s \in Run, Operate(s) PROVE flooded'[r]
    BY <2>2
    DEF Operate, ChildReads, ChildReports, ChildExits, ChildFloods, ChildForks, KillGroup
  <2>3. ASSUME NEW c \in Cancel, Cancels(c)
        PROVE  \E d \in Cancel : aim[d] = r /\ at'[d] # at[d]
    BY <2>3 DEF Cancels, CancelMisses, CancelMarks, CancelKills, KillGroup
  <2>4. CASE UNCHANGED agentVars  BY <2>4 DEF agentVars
  <2>5. QED  BY <2>1, <2>2, <2>3, <2>4, AgentNextCases
<1>2. QED  BY <1>1, Sandbox, PTL DEF AgentSpec, OnlyItsOwnKill

-----------------------------------------------------------------------------
(***************************************************************************)
(* What becomes of a result: execute never makes a success that asks for a *)
(* retry, and on all other results NiFi and the Runner agree.              *)
(***************************************************************************)
LEMMA NormalizedFields ==
  ASSUME NEW o
  PROVE  /\ o.how # "dict" => /\ Normalized(o).status = "SUCCEEDED"
                              /\ Normalized(o).retryable = FALSE
         /\ o.how = "dict" => /\ Normalized(o).status = Status(o)
                              /\ Normalized(o).retryable = Retryable(o)
<1>1. CASE o.how # "dict"
  BY <1>1 DEF Normalized
<1>2. CASE o.how = "dict"
  BY <1>2 DEF Normalized
<1>3. QED  BY <1>1, <1>2

LEMMA Failure ==
  ASSUME NEW code
  PROVE  Failed(code).status = "FAILED" /\ Failed(code).retryable = FALSE
BY DEF Failed

LEMMA ExecuteResult ==
  ASSUME NEW o
  PROVE  \/ /\ Valid(o) /\ o.fits
            /\ Execute(o) = Normalized(o)
         \/ Execute(o).status = "FAILED" /\ Execute(o).retryable = FALSE
<1>1. CASE o.how \in Faults
  BY <1>1, Failure DEF Execute
<1>2. CASE o.how \notin Faults /\ ~Valid(o)
  BY <1>2, Failure DEF Execute
<1>3. CASE o.how \notin Faults /\ Valid(o) /\ ~o.fits
  BY <1>3, Failure DEF Execute
<1>4. CASE o.how \notin Faults /\ Valid(o) /\ o.fits
  BY <1>4 DEF Execute
<1>5. QED  BY <1>1, <1>2, <1>3, <1>4

LEMMA ExecuteConsistent ==
  ASSUME NEW o
  PROVE  /\ Execute(o).retryable \in BOOLEAN
         /\ Execute(o).status = "SUCCEEDED" =>
              /\ Execute(o).retryable = FALSE
              /\ o.how = "dict" => ~Retryable(o)
<1>1. Retryable(o) \in BOOLEAN
  BY DEF Retryable
<1>2. CASE Execute(o).status = "FAILED" /\ Execute(o).retryable = FALSE
  BY <1>2
<1>3. CASE Valid(o) /\ Execute(o) = Normalized(o) /\ o.how # "dict"
  BY <1>3, NormalizedFields
<1>4. CASE Valid(o) /\ Execute(o) = Normalized(o) /\ o.how = "dict"
  <2>1. ~(Status(o) = "SUCCEEDED" /\ Retryable(o))
    BY <1>4 DEF Valid
  <2>2. Execute(o).status = Status(o) /\ Execute(o).retryable = Retryable(o)
    BY <1>4, NormalizedFields
  <2>3. QED  BY <1>1, <1>4, <2>1, <2>2
<1>5. QED  BY <1>2, <1>3, <1>4, ExecuteResult

LEMMA ExecuteRetries ==
  ASSUME NEW o, o.how = "dict", Retryable(o), Valid(o), o.fits
  PROVE  Execute(o).status # "SUCCEEDED" /\ Execute(o).retryable = TRUE
<1>1. Execute(o) = Normalized(o)
  BY DEF Execute, Faults
<1>2. Execute(o).status = Status(o) /\ Execute(o).retryable = Retryable(o)
  BY <1>1, NormalizedFields
<1>3. Status(o) # "SUCCEEDED"
  BY DEF Valid
<1>4. Retryable(o) = TRUE
  BY DEF Retryable
<1>5. QED  BY <1>2, <1>3, <1>4

\* A result the Runner and NiFi read alike.
Consistent(v) ==
  v.retryable \in BOOLEAN /\ (v.status = "SUCCEEDED" => v.retryable = FALSE)

LEMMA RoutesAgree ==
  ASSUME NEW v, Consistent(v)
  PROVE  /\ Route(v) = "RETRY" <=> ~Replayable(v)
         /\ Route(v) = "RETRY" <=> OutcomeClass(v) = "RETRYABLE_FAILURE"
         /\ Route(v) = "SUCCESS" => v.status = "SUCCEEDED"
         /\ v.status # "SUCCEEDED" /\ v.retryable = TRUE => Route(v) = "RETRY"
<1>1. CASE v.retryable = TRUE
  BY <1>1 DEF Route, Replayable, OutcomeClass, Consistent
<1>2. CASE v.retryable = FALSE
  BY <1>2 DEF Route, Replayable, OutcomeClass
<1>3. QED  BY <1>1, <1>2 DEF Consistent

LEMMA Refused ==
  ASSUME NEW code
  PROVE  /\ Refusal(code).retryable \in BOOLEAN
         /\ Refusal(code).status = "FAILED"
         /\ Refusal(code).code = code
<1>1. CASE code = "AGENT_BUSY"
  BY <1>1 DEF Refusal, Failed
<1>2. CASE code # "AGENT_BUSY"
  BY <1>2 DEF Refusal, Failed
<1>3. QED  BY <1>1, <1>2

\* An answer is there when the run has been judged, and rests on a frame that
\* was complete before anything had gone wrong.
Answers ==
  \A r \in Run :
    /\ answer[r] = "none" <=> thread[r] \notin {"clear", "sweep", "release", "answered"}
    /\ answer[r] = "result" =>
         child[r] \notin Alive /\ returned[r] \in Outcomes /\ ~overdue[r] /\ ~flooded[r]

LEMMA AnswersOwn ==
  ASSUME SandboxInv, Answers, NEW r \in Run, Refuse(r) \/ Enter(r) \/ Own(r)
  PROVE  Answers'
<1> USE DEF SandboxInv, AgentTypeOK, Traces, Answers, Step, Alive, marks, remains, processes
<1>1. CASE Refuse(r)  BY <1>1 DEF Refuse
<1>2. CASE Enter(r)  BY <1>2 DEF Enter
<1>3. CASE Prepare(r)  BY <1>3 DEF Prepare
<1>4. CASE PrepareFails(r)  BY <1>4 DEF PrepareFails
<1>5. CASE Spawn(r)  BY <1>5 DEF Spawn
<1>6. CASE Register(r)  BY <1>6 DEF Register
<1>7. CASE ReadersFail(r)  BY <1>7 DEF ReadersFail
<1>8. CASE WriteRequest(r)  BY <1>8 DEF WriteRequest
<1>9. CASE ChildGone(r)  BY <1>9 DEF ChildGone
<1>10. CASE Timeout(r)  BY <1>10 DEF Timeout, KillGroup
<1>11. CASE ReapChild(r)  BY <1>11 DEF ReapChild, KillAll, KillGroup, Detached
<1>12. CASE Judge(r)
  <2>1. /\ Verdict(r) # "none"
        /\ Verdict(r) = "result" => returned[r] # NoFrame /\ ~overdue[r] /\ ~flooded[r]
    BY DEF Verdict
  <2>2. QED  BY <1>12, <2>1 DEF Judge
<1>13. CASE Clear(r)  BY <1>13 DEF Clear, KillGroup
<1>14. CASE Sweep(r)  BY <1>14 DEF Sweep, KillAll, KillGroup, Detached
<1>15. CASE ReleaseGate(r)  BY <1>15 DEF ReleaseGate
<1>16. QED
  BY <1>1, <1>2, <1>3, <1>4, <1>5, <1>6, <1>7, <1>8, <1>9, <1>10, <1>11, <1>12, <1>13,
     <1>14, <1>15
  DEF Own

LEMMA AnswersOperate ==
  ASSUME SandboxInv, Answers, NEW r \in Run, Operate(r)
  PROVE  Answers'
<1> USE DEF SandboxInv, AgentTypeOK, Traces, Answers, Alive, marks, remains, processes
<1>1. CASE ChildReads(r)  BY <1>1 DEF ChildReads
<1>2. CASE \E o \in Outcomes : ChildReports(r, o)  BY <1>2 DEF ChildReports
<1>3. CASE ChildExits(r)  BY <1>3 DEF ChildExits
<1>4. CASE ChildFloods(r)  BY <1>4 DEF ChildFloods, KillGroup
<1>5. ASSUME NEW k \in {"group", "session"}, ChildForks(r, k) PROVE Answers'
  BY <1>5 DEF ChildForks
<1>6. QED  BY <1>1, <1>2, <1>3, <1>4, <1>5 DEF Operate

LEMMA AnswersCancel ==
  ASSUME SandboxInv, Answers, NEW c \in Cancel, Cancels(c)
  PROVE  Answers'
<1> USE DEF SandboxInv, AgentTypeOK, Traces, Answers, Alive, marks, remains, processes
<1>1. CASE \E i \in Invocation : CancelMisses(c, i)  BY <1>1 DEF CancelMisses
<1>2. CASE \E i \in Invocation : CancelMarks(c, i)  BY <1>2 DEF CancelMarks
<1>3. CASE CancelKills(c)  BY <1>3 DEF CancelKills, KillGroup
<1>4. QED  BY <1>1, <1>2, <1>3 DEF Cancels

LEMMA AnswersStep == SandboxInv /\ Answers /\ [AgentNext]_agentVars => Answers'
<1> SUFFICES ASSUME SandboxInv, Answers, [AgentNext]_agentVars PROVE Answers'
  OBVIOUS
<1>1. CASE UNCHANGED agentVars
  BY <1>1 DEF agentVars, Answers, marks, processes
<1>2. QED
  BY <1>1, AgentNextCases, AnswersOwn, AnswersOperate, AnswersCancel

\* Whatever an operator returns and however its run ends, the relationship NiFi
\* chooses, the audit row, the replay of the idempotency key and the fate of the
\* worker agree with each other and with what the operator asked for.
THEOREM Routed == AgentSpec => []RoutedAsReported
<1>1. AgentInit => Answers
  BY DEF AgentInit, Answers
<1>2. SandboxInv /\ Answers => RoutedAsReported
  <2> SUFFICES ASSUME SandboxInv, Answers, NEW r \in Run,
                      thread[r] = "answered", ~RolledBack(r)
               PROVE  LET v == RunResult(r)
                          route == Route(v)
                      IN /\ route = "RETRY" <=> ~Replayable(v)
                         /\ route = "RETRY" <=> OutcomeClass(v) = "RETRYABLE_FAILURE"
                         /\ route = "SUCCESS" =>
                              /\ returned[r] # NoFrame
                              /\ ~overdue[r] /\ ~flooded[r]
                              /\ returned[r].how = "dict" => ~Retryable(returned[r])
                         /\ answer[r] = "result" /\ returned[r].how = "dict"
                            /\ Retryable(returned[r]) =>
                              route = "RETRY" \/ ~Valid(returned[r]) \/ ~returned[r].fits
                         /\ Reused(v) => answer[r] # "AGENT_BUSY"
    BY DEF RoutedAsReported
  <2>1. CASE answer[r] = "result"
    <3>1. RunResult(r) = Execute(returned[r])
      BY <2>1 DEF RunResult
    <3>2. returned[r] \in Outcome /\ returned[r] # NoFrame /\ ~overdue[r] /\ ~flooded[r]
      BY <2>1, AgentConstants DEF Answers
    <3>3. /\ RunResult(r).retryable \in BOOLEAN
          /\ RunResult(r).status = "SUCCEEDED" =>
               /\ RunResult(r).retryable = FALSE
               /\ returned[r].how = "dict" => ~Retryable(returned[r])
      BY <3>1, ExecuteConsistent
    <3>4. returned[r].how = "dict" /\ Retryable(returned[r]) /\ Valid(returned[r])
          /\ returned[r].fits =>
            RunResult(r).status # "SUCCEEDED" /\ RunResult(r).retryable = TRUE
      BY <3>1, <3>2, ExecuteRetries
    <3>5. Consistent(RunResult(r))
      BY <3>3 DEF Consistent
    <3>6. /\ Route(RunResult(r)) = "RETRY" <=> ~Replayable(RunResult(r))
          /\ Route(RunResult(r)) = "RETRY" <=> OutcomeClass(RunResult(r)) = "RETRYABLE_FAILURE"
          /\ Route(RunResult(r)) = "SUCCESS" => RunResult(r).status = "SUCCEEDED"
          /\ RunResult(r).status # "SUCCEEDED" /\ RunResult(r).retryable = TRUE =>
               Route(RunResult(r)) = "RETRY"
      BY <3>5, RoutesAgree
    <3>7. QED  BY <2>1, <3>2, <3>3, <3>4, <3>6
  <2>2. CASE answer[r] # "result"
    <3>1. RunResult(r) = Refusal(answer[r])
      BY <2>2 DEF RunResult
    <3>2. /\ RunResult(r).retryable \in BOOLEAN
          /\ RunResult(r).status = "FAILED"
          /\ RunResult(r).code = answer[r]
      BY <3>1, Refused
    <3>3. Reused(RunResult(r)) => answer[r] # "AGENT_BUSY"
      BY <3>2 DEF Reused, ReusableErrors
    <3>4. Consistent(RunResult(r))
      BY <3>2 DEF Consistent
    <3>5. /\ Route(RunResult(r)) = "RETRY" <=> ~Replayable(RunResult(r))
          /\ Route(RunResult(r)) = "RETRY" <=> OutcomeClass(RunResult(r)) = "RETRYABLE_FAILURE"
          /\ Route(RunResult(r)) = "SUCCESS" => RunResult(r).status = "SUCCEEDED"
          /\ RunResult(r).status # "SUCCEEDED" /\ RunResult(r).retryable = TRUE =>
               Route(RunResult(r)) = "RETRY"
      BY <3>4, RoutesAgree
    <3>6. QED  BY <2>2, <3>2, <3>3, <3>5
  <2>3. QED  BY <2>1, <2>2
<1>3. QED  BY <1>1, <1>2, AnswersStep, Sandbox, PTL DEF AgentSpec
=============================================================================
