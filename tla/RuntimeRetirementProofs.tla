----------------------- MODULE RuntimeRetirementProofs -----------------------
(***************************************************************************)
(* Proofs about RuntimeRetirement, for every number of calls, admins and   *)
(* sandboxes.                                                              *)
(***************************************************************************)
EXTENDS RuntimeRetirement, FiniteSetTheorems, TLAPS

-----------------------------------------------------------------------------
(***************************************************************************)
(* Types                                                                   *)
(***************************************************************************)
LEMMA TypeInit == Init => TypeOK
BY ConstantsAssumption DEF Init, TypeOK

LEMMA TypeCall ==
  ASSUME TypeOK, NEW c \in Call, Invoke(c) \/ CallStep(c) \/ Settle(c)
  PROVE  TypeOK'
<1> USE ConstantsAssumption DEF TypeOK, Goto, adminVars, clusterVars
<1>1. CASE Invoke(c)  BY <1>1 DEF Invoke
<1>2. CASE PassGate(c)  BY <1>2 DEF PassGate
<1>3. CASE StoppedAtGate(c)  BY <1>3 DEF StoppedAtGate
<1>4. CASE AcquireReuses(c)  BY <1>4 DEF AcquireReuses
<1>5. CASE AcquireCreates(c)  BY <1>5 DEF AcquireCreates
<1>6. CASE AcquireFails(c)  BY <1>6 DEF AcquireFails
<1>7. CASE Settle(c)
  <2>1. acquiring' \in Nat  BY <1>7 DEF Settle
  <2>2. QED  BY <1>7, <2>1 DEF Settle
<1>8. CASE Register(c)  BY <1>8 DEF Register
<1>9. CASE RegisterRefused(c)  BY <1>9 DEF RegisterRefused
<1>10. CASE RunEnds(c)  BY <1>10 DEF RunEnds
<1>11. CASE Leave(c)  BY <1>11 DEF Leave
<1>12. QED
  BY <1>1, <1>2, <1>3, <1>4, <1>5, <1>6, <1>7, <1>8, <1>9, <1>10, <1>11 DEF CallStep

LEMMA TypeAdmin ==
  ASSUME TypeOK, NEW a \in Admin,
         Begin(a) \/ RetireIdleWorker(a) \/ Finalize(a) \/ CancelCheck(a) \/ AdminStep(a)
  PROVE  TypeOK'
<1> USE ConstantsAssumption DEF TypeOK, Step, callVars, clusterVars
<1>1. CASE Begin(a)  BY <1>1 DEF Begin
<1>2. CASE RetireIdleWorker(a)  BY <1>2 DEF RetireIdleWorker
<1>3. CASE Finalize(a)  BY <1>3 DEF Finalize
<1>4. CASE CancelCheck(a)  BY <1>4 DEF CancelCheck
<1>5. CASE Sweep(a)  BY <1>5 DEF Sweep
<1>6. CASE DeleteNext(a)  BY <1>6 DEF DeleteNext
<1>7. CASE DeleteRaises(a)  BY <1>7 DEF DeleteRaises, Unlock
<1>8. CASE DeleteDone(a)  BY <1>8 DEF DeleteDone, Unlock
<1>9. ASSUME NEW from \in {"row", "active", "idle", "acquiring", "managed"},
             NEW to \in {"active", "idle", "acquiring", "managed", "safe", "update"},
             NEW clear, Read(a, from, clear, to)
      PROVE  TypeOK'
  BY <1>9 DEF Read
<1>10. CASE StatusStep(a)
  BY <1>10, <1>9
  DEF StatusStep, ReadRow, ReadActive, ReadIdle, ReadAcquiring, ReadManaged, Decided
<1>11. CASE AnswerSafe(a)  BY <1>11 DEF AnswerSafe
<1>12. CASE Update(a)  BY <1>12 DEF Update
<1>13. CASE CancelDelete(a)  BY <1>13 DEF CancelDelete
<1>14. QED
  BY <1>1, <1>2, <1>3, <1>4, <1>5, <1>6, <1>7, <1>8, <1>10, <1>11, <1>12, <1>13
  DEF AdminStep

LEMMA TypeStep == TypeOK /\ [Next]_vars => TypeOK'
<1> SUFFICES ASSUME TypeOK, [Next]_vars PROVE TypeOK'
  OBVIOUS
<1>1. CASE Reap  BY <1>1 DEF Reap, TypeOK, callVars, adminVars, clusterVars
<1>2. ASSUME NEW s \in Sandbox, SandboxGone(s) \/ LateCreation(s) PROVE TypeOK'
  BY <1>2 DEF SandboxGone, LateCreation, TypeOK, callVars, adminVars, clusterVars
<1>3. CASE Restart  BY <1>3, ConstantsAssumption DEF Restart, TypeOK
<1>4. CASE UNCHANGED vars  BY <1>4 DEF vars, TypeOK, callVars, adminVars, clusterVars
<1>5. QED
  BY <1>1, <1>2, <1>3, <1>4, TypeCall, TypeAdmin DEF Next

-----------------------------------------------------------------------------
(***************************************************************************)
(* The counter.  A step changes it together with the set it counts.        *)
(***************************************************************************)
Acquirers == {c \in Call : pc[c] \in {"acquire", "settle"}}

LEMMA AcquirersFinite ==
  /\ IsFiniteSet(Acquirers)
  /\ Cardinality(Acquirers) \in Nat
  /\ Cardinality(Acquirers) = 0 <=> Acquirers = {}
<1>1. Acquirers \subseteq Call  BY DEF Acquirers
<1>2. IsFiniteSet(Acquirers)  BY <1>1, FS_Subset, ConstantsAssumption
<1>3. QED  BY <1>2, FS_CardinalityType, FS_EmptySet

LEMMA SameAcquirers ==
  ASSUME AcquiringExact, acquiring' = acquiring, Acquirers' = Acquirers
  PROVE  AcquiringExact'
BY DEF AcquiringExact, Acquirers

LEMMA ExactCall ==
  ASSUME TypeOK, AcquiringExact, NEW c \in Call, Invoke(c) \/ CallStep(c) \/ Settle(c)
  PROVE  AcquiringExact'
<1>1. acquiring = Cardinality(Acquirers)  BY DEF AcquiringExact, Acquirers
<1> USE DEF TypeOK, Goto
<1>2. CASE PassGate(c)
  <2>1. c \notin Acquirers  BY <1>2 DEF PassGate, Acquirers
  <2>2. Acquirers' = Acquirers \cup {c}  BY <1>2 DEF PassGate, Acquirers
  <2>3. Cardinality(Acquirers') = Cardinality(Acquirers) + 1
    BY <2>1, <2>2, AcquirersFinite, FS_AddElement
  <2>4. QED  BY <1>1, <1>2, <2>3 DEF PassGate, AcquiringExact, Acquirers
<1>3. CASE Settle(c)
  <2>1. c \in Acquirers  BY <1>3 DEF Settle, Acquirers
  <2>2. Acquirers' = Acquirers \ {c}
    BY <1>3 DEF Settle, Acquirers
  <2>3. Cardinality(Acquirers') = Cardinality(Acquirers) - 1
    BY <2>1, <2>2, AcquirersFinite, FS_RemoveElement
  <2>4. acquiring > 0  BY <1>1, <2>1, AcquirersFinite
  <2>5. acquiring' = acquiring - 1  BY <1>3, <2>4 DEF Settle
  <2>6. QED  BY <1>1, <2>3, <2>5 DEF AcquiringExact, Acquirers
<1>4. CASE Invoke(c)
  BY <1>4, SameAcquirers DEF Invoke, Acquirers
<1>5. CASE StoppedAtGate(c)
  BY <1>5, SameAcquirers DEF StoppedAtGate, Acquirers
<1>6. CASE AcquireReuses(c) \/ AcquireCreates(c) \/ AcquireFails(c)
  BY <1>6, SameAcquirers DEF AcquireReuses, AcquireCreates, AcquireFails, Acquirers
<1>7. CASE Register(c) \/ RegisterRefused(c) \/ RunEnds(c) \/ Leave(c)
  BY <1>7, SameAcquirers DEF Register, RegisterRefused, RunEnds, Leave, Acquirers
<1>8. QED
  BY <1>2, <1>3, <1>4, <1>5, <1>6, <1>7 DEF CallStep

\* An admin leaves the calls and their counter alone.
LEMMA AdminKeepsCalls ==
  ASSUME NEW a \in Admin,
         Begin(a) \/ RetireIdleWorker(a) \/ Finalize(a) \/ CancelCheck(a) \/ AdminStep(a)
  PROVE  pc' = pc /\ box' = box /\ acquiring' = acquiring
BY DEF Begin, RetireIdleWorker, Finalize, CancelCheck, AdminStep, StatusStep, Sweep,
       DeleteNext, DeleteRaises, DeleteDone, ReadRow, ReadActive, ReadIdle, ReadAcquiring,
       ReadManaged, Read, AnswerSafe, Update, CancelDelete, callVars

LEMMA ExactInit == Init => AcquiringExact
<1> SUFFICES ASSUME Init PROVE AcquiringExact
  OBVIOUS
<1>1. {c \in Call : pc[c] \in {"acquire", "settle"}} = {}  BY DEF Init
<1>2. QED  BY <1>1, FS_EmptySet DEF Init, AcquiringExact

LEMMA ExactStep == TypeOK /\ AcquiringExact /\ [Next]_vars => AcquiringExact'
<1> SUFFICES ASSUME TypeOK, AcquiringExact, [Next]_vars PROVE AcquiringExact'
  OBVIOUS
<1>1. ASSUME NEW a \in Admin,
             Begin(a) \/ RetireIdleWorker(a) \/ Finalize(a) \/ CancelCheck(a) \/ AdminStep(a)
      PROVE  AcquiringExact'
  BY <1>1, AdminKeepsCalls DEF AcquiringExact
<1>2. CASE Reap  BY <1>2 DEF Reap, AcquiringExact, callVars
<1>3. ASSUME NEW s \in Sandbox, SandboxGone(s) \/ LateCreation(s) PROVE AcquiringExact'
  BY <1>3 DEF SandboxGone, LateCreation, AcquiringExact, callVars
<1>4. CASE Restart
  <2>1. {c \in Call : pc'[c] \in {"acquire", "settle"}} = {}  BY <1>4 DEF Restart
  <2>2. QED  BY <1>4, <2>1, FS_EmptySet DEF Restart, AcquiringExact
<1>5. CASE UNCHANGED vars  BY <1>5 DEF vars, AcquiringExact, callVars
<1>6. QED
  BY <1>1, <1>2, <1>3, <1>4, <1>5, ExactCall DEF Next

\* The type invariant of the retirement, whatever fails and whatever is
\* cancelled (LifecycleWorkerPool and RunnerLifecycleController).
THEOREM TypeCorrect == Spec => []TypeOK
BY TypeInit, TypeStep, PTL DEF Spec

\* The counter of acquisitions in LifecycleWorkerPool.acquire is exact: the
\* finally block takes every acquisition back once, restarts included.
THEOREM CounterExact == Spec => []AcquiringExact
<1>1. TypeOK /\ AcquiringExact /\ [Next]_vars => TypeOK' /\ AcquiringExact'
  BY TypeStep, ExactStep
<1>2. QED  BY <1>1, TypeInit, ExactInit, PTL DEF Spec

-----------------------------------------------------------------------------
(***************************************************************************)
(* The argument for the status.  Once an admin has read RETIRING, the gate *)
(* stays closed: the reads may be as far apart as they like, because what  *)
(* each one saw can only shrink.  Cleared: no acquisition is under way, and *)
(* none can begin.                                                         *)
(***************************************************************************)
Reading == {"active", "idle", "acquiring", "managed", "safe", "update"}
Cleared == row = "RETIRED" \/ \E a \in Admin : at[a] \in {"managed", "safe", "update"}
Emptied == row = "RETIRED" \/ \E a \in Admin : at[a] \in {"safe", "update"}

Closed ==
  /\ \A a \in Admin : at[a] # "cancel" /\ (at[a] \in Reading => row # "ACTIVE")
  /\ Cleared => Acquirers = {}
  /\ Emptied => sandboxes \ strays = {}

LEMMA ClosedInit == Init => Closed
BY DEF Init, Closed, Cleared, Emptied, Reading

\* Calls: with the gate closed they can only finish what they have begun.
LEMMA ClosedCall ==
  ASSUME TypeOK, Closed, NEW c \in Call, Invoke(c) \/ CallStep(c) \/ Settle(c)
  PROVE  Closed'
<1>1. row' = row /\ at' = at
  BY DEF Invoke, CallStep, Settle, PassGate, StoppedAtGate, AcquireReuses, AcquireCreates,
         AcquireFails, Register, RegisterRefused, RunEnds, Leave, adminVars
<1>2. Cleared => row # "ACTIVE"
  BY DEF Closed, Cleared, Reading
<1>3. \A d \in Call : pc'[d] \in {"acquire", "settle"} =>
        pc[d] \in {"acquire", "settle"} \/ row = "ACTIVE"
  BY DEF TypeOK, Goto, Invoke, CallStep, Settle, PassGate, StoppedAtGate, AcquireReuses,
         AcquireCreates, AcquireFails, Register, RegisterRefused, RunEnds, Leave
<1>4. (sandboxes' \ strays') \subseteq (sandboxes \ strays) \/ c \in Acquirers
  BY DEF Goto, clusterVars, Acquirers, Invoke, CallStep, Settle, PassGate, StoppedAtGate, AcquireReuses,
         AcquireCreates, AcquireFails, Register, RegisterRefused, RunEnds, Leave
<1>5. Cleared => Acquirers' = {}
  BY <1>2, <1>3 DEF Closed, Acquirers
<1>6. Emptied => Cleared
  BY DEF Emptied, Cleared
<1>7. Emptied => sandboxes' \ strays' = {}
  BY <1>4, <1>6 DEF Closed
<1>8. QED
  BY <1>1, <1>5, <1>7 DEF Closed, Cleared, Emptied

\* Admins: each read adds what it has seen.
LEMMA ClosedAdmin ==
  ASSUME ~ListFaults, ~Cancels, TypeOK, AcquiringExact, Closed, NEW a \in Admin,
         Begin(a) \/ RetireIdleWorker(a) \/ Finalize(a) \/ CancelCheck(a) \/ AdminStep(a)
  PROVE  Closed'
<1>1. Acquirers' = Acquirers
  BY AdminKeepsCalls DEF Acquirers
<1> USE DEF TypeOK, Step, Closed, Cleared, Emptied, Reading, clusterVars
<1>2. CASE Begin(a)
  BY <1>2, <1>1 DEF Begin
<1>3. CASE RetireIdleWorker(a)
  BY <1>3, <1>1 DEF RetireIdleWorker
<1>4. CASE Finalize(a)
  BY <1>4, <1>1 DEF Finalize
<1>5. CASE CancelCheck(a) \/ CancelDelete(a)
  BY <1>5 DEF CancelCheck, CancelDelete
<1>6. CASE Sweep(a)
  BY <1>6, <1>1 DEF Sweep
<1>7. CASE DeleteNext(a)
  BY <1>7, <1>1 DEF DeleteNext
<1>8. CASE DeleteRaises(a)
  BY <1>8, <1>1 DEF DeleteRaises
<1>9. CASE DeleteDone(a)
  BY <1>9, <1>1 DEF DeleteDone
<1>10. CASE ReadRow(a) \/ ReadActive(a) \/ ReadIdle(a)
  BY <1>10, <1>1 DEF ReadRow, ReadActive, ReadIdle, Read
<1>11. CASE ReadAcquiring(a)
  <2>1. acquiring = 0 => Acquirers = {}
    BY AcquirersFinite DEF AcquiringExact, Acquirers
  <2>2. QED  BY <1>11, <1>1, <2>1 DEF ReadAcquiring, Read
<1>12. CASE ReadManaged(a)
  BY <1>12, <1>1 DEF ReadManaged, Read, Decided
<1>13. CASE AnswerSafe(a)
  BY <1>13, <1>1 DEF AnswerSafe
<1>14. CASE Update(a)
  BY <1>14, <1>1 DEF Update
<1>15. QED
  BY <1>2, <1>3, <1>4, <1>5, <1>6, <1>7, <1>8, <1>9, <1>10, <1>11, <1>12, <1>13, <1>14
  DEF AdminStep, StatusStep

LEMMA ClosedStep ==
  ASSUME ~ListFaults, ~Cancels, TypeOK, AcquiringExact, Closed, [Next]_vars
  PROVE  Closed'
<1> USE DEF Closed, Cleared, Emptied, Acquirers, callVars, adminVars, clusterVars
<1>1. CASE Reap  BY <1>1 DEF Reap
<1>2. ASSUME NEW s \in Sandbox, SandboxGone(s) \/ LateCreation(s) PROVE Closed'
  BY <1>2 DEF SandboxGone, LateCreation
<1>3. CASE Restart
  <2>1. \A a \in Admin : at'[a] = "out"  BY <1>3 DEF Restart
  <2>2. Acquirers' = {}  BY <1>3 DEF Restart
  <2>3. sandboxes' \subseteq sandboxes /\ strays \subseteq strays'  BY <1>3 DEF Restart
  <2>4. row' = row  BY <1>3 DEF Restart
  <2>5. QED  BY <2>1, <2>2, <2>3, <2>4 DEF Reading
<1>4. CASE UNCHANGED vars  BY <1>4 DEF vars
<1>5. QED
  BY <1>1, <1>2, <1>3, <1>4, ClosedCall, ClosedAdmin DEF Next

IInv == TypeOK /\ AcquiringExact /\ Closed

THEOREM Invariance ==
  ASSUME ~ListFaults, ~Cancels
  PROVE  Spec => []IInv
<1>1. Init => IInv  BY TypeInit, ExactInit, ClosedInit DEF IInv
<1>2. IInv /\ [Next]_vars => IInv'  BY TypeStep, ExactStep, ClosedStep DEF IInv
<1>3. QED  BY <1>1, <1>2, PTL DEF Spec

\* A retirement is final, or answered as safe for artifact deletion, only when
\* no sandbox that can serve an invocation runs from the image and no acquisition
\* is under way, however far apart the reads of runtime_image_status are and
\* whatever becomes of creations that have been given up.
THEOREM SafeIsQuiet ==
  ASSUME ~ListFaults, ~Cancels
  PROVE  Spec => []SafeMeansQuiet
<1>1. IInv => SafeMeansQuiet
  BY DEF IInv, Closed, Cleared, Emptied, Acquirers, SafeMeansQuiet, InUse
<1>2. QED  BY <1>1, Invariance, PTL

-----------------------------------------------------------------------------
(***************************************************************************)
(* RETIRED is for good, with cancels and in every schedule.                *)
(***************************************************************************)

\* cancel_retirement deletes a row that is RETIRING and no other, so that the
\* check of cancel_runtime_retirement may be stale.
THEOREM RetiredForGood == Spec => NeverReactivated
<1>1. [Next]_vars => [row = "RETIRED" => row' = "RETIRED"]_vars
  <2> SUFFICES ASSUME [Next]_vars, row = "RETIRED" PROVE row' = "RETIRED"
    OBVIOUS
  <2>1. ASSUME NEW c \in Call, Invoke(c) \/ CallStep(c) \/ Settle(c)
        PROVE  row' = row
    BY <2>1
    DEF Invoke, CallStep, Settle, PassGate, StoppedAtGate, AcquireReuses, AcquireCreates,
        AcquireFails, Register, RegisterRefused, RunEnds, Leave
  <2>2. ASSUME NEW a \in Admin,
               Begin(a) \/ RetireIdleWorker(a) \/ Finalize(a) \/ CancelCheck(a) \/ AdminStep(a)
        PROVE  row' = "RETIRED"
    BY <2>2
    DEF Begin, RetireIdleWorker, Finalize, CancelCheck, AdminStep, StatusStep, Sweep,
        DeleteNext, DeleteRaises, DeleteDone, ReadRow, ReadActive, ReadIdle, ReadAcquiring,
        ReadManaged, Read, AnswerSafe, Update, CancelDelete
  <2>3. CASE Reap \/ (\E s \in Sandbox : SandboxGone(s) \/ LateCreation(s)) \/ Restart \/ UNCHANGED vars
    BY <2>3 DEF Reap, SandboxGone, LateCreation, Restart, vars
  <2>4. QED  BY <2>1, <2>2, <2>3 DEF Next
<1>2. QED  BY <1>1, PTL DEF Spec, NeverReactivated

-----------------------------------------------------------------------------
(***************************************************************************)
(* The refinement of ImageGate: an acquisition past the gate is a Start,   *)
(* the last use that ends is a Stop, and the update is Finalize.           *)
(***************************************************************************)
LEMMA GateCall ==
  ASSUME TypeOK, NEW c \in Call, Invoke(c) \/ CallStep(c) \/ Settle(c)
  PROVE  [Gate!Next]_Gate!vars
<1> USE DEF TypeOK, Goto, clusterVars, Gate!Next, Gate!vars
<1>0. InUse \in BOOLEAN /\ InUse' \in BOOLEAN  BY DEF InUse
<1>1. CASE PassGate(c)
  <2>1. InUse'  BY <1>1 DEF PassGate, InUse
  <2>2. QED  BY <1>1, <2>1 DEF PassGate, Gate!Start
<1>2. CASE AcquireReuses(c) \/ AcquireCreates(c) \/ AcquireFails(c)
  <2>1. InUse /\ row' = row
    BY <1>2 DEF AcquireReuses, AcquireCreates, AcquireFails, InUse
  <2>2. CASE InUse' = InUse  BY <2>1, <2>2
  <2>3. CASE InUse' = FALSE  BY <2>1, <2>3 DEF Gate!Stop
  <2>4. QED  BY <1>0, <2>1, <2>2, <2>3
<1>3. CASE Invoke(c) \/ StoppedAtGate(c) \/ Settle(c) \/ Register(c) \/ RegisterRefused(c)
           \/ RunEnds(c) \/ Leave(c)
  <2>1. sandboxes' = sandboxes /\ strays' = strays /\ row' = row
    BY <1>3 DEF Invoke, StoppedAtGate, Settle, Register, RegisterRefused, RunEnds, Leave
  <2>2. \A d \in Call : pc'[d] = "acquire" <=> pc[d] = "acquire"
    BY <1>3 DEF Invoke, StoppedAtGate, Settle, Register, RegisterRefused, RunEnds, Leave
  <2>3. InUse' = InUse  BY <2>1, <2>2 DEF InUse
  <2>4. QED  BY <2>1, <2>3
<1>4. QED  BY <1>1, <1>2, <1>3 DEF CallStep

\* A step that only takes the image out of use, and leaves the row alone.
LEMMA GateStops ==
  ASSUME row' = row, InUse' => InUse
  PROVE  [Gate!Next]_Gate!vars
<1>0. InUse \in BOOLEAN /\ InUse' \in BOOLEAN  BY DEF InUse
<1>1. CASE InUse' = InUse  BY <1>1 DEF Gate!vars
<1>2. CASE InUse' = FALSE  BY <1>2 DEF Gate!Next, Gate!Stop
<1>3. QED  BY <1>0, <1>1, <1>2

LEMMA GateAdmin ==
  ASSUME ~Cancels, IInv, IInv', NEW a \in Admin,
         Begin(a) \/ RetireIdleWorker(a) \/ Finalize(a) \/ CancelCheck(a) \/ AdminStep(a)
  PROVE  [Gate!Next]_Gate!vars
<1>1. pc' = pc  BY AdminKeepsCalls
<1>2. sandboxes' \subseteq sandboxes /\ strays' = strays => (InUse' => InUse)
  BY <1>1 DEF InUse
<1>3. clusterVars' = clusterVars => InUse' = InUse
  BY <1>1 DEF InUse, clusterVars
<1>4. CASE Begin(a)
  <2>1. row \in {"ACTIVE", "RETIRING"} /\ row' = "RETIRING" /\ InUse' = InUse
    BY <1>3, <1>4 DEF Begin, IInv, TypeOK
  <2>2. QED  BY <2>1 DEF Gate!Next, Gate!Begin, Gate!vars
<1>5. CASE Update(a)
  <2>1. at[a] = "update" /\ InUse' = InUse
    BY <1>3, <1>5 DEF Update, Step
  <2>2. ~InUse /\ row # "ACTIVE"
    BY <2>1 DEF IInv, Closed, Reading, Cleared, Emptied, Acquirers, InUse
  <2>3. row \in {"RETIRING", "RETIRED"} /\ row' = "RETIRED"
    BY <1>5, <2>2 DEF Update, IInv, TypeOK
  <2>4. QED  BY <2>1, <2>2, <2>3 DEF Gate!Next, Gate!Finalize, Gate!vars
<1>6. CASE CancelCheck(a) \/ CancelDelete(a)
  BY <1>6 DEF CancelCheck, CancelDelete, Step, IInv, Closed
<1>7. CASE DeleteNext(a)
  <2>1. row' = row /\ sandboxes' \subseteq sandboxes /\ strays' = strays
    BY <1>7 DEF DeleteNext
  <2>2. QED  BY <2>1, <1>2, GateStops
<1>8. CASE RetireIdleWorker(a) \/ Finalize(a) \/ Sweep(a) \/ DeleteRaises(a) \/ DeleteDone(a)
           \/ StatusStep(a) \/ AnswerSafe(a)
  <2>1. row' = row /\ clusterVars' = clusterVars
    BY <1>8
    DEF RetireIdleWorker, Finalize, Sweep, DeleteRaises, DeleteDone, StatusStep, ReadRow,
        ReadActive, ReadIdle, ReadAcquiring, ReadManaged, Read, AnswerSafe
  <2>2. QED  BY <2>1, <1>3, GateStops
<1>9. QED  BY <1>4, <1>5, <1>6, <1>7, <1>8 DEF AdminStep

LEMMA GateStep ==
  ASSUME ~Cancels, IInv, IInv', [Next]_vars
  PROVE  [Gate!Next]_Gate!vars
<1>1. CASE Reap
  BY <1>1, GateStops DEF Reap, InUse, callVars, clusterVars
<1>2. ASSUME NEW s \in Sandbox, SandboxGone(s) \/ LateCreation(s) PROVE [Gate!Next]_Gate!vars
  BY <1>2, GateStops DEF SandboxGone, LateCreation, InUse, callVars
<1>3. CASE Restart
  <2>1. \A c \in Call : pc'[c] = "out"  BY <1>3 DEF Restart
  <2>2. sandboxes' \subseteq sandboxes /\ strays \subseteq strays' /\ row' = row
    BY <1>3 DEF Restart
  <2>3. InUse' => InUse  BY <2>1, <2>2 DEF InUse
  <2>4. QED  BY <2>2, <2>3, GateStops
<1>4. CASE UNCHANGED vars
  BY <1>4, GateStops DEF vars, InUse, callVars, clusterVars
<1>5. IInv => TypeOK  BY DEF IInv
<1>6. QED
  BY <1>1, <1>2, <1>3, <1>4, <1>5, GateCall, GateAdmin DEF Next

\* The checks and locks of lifecycle_runtime.py implement the abstract gate:
\* nothing starts behind it and it becomes final only when out of use.
THEOREM ImplementsGate ==
  ASSUME ~ListFaults, ~Cancels
  PROVE  Spec => ImplementsImageGate
<1>1. Init => Gate!Init
  BY DEF Init, InUse, Gate!Init
<1>2. IInv /\ IInv' /\ [Next]_vars => [Gate!Next]_Gate!vars
  BY GateStep
<1>3. QED
  BY <1>1, <1>2, Invariance, PTL DEF Spec, ImplementsImageGate, Gate!Spec
=============================================================================
