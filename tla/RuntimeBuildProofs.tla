-------------------------- MODULE RuntimeBuildProofs --------------------------
(***************************************************************************)
(* Proofs about RuntimeBuild, for every number of keys, requests, admins   *)
(* and images, with failures of docker, Harbor and the database, retries   *)
(* and restarts.                                                           *)
(***************************************************************************)
EXTENDS RuntimeBuild, TLAPS

-----------------------------------------------------------------------------
(***************************************************************************)
(* The rows are consistent with each other and with the requests that      *)
(* build.  The UPDATEs of a build name only the row: they are safe because *)
(* an active job keeps its environment ACTIVE and, until the failure of an *)
(* earlier build disturbs it, there is but one.                            *)
(***************************************************************************)
Claimed == {"BUILDING", "VERIFYING"}
Named == Building \cup {"reactivate", "bind", "insert", "reset", "claim", "late"}

\* Whatever has failed.
Jobs ==
  /\ \A e \in Key : jobs[e] # {} => life[e] = "ACTIVE"
  /\ \A r \in Request : pc[r] \in Building => r \in jobs[target[r]]
  /\ \A r \in Request, e \in Key : r \in jobs[e] => pc[r] \in Building /\ target[r] = e
  /\ \A e \in Key : status[e] = "READY" => image[e] # None
  /\ \A e \in Key : status[e] = "none" => life[e] = "ACTIVE"
  /\ \A r \in Request : pc[r] \in Named => status[target[r]] # "none"

\* While no earlier build has interfered.
Builds ==
  /\ \A e \in Key \ disturbed :
       /\ status[e] \notin Claimed => jobs[e] = {}
       /\ status[e] \in Claimed => \E j \in Request \cup {None} : jobs[e] = {j}
  /\ \A r \in Request : target[r] \notin disturbed =>
       /\ pc[r] = "build" => status[target[r]] = "BUILDING"
       /\ pc[r] = "verify" => status[target[r]] = "VERIFYING"
       /\ pc[r] = "failing" => status[target[r]] \in Claimed

RowsInv == TypeOK /\ Jobs /\ Builds

LEMMA RowsInit == Init => RowsInv
BY ConstantsAssumption DEF Init, RowsInv, TypeOK, Jobs, Builds, Building, Resolving, Named,
  Preparing, Claimed

\* A request that only moves on, outside of its build.
LEMMA RowsSame ==
  ASSUME RowsInv, UNCHANGED <<rows, jobs, disturbed>>, TypeOK',
         NEW r \in Request, pc[r] \notin Building, pc'[r] \notin Building,
         pc'[r] \in Named => status[target'[r]] # "none",
         \A s \in Request \ {r} : pc'[s] = pc[s] /\ target'[s] = target[s]
  PROVE  RowsInv'
<1> USE DEF RowsInv, TypeOK, rows, Building
<1>1. Jobs'
  BY DEF Jobs
<1>2. Builds'
  <2>1. status' = status /\ jobs' = jobs /\ disturbed' = disturbed  OBVIOUS
  <2>2. ASSUME NEW s \in Request, target'[s] \notin disturbed'
        PROVE  /\ pc'[s] = "build" => status'[target'[s]] = "BUILDING"
               /\ pc'[s] = "verify" => status'[target'[s]] = "VERIFYING"
               /\ pc'[s] = "failing" => status'[target'[s]] \in Claimed
    <3>1. CASE s = r  BY <3>1
    <3>2. CASE s # r  BY <2>1, <2>2, <3>2 DEF Builds
    <3>3. QED  BY <3>1, <3>2
  <2>3. QED  BY <2>1, <2>2 DEF Builds
<1>3. QED  BY <1>1, <1>2

LEMMA TypeMoves ==
  ASSUME TypeOK, Jobs, NEW r \in Request,
         \/ \E k \in Key : ResolveHit(r, k) \/ ResolveMiss(r, k) \/ Retry(r, k)
         \/ ReuseSuperset(r) \/ NoSuperset(r)
         \/ LoadExact(r) \/ ExactRetiring(r) \/ ExactRetired(r)
         \/ ReactivatedElsewhere(r)
         \/ BindReads(r) \/ BindRefuses(r) \/ BindInserts(r)
         \/ ResetElsewhere(r) \/ NotClaimed(r)
  PROVE  /\ TypeOK'
         /\ UNCHANGED <<rows, jobs, disturbed>>
         /\ pc'[r] \in Named => status[target'[r]] # "none"
         /\ pc[r] \notin Building /\ pc'[r] \notin Building
         /\ \A s \in Request \ {r} : pc'[s] = pc[s] /\ target'[s] = target[s]
<1> USE ConstantsAssumption
    DEF TypeOK, Jobs, Goto, Done, rows, local, admins, history, Building, Resolving, Named, Preparing
<1>1. CASE \E k \in Key : ResolveHit(r, k)
  BY <1>1 DEF ResolveHit, Found
<1>2. CASE \E k \in Key : ResolveMiss(r, k)
  BY <1>2 DEF ResolveMiss
<1>3. CASE \E k \in Key : Retry(r, k)
  BY <1>3 DEF Retry, Found
<1>4. CASE ReuseSuperset(r)
  BY <1>4 DEF ReuseSuperset, Compatible
<1>5. CASE NoSuperset(r)
  BY <1>5 DEF NoSuperset
<1>6. CASE LoadExact(r)
  BY <1>6 DEF LoadExact
<1>7. CASE ExactRetiring(r)
  BY <1>7 DEF ExactRetiring
<1>8. CASE ExactRetired(r)
  BY <1>8 DEF ExactRetired
<1>9. CASE ReactivatedElsewhere(r)
  BY <1>9 DEF ReactivatedElsewhere
<1>10. CASE BindReads(r)
  BY <1>10 DEF BindReads
<1>11. CASE BindRefuses(r)
  BY <1>11 DEF BindRefuses
<1>12. CASE BindInserts(r)
  <2>1. TypeOK'
    <3>1. pc[r] = "insert" /\ want[r] \in Key /\ target[r] \in Key  BY <1>12 DEF BindInserts
    <3>2. alias' \in [Key -> Key \cup {None}]  BY <1>12, <3>1 DEF BindInserts
    <3>3. UNCHANGED <<rows, jobs, registry, admins, history>>  BY <1>12 DEF BindInserts
    <3>4. CASE seen[r] = "PENDING"
      <4>1. /\ pc' = [pc EXCEPT ![r] = "claim"]
            /\ want' = [want EXCEPT ![r] = None]
            /\ seen' = [seen EXCEPT ![r] = "none"]
            /\ UNCHANGED <<target, built>>
        BY <1>12, <3>4 DEF BindInserts
      <4>2. QED  BY <3>1, <3>2, <3>3, <4>1
    <3>5. CASE seen[r] # "PENDING"
      <4>1. Done(r, "insert")  BY <1>12, <3>5 DEF BindInserts
      <4>2. QED  BY <3>1, <3>2, <3>3, <4>1
    <3>6. QED  BY <3>4, <3>5
  <2>2. /\ UNCHANGED <<rows, jobs, disturbed>>
        /\ pc'[r] \in Named => status[target'[r]] # "none"
        /\ pc[r] \notin Building /\ pc'[r] \notin Building
        /\ \A s \in Request \ {r} : pc'[s] = pc[s] /\ target'[s] = target[s]
    BY <1>12 DEF BindInserts
  <2>3. QED  BY <2>1, <2>2
<1>13. CASE ResetElsewhere(r)
  BY <1>13 DEF ResetElsewhere
<1>14. CASE NotClaimed(r)
  BY <1>14 DEF NotClaimed
<1>15. QED
  BY <1>1, <1>2, <1>3, <1>4, <1>5, <1>6, <1>7, <1>8, <1>9, <1>10, <1>11, <1>12, <1>13, <1>14

\* The steps of a request that change the row of its environment, or its job.
LEMMA RowsBuild ==
  ASSUME RowsInv, NEW r \in Request,
         \/ CreateExact(r) \/ Reactivate(r) \/ ResetFailed(r) \/ ClaimBuild(r)
         \/ BuildAndPush(r) \/ BuildFails(r)
  PROVE  RowsInv'
<1> USE ConstantsAssumption
    DEF RowsInv, TypeOK, Jobs, Builds, Goto, Done, rows, local, admins, history, Building,
        Resolving, Named, Preparing, Claimed
<1>1. CASE CreateExact(r)
  BY <1>1 DEF CreateExact
<1>2. CASE Reactivate(r)
  <2>1. TypeOK'  BY <1>2 DEF Reactivate
  <2>2. Jobs'  BY <1>2 DEF Reactivate
  <2>3. Builds'  BY <1>2 DEF Reactivate
  <2>4. QED  BY <2>1, <2>2, <2>3
<1>3. CASE ResetFailed(r)
  <2>1. TypeOK'  BY <1>3 DEF ResetFailed
  <2>2. Jobs'  BY <1>3 DEF ResetFailed
  <2>3. Builds'  BY <1>3 DEF ResetFailed
  <2>4. QED  BY <2>1, <2>2, <2>3
<1>4. CASE ClaimBuild(r)
  <2>1. TypeOK'  BY <1>4 DEF ClaimBuild
  <2>2. Jobs'  BY <1>4 DEF ClaimBuild
  <2>3. Builds'
    <3>1. /\ status[target[r]] = "PENDING"
          /\ status' = [status EXCEPT ![target[r]] = "BUILDING"]
          /\ jobs' = [jobs EXCEPT ![target[r]] = jobs[target[r]] \cup {r}]
          /\ pc' = [pc EXCEPT ![r] = "build"] /\ pc[r] = "claim"
          /\ target' = target /\ disturbed' = disturbed /\ target[r] \in Key
      BY <1>4 DEF ClaimBuild
    <3>2. ASSUME NEW e \in Key \ disturbed
          PROVE  /\ status'[e] \notin Claimed => jobs'[e] = {}
                 /\ status'[e] \in Claimed => \E j \in Request \cup {None} : jobs'[e] = {j}
      <4>1. CASE e = target[r]
        <5>1. jobs[e] = {}  BY <3>1, <4>1
        <5>2. jobs'[e] = {r} /\ status'[e] = "BUILDING"  BY <3>1, <4>1, <5>1
        <5>3. QED  BY <5>2
      <4>2. CASE e # target[r]  BY <3>1, <4>2
      <4>3. QED  BY <4>1, <4>2
    <3>3. ASSUME NEW q \in Request, target[q] \notin disturbed
          PROVE  /\ pc'[q] = "build" => status'[target[q]] = "BUILDING"
                 /\ pc'[q] = "verify" => status'[target[q]] = "VERIFYING"
                 /\ pc'[q] = "failing" => status'[target[q]] \in Claimed
      BY <3>1, <3>3
    <3>4. QED  BY <3>1, <3>2, <3>3
  <2>4. QED  BY <2>1, <2>2, <2>3
<1>5. CASE BuildAndPush(r)
  <2>1. TypeOK'  BY <1>5 DEF BuildAndPush, Fresh
  <2>2. Jobs'  BY <1>5 DEF BuildAndPush, Fresh
  <2>3. Builds'  BY <1>5 DEF BuildAndPush, Fresh
  <2>4. QED  BY <2>1, <2>2, <2>3
<1>6. CASE BuildFails(r)
  <2>1. TypeOK'  BY <1>6 DEF BuildFails
  <2>2. Jobs'  BY <1>6 DEF BuildFails
  <2>3. Builds'  BY <1>6 DEF BuildFails
  <2>4. QED  BY <2>1, <2>2, <2>3
<1>7. QED
  BY <1>1, <1>2, <1>3, <1>4, <1>5, <1>6

\* The steps that end a build, or fail to.
LEMMA RowsEnd ==
  ASSUME RowsInv, NEW r \in Request,
         \/ MarkReady(r) \/ MarkReadyRaises(r) \/ MarkFailed(r) \/ MarkReadyFailed(r)
         \/ BuildAbandoned(r)
  PROVE  RowsInv'
<1> USE ConstantsAssumption
    DEF RowsInv, TypeOK, Jobs, Builds, Goto, Done, rows, local, admins, history, Building,
        Resolving, Named, Preparing, Claimed, BecomeReady, JobEnds, OneMoreFault
<1>1. CASE MarkReady(r)
  <2>1. TypeOK'  BY <1>1 DEF MarkReady
  <2>2. Jobs'  BY <1>1 DEF MarkReady
  <2>3. Builds'  BY <1>1 DEF MarkReady
  <2>4. QED  BY <2>1, <2>2, <2>3
<1>2. CASE MarkReadyRaises(r)
  <2>1. TypeOK'  BY <1>2 DEF MarkReadyRaises
  <2>2. Jobs'  BY <1>2 DEF MarkReadyRaises
  <2>3. Builds'  BY <1>2 DEF MarkReadyRaises
  <2>4. QED  BY <2>1, <2>2, <2>3
<1>3. CASE MarkFailed(r)
  <2>1. TypeOK'  BY <1>3 DEF MarkFailed
  <2>2. Jobs'  BY <1>3 DEF MarkFailed
  <2>3. Builds'  BY <1>3 DEF MarkFailed
  <2>4. QED  BY <2>1, <2>2, <2>3
<1>4. CASE MarkReadyFailed(r)
  <2>1. TypeOK'  BY <1>4 DEF MarkReadyFailed
  <2>2. Jobs'  BY <1>4 DEF MarkReadyFailed
  <2>3. Builds'  BY <1>4 DEF MarkReadyFailed
  <2>4. QED  BY <2>1, <2>2, <2>3
<1>5. CASE BuildAbandoned(r)
  <2>1. target[r] \in Key /\ pc[r] \in {"build", "failing", "late"}
    BY <1>5 DEF BuildAbandoned
  <2>2. /\ pc' = [pc EXCEPT ![r] = "out"]
        /\ want' = [want EXCEPT ![r] = None]
        /\ target' = [target EXCEPT ![r] = None]
        /\ seen' = [seen EXCEPT ![r] = "none"]
        /\ built' = [built EXCEPT ![r] = None]
    BY <1>5 DEF BuildAbandoned
  <2>3. /\ UNCHANGED <<rows, alias, registry, admins, doubtful, disturbed>>
        /\ faults' \in 0..MaxFaults
    BY <1>5 DEF BuildAbandoned
  <2>4. CASE pc[r] = "late"
    <3>1. jobs' = jobs  BY <1>5, <2>4 DEF BuildAbandoned
    <3>2. TypeOK'  BY <2>1, <2>2, <2>3, <3>1
    <3>3. Jobs'  BY <2>1, <2>2, <2>3, <2>4, <3>1
    <3>4. Builds'  BY <2>1, <2>2, <2>3, <2>4, <3>1
    <3>5. QED  BY <3>2, <3>3, <3>4
  <2>5. CASE pc[r] # "late"
    <3>1. jobs' = [jobs EXCEPT ![target[r]] = (jobs[target[r]] \ {r}) \cup {None}]
      BY <1>5, <2>5 DEF BuildAbandoned
    <3>2. TypeOK'  BY <2>1, <2>2, <2>3, <3>1
    <3>3. Jobs'  BY <2>1, <2>2, <2>3, <2>5, <3>1
    <3>4. Builds'
      <4>1. ASSUME NEW e \in Key \ disturbed
            PROVE  /\ status[e] \notin Claimed => jobs'[e] = {}
                   /\ status[e] \in Claimed => \E j \in Request \cup {None} : jobs'[e] = {j}
        <5>1. CASE e # target[r]  BY <3>1, <5>1
        <5>2. CASE e = target[r]
          <6>1. jobs[e] = {r} /\ status[e] \in Claimed  BY <2>1, <2>5, <5>2
          <6>2. jobs'[e] = {None}  BY <3>1, <5>2, <6>1
          <6>3. QED  BY <6>1, <6>2
        <5>3. QED  BY <5>1, <5>2
      <4>2. QED  BY <2>1, <2>2, <2>3, <4>1
    <3>5. QED  BY <3>2, <3>3, <3>4
  <2>6. QED  BY <2>4, <2>5
<1>6. QED
  BY <1>1, <1>2, <1>3, <1>4, <1>5

\* What admins, Harbor and a restart do.
Administer ==
  \/ \E e \in Key : BeginRetirement(e) \/ CancelRetirement(e) \/ HarborActsLate(e)
  \/ \E a \in Admin : (\E e \in Key : PlanDeletion(a, e)) \/ Delete(a)
  \/ Crash

\* A restart leaves each job of the dead service to nobody.
LEMMA BuildsCrash ==
  ASSUME Builds, Crash
  PROVE  Builds'
<1>1. /\ status' = status /\ disturbed' = disturbed
      /\ \A r \in Request : pc'[r] = "out"
      /\ \A e \in Key : jobs'[e] = IF jobs[e] = {} THEN {} ELSE {None}
  BY DEF Crash, rows
<1>2. ASSUME NEW e \in Key \ disturbed
      PROVE  /\ status'[e] \notin Claimed => jobs'[e] = {}
             /\ status'[e] \in Claimed => \E j \in Request \cup {None} : jobs'[e] = {j}
  <2>1. CASE status[e] \notin Claimed
    <3>1. jobs[e] = {}  BY <2>1 DEF Builds
    <3>2. QED  BY <1>1, <2>1, <3>1
  <2>2. CASE status[e] \in Claimed
    <3>1. \E j \in Request \cup {None} : jobs[e] = {j}  BY <2>2 DEF Builds
    <3>2. jobs'[e] = {None}  BY <1>1, <3>1
    <3>3. QED  BY <1>1, <2>2, <3>2
  <2>3. QED  BY <2>1, <2>2
<1>3. QED  BY <1>1, <1>2 DEF Builds

LEMMA RowsAdmin ==
  ASSUME RowsInv, Administer
  PROVE  RowsInv'
<1> USE ConstantsAssumption
    DEF RowsInv, TypeOK, Jobs, Builds, rows, local, history, Building, Resolving, Named,
        Preparing, Claimed
<1>1. ASSUME NEW e \in Key, BeginRetirement(e) PROVE RowsInv'
  BY <1>1 DEF BeginRetirement, admins
<1>2. ASSUME NEW e \in Key, CancelRetirement(e) PROVE RowsInv'
  BY <1>2 DEF CancelRetirement, admins
<1>3. ASSUME NEW a \in Admin, NEW e \in Key, PlanDeletion(a, e) PROVE RowsInv'
  BY <1>3 DEF PlanDeletion
<1>4. ASSUME NEW a \in Admin, HarborDeletes(a) PROVE RowsInv'
  BY <1>4 DEF HarborDeletes
<1>5. ASSUME NEW a \in Admin, HarborFails(a) PROVE RowsInv'
  BY <1>5 DEF HarborFails, DeletionOver, Losing
<1>6. ASSUME NEW a \in Admin, FinalizeRetirement(a) PROVE RowsInv'
  BY <1>6 DEF FinalizeRetirement, DeletionOver
<1>7. ASSUME NEW a \in Admin, FinalizeRaises(a) PROVE RowsInv'
  BY <1>7 DEF FinalizeRaises, DeletionOver, Losing, OneMoreFault
<1>8. ASSUME NEW e \in Key, HarborActsLate(e) PROVE RowsInv'
  BY <1>8 DEF HarborActsLate, admins
<1>9. CASE Crash
  <2>1. TypeOK'
    <3>1. doubtful' \subseteq Key  BY <1>9 DEF Crash, Losing
    <3>2. jobs' \in [Key -> SUBSET (Request \cup {None})]  BY <1>9 DEF Crash
    <3>3. QED  BY <1>9, <3>1, <3>2 DEF Crash
  <2>2. Jobs'  BY <1>9 DEF Crash, Losing
  <2>3. Builds'  BY <1>9, BuildsCrash
  <2>4. QED  BY <2>1, <2>2, <2>3
<1>10. QED
  BY <1>1, <1>2, <1>3, <1>4, <1>5, <1>6, <1>7, <1>8, <1>9 DEF Administer, Delete

LEMMA RowsStep == RowsInv /\ [Next]_vars => RowsInv'
<1> SUFFICES ASSUME RowsInv, [Next]_vars PROVE RowsInv'
  OBVIOUS
<1>1. ASSUME NEW r \in Request,
             (\E k \in Key : ResolveHit(r, k) \/ ResolveMiss(r, k) \/ Retry(r, k)) \/ Serve(r)
      PROVE  RowsInv'
  BY <1>1, TypeMoves, RowsSame, RowsBuild, RowsEnd DEF Serve, RowsInv
<1>2. CASE UNCHANGED vars
  BY <1>2 DEF vars, rows, local, admins, history, RowsInv, TypeOK, Jobs, Builds
<1>3. QED
  BY <1>1, <1>2, RowsAdmin DEF Next, Administer

LEMMA Rows == Spec => []RowsInv
BY RowsInit, RowsStep, PTL DEF Spec

\* The types of the rows, the requests and the deletions.
THEOREM TypeCorrect == Spec => []TypeOK
<1>1. RowsInv => TypeOK  BY DEF RowsInv
<1>2. QED  BY <1>1, Rows, PTL

\* claim_build lets one request build an environment, which no retirement can
\* then begin for, and nothing but that request touches the row until mark_ready
\* or mark_failed, or the late failure of an earlier build.
THEOREM BuildsAlone == Spec => []OneBuild
<1>1. RowsInv => OneBuild
  BY DEF RowsInv, TypeOK, Jobs, Builds, OneBuild, Building, Claimed
<1>2. QED  BY <1>1, Rows, PTL

-----------------------------------------------------------------------------
(***************************************************************************)
(* The refinement of RuntimeEnvironment, environment by environment: a     *)
(* step changes at most one row, and that row as the abstract environment  *)
(* may.                                                                    *)
(***************************************************************************)
LEMMA SameRows ==
  ASSUME UNCHANGED rows
  PROVE  \A e \in Key : EnvironmentStep(e)
BY DEF rows, EnvironmentStep, Environment!vars

Undisturbed == Key \ (disturbed \cup disturbed')

LEMMA RequestImplements ==
  ASSUME RowsInv, NEW r \in Request,
         \/ CreateExact(r) \/ Reactivate(r) \/ ResetFailed(r) \/ ClaimBuild(r)
         \/ BuildAndPush(r) \/ BuildFails(r) \/ MarkReady(r) \/ MarkReadyRaises(r)
         \/ MarkFailed(r) \/ MarkReadyFailed(r) \/ BuildAbandoned(r)
  PROVE  \A e \in Undisturbed : EnvironmentStep(e)
<1> USE DEF RowsInv, TypeOK, Jobs, Builds, Goto, Done, rows, Building, Named, Undisturbed,
            EnvironmentStep, Environment!Next, Environment!vars, Environment!Become
<1>1. CASE CreateExact(r)
  BY <1>1 DEF CreateExact, Environment!Create
<1>2. CASE Reactivate(r)
  BY <1>2 DEF Reactivate, Environment!Reactivate
<1>3. CASE ResetFailed(r)
  BY <1>3 DEF ResetFailed, Environment!Reset
<1>4. CASE ClaimBuild(r)
  BY <1>4 DEF ClaimBuild, Environment!Claim
<1>5. CASE BuildAndPush(r)
  BY <1>5 DEF BuildAndPush, Environment!Push
<1>6. CASE BuildFails(r) \/ BuildAbandoned(r)
  BY <1>6, SameRows DEF BuildFails, BuildAbandoned
<1>7. CASE MarkReady(r)
  BY <1>7 DEF MarkReady, BecomeReady, Environment!Succeed
<1>8. CASE MarkReadyRaises(r)
  BY <1>8 DEF MarkReadyRaises, BecomeReady, Environment!Succeed
<1>9. CASE MarkFailed(r)
  BY <1>9 DEF MarkFailed, Environment!Fail, Claimed
<1>10. CASE MarkReadyFailed(r)
  BY <1>10 DEF MarkReadyFailed, Environment!Fail, Preparing
<1>11. QED
  BY <1>1, <1>2, <1>3, <1>4, <1>5, <1>6, <1>7, <1>8, <1>9, <1>10

LEMMA AdminImplements ==
  ASSUME RowsInv, Administer
  PROVE  \A e \in Key : EnvironmentStep(e)
<1> USE DEF RowsInv, TypeOK, Jobs, rows, EnvironmentStep, Environment!Next, Environment!vars
<1>1. ASSUME NEW e \in Key, BeginRetirement(e) PROVE \A f \in Key : EnvironmentStep(f)
  BY <1>1 DEF BeginRetirement, Environment!Retire, Preparing
<1>2. ASSUME NEW e \in Key, CancelRetirement(e) PROVE \A f \in Key : EnvironmentStep(f)
  BY <1>2 DEF CancelRetirement, Environment!Cancel
<1>3. ASSUME NEW a \in Admin, FinalizeRetirement(a) PROVE \A f \in Key : EnvironmentStep(f)
  BY <1>3 DEF FinalizeRetirement, Environment!Finish
<1>4. ASSUME NEW a \in Admin,
             (\E e \in Key : PlanDeletion(a, e)) \/ HarborDeletes(a) \/ HarborFails(a)
                \/ FinalizeRaises(a)
      PROVE  \A f \in Key : EnvironmentStep(f)
  BY <1>4, SameRows DEF PlanDeletion, HarborDeletes, HarborFails, FinalizeRaises
<1>5. ASSUME NEW e \in Key, HarborActsLate(e) PROVE \A f \in Key : EnvironmentStep(f)
  BY <1>5, SameRows DEF HarborActsLate
<1>6. CASE Crash
  BY <1>6, SameRows DEF Crash
<1>7. QED
  BY <1>1, <1>2, <1>3, <1>4, <1>5, <1>6 DEF Administer, Delete

LEMMA EnvironmentSteps ==
  RowsInv /\ [Next]_vars => \A e \in Undisturbed : EnvironmentStep(e)
<1> SUFFICES ASSUME RowsInv, [Next]_vars PROVE \A e \in Undisturbed : EnvironmentStep(e)
  OBVIOUS
<1>1. ASSUME NEW r \in Request,
             (\E k \in Key : ResolveHit(r, k) \/ ResolveMiss(r, k) \/ Retry(r, k)) \/ Serve(r)
      PROVE  \A e \in Undisturbed : EnvironmentStep(e)
  BY <1>1, TypeMoves, SameRows, RequestImplements DEF Serve, RowsInv, Undisturbed
<1>2. CASE UNCHANGED vars
  BY <1>2, SameRows DEF vars, Undisturbed
<1>3. QED
  BY <1>1, <1>2, AdminImplements DEF Next, Administer, Undisturbed

\* Resolve, retry, builds, retirements and restarts together implement, for
\* every environment, the one RuntimeEnvironment describes, as long as no late
\* failure of an earlier build is written during a new one.
THEOREM ImplementsEnvironments == Spec => ImplementsEnvironment
<1>1. Init => \A e \in Key : Environment(e)!Init
  BY DEF Init, Environment!Init
<1>2. RowsInv /\ [Next]_vars =>
        [\A e \in Key : e \in disturbed \cup disturbed' \/ EnvironmentStep(e)]_vars
  BY EnvironmentSteps DEF Undisturbed
<1>3. QED
  BY <1>1, <1>2, Rows, PTL DEF Spec, ImplementsEnvironment

LEMMA FailedBy ==
  ASSUME RowsInv, [Next]_vars, NEW e \in Key, status[e] # "FAILED", status'[e] = "FAILED"
  PROVE  \E r \in Request : MarkFailed(r) \/ MarkReadyFailed(r)
<1> USE DEF RowsInv, TypeOK, rows
<1>1. ~ UNCHANGED status  OBVIOUS
<1>2. ~ UNCHANGED vars  BY <1>1 DEF vars
<1>3. ~ Administer
  BY <1>1 DEF Administer, Delete, BeginRetirement, CancelRetirement, HarborActsLate, PlanDeletion,
    HarborDeletes, HarborFails, FinalizeRetirement, FinalizeRaises, Crash
<1>4. PICK r \in Request :
        (\E k \in Key : ResolveHit(r, k) \/ ResolveMiss(r, k) \/ Retry(r, k)) \/ Serve(r)
  BY <1>2, <1>3 DEF Next, Administer
<1>5. ~ (CreateExact(r) \/ Reactivate(r) \/ ResetFailed(r) \/ ClaimBuild(r) \/ BuildAndPush(r)
         \/ BuildFails(r) \/ BuildAbandoned(r) \/ MarkReady(r) \/ MarkReadyRaises(r))
  BY DEF CreateExact, Reactivate, ResetFailed, ClaimBuild, BuildAndPush, BuildFails,
    BuildAbandoned, MarkReady, MarkReadyRaises, BecomeReady
<1>6. QED
  BY <1>1, <1>4, <1>5, TypeMoves DEF Serve

LEMMA DisturbedBy ==
  ASSUME RowsInv, [Next]_vars, NEW e \in Key, e \notin disturbed, e \in disturbed'
  PROVE  \E r \in Request :
           MarkReadyFailed(r) /\ status[target[r]] \in Preparing /\ target[r] = e
<1> USE DEF RowsInv
<1>1. ~ UNCHANGED disturbed  OBVIOUS
<1>2. ~ UNCHANGED vars  BY <1>1 DEF vars, history
<1>3. ~ Administer
  BY <1>1 DEF Administer, Delete, BeginRetirement, CancelRetirement, HarborActsLate, PlanDeletion,
    HarborDeletes, HarborFails, FinalizeRetirement, FinalizeRaises, Crash, history
<1>4. PICK r \in Request :
        (\E k \in Key : ResolveHit(r, k) \/ ResolveMiss(r, k) \/ Retry(r, k)) \/ Serve(r)
  BY <1>2, <1>3 DEF Next, Administer
<1>5. ~ (CreateExact(r) \/ Reactivate(r) \/ ResetFailed(r) \/ ClaimBuild(r) \/ BuildAndPush(r)
         \/ BuildFails(r) \/ BuildAbandoned(r) \/ MarkReady(r) \/ MarkReadyRaises(r)
         \/ MarkFailed(r))
  BY DEF CreateExact, Reactivate, ResetFailed, ClaimBuild, BuildAndPush, BuildFails,
    BuildAbandoned, MarkReady, MarkReadyRaises, BecomeReady, MarkFailed, JobEnds, history
<1>6. MarkReadyFailed(r)
  BY <1>1, <1>4, <1>5, TypeMoves DEF Serve
<1>7. QED
  BY <1>6 DEF MarkReadyFailed

\* An environment that is READY and ACTIVE keeps its image whatever other
\* builds, retries and reactivations do, and its status unless the build that
\* made it READY is recorded as failed.
THEOREM ReadyStays == Spec => ReadyIsKept
<1>1. RowsInv /\ [Next]_vars =>
        [\A e \in Key : status[e] = "READY" /\ life[e] = "ACTIVE" /\ e \notin disturbed =>
           /\ image'[e] = image[e]
           /\ status'[e] = "READY" \/ \E r \in Request : pc[r] = "late" /\ target[r] = e]_vars
  <2> SUFFICES ASSUME RowsInv, [Next]_vars, NEW e \in Key,
                      status[e] = "READY", life[e] = "ACTIVE", e \notin disturbed
               PROVE  /\ image'[e] = image[e]
                      /\ \/ status'[e] = "READY"
                         \/ \E r \in Request : pc[r] = "late" /\ target[r] = e
    OBVIOUS
  <2>1. CASE e \in Undisturbed
    <3>1. EnvironmentStep(e)  BY <2>1, EnvironmentSteps
    <3>2. \/ status'[e] = "READY" /\ image'[e] = image[e]
          \/ status'[e] = "FAILED" /\ image'[e] = image[e]
      BY <3>1
      DEF EnvironmentStep, Environment!Next, Environment!vars, Environment!Become,
          Environment!Create, Environment!Claim, Environment!Push, Environment!Succeed,
          Environment!Fail, Environment!Reset, Environment!Retire, Environment!Cancel,
          Environment!Finish, Environment!Reactivate
    <3>3. ASSUME status'[e] = "FAILED"
          PROVE  \E r \in Request : pc[r] = "late" /\ target[r] = e
      <4>1. PICK r \in Request : MarkFailed(r) \/ MarkReadyFailed(r)
        BY <3>3, FailedBy
      <4>2. ~MarkFailed(r)
        BY <3>3 DEF MarkFailed, Done, Goto, RowsInv, TypeOK, Jobs, Builds, Building, Claimed
      <4>3. QED
        BY <3>3, <4>1, <4>2 DEF MarkReadyFailed, Done, Goto, RowsInv, TypeOK
    <3>4. QED  BY <3>2, <3>3
  <2>2. CASE e \notin Undisturbed
    <3>1. PICK r \in Request : MarkReadyFailed(r) /\ status[target[r]] \in Preparing /\ target[r] = e
      BY <2>2, DisturbedBy DEF Undisturbed
    <3>2. QED  BY <3>1 DEF Preparing
  <2>3. QED  BY <2>1, <2>2
<1>2. QED
  BY <1>1, Rows, PTL DEF Spec, ReadyIsKept

-----------------------------------------------------------------------------

-----------------------------------------------------------------------------
(***************************************************************************)
(* Images.  A digest belongs to one environment, or to one build that has  *)
(* pushed it; a deletion under way has the image of an environment that is *)
(* not ACTIVE or whose image is in doubt, or one that no environment has   *)
(* any more; and an image is missing only in doubt, or until the deletion  *)
(* that removed it finishes the retirement.                                *)
(***************************************************************************)
Images ==
  /\ \A e, f \in Key : image[e] # None /\ image[e] = image[f] => e = f
  /\ \A r \in Request : built[r] # None <=> pc[r] = "verify"
  /\ \A r \in Request : built[r] # None =>
       /\ built[r] \in registry
       /\ \A e \in Key : image[e] # built[r]
       /\ \A s \in Request : s # r => built[s] # built[r]
  /\ \A a \in Admin : at[a] # "out" =>
       /\ \A e \in Key : image[e] = doomed[a] =>
            e = victim[a] /\ (life[e] # "ACTIVE" \/ e \in doubtful)
       /\ \A r \in Request : built[r] # doomed[a]
  /\ \A e \in Key : status[e] = "READY" /\ life[e] # "RETIRED" =>
       \/ image[e] \in registry \/ e \in doubtful
       \/ \E a \in Admin : at[a] = "finalize" /\ victim[a] = e /\ doomed[a] = image[e]

ImageInv == RowsInv /\ Images

LEMMA ImageInit == Init => ImageInv
BY RowsInit DEF Init, ImageInv, Images

LEMMA ImageMoves ==
  ASSUME ImageInv, NEW r \in Request,
         \/ \E k \in Key : ResolveHit(r, k) \/ ResolveMiss(r, k) \/ Retry(r, k)
         \/ ReuseSuperset(r) \/ NoSuperset(r)
         \/ LoadExact(r) \/ ExactRetiring(r) \/ ExactRetired(r)
         \/ ReactivatedElsewhere(r)
         \/ BindReads(r) \/ BindRefuses(r) \/ BindInserts(r)
         \/ ResetElsewhere(r) \/ NotClaimed(r)
  PROVE  Images'
<1>1. UNCHANGED <<rows, registry, admins, doubtful>>
  BY DEF ResolveHit, ResolveMiss, Retry, ReuseSuperset, NoSuperset, LoadExact, ExactRetiring,
         ExactRetired, ReactivatedElsewhere, BindReads, BindRefuses, BindInserts,
         ResetElsewhere, NotClaimed, history
<1>2. /\ pc[r] # "verify" /\ pc'[r] # "verify"
      /\ \A s \in Request \ {r} : pc'[s] = pc[s]
  BY TypeMoves DEF ImageInv, RowsInv, Building
<1>3. built[r] = None  BY <1>2 DEF ImageInv, Images
<1>4. built' = built
  <2>1. built' = built \/ built' = [built EXCEPT ![r] = None]
    BY DEF ResolveHit, ResolveMiss, Retry, ReuseSuperset, NoSuperset, LoadExact, ExactRetiring,
           ExactRetired, ReactivatedElsewhere, BindReads, BindRefuses, BindInserts,
           ResetElsewhere, NotClaimed, Done, local
  <2>2. QED  BY <1>3, <2>1 DEF ImageInv, RowsInv, TypeOK
<1>5. QED
  BY <1>1, <1>2, <1>4 DEF ImageInv, Images, rows, admins

LEMMA ImageChange ==
  ASSUME ImageInv, NEW r \in Request,
         \/ CreateExact(r) \/ Reactivate(r) \/ ResetFailed(r) \/ ClaimBuild(r)
         \/ BuildAndPush(r) \/ BuildFails(r) \/ MarkFailed(r) \/ MarkReadyFailed(r)
         \/ BuildAbandoned(r)
  PROVE  Images'
<1> USE ConstantsAssumption
    DEF ImageInv, RowsInv, TypeOK, Images, Goto, Done, rows, local, admins, history, Building
<1>1. CASE CreateExact(r)
  BY <1>1 DEF CreateExact
<1>2. CASE Reactivate(r)
  BY <1>2 DEF Reactivate
<1>3. CASE ResetFailed(r)
  BY <1>3 DEF ResetFailed
<1>4. CASE ClaimBuild(r)
  BY <1>4 DEF ClaimBuild
<1>5. CASE BuildAndPush(r)
  BY <1>5 DEF BuildAndPush, Fresh
<1>6. CASE BuildFails(r)
  BY <1>6 DEF BuildFails
<1>7. CASE MarkFailed(r)
  BY <1>7 DEF MarkFailed
<1>8. CASE MarkReadyFailed(r)
  BY <1>8 DEF MarkReadyFailed
<1>9. CASE BuildAbandoned(r)
  BY <1>9 DEF BuildAbandoned
<1>10. QED
  BY <1>1, <1>2, <1>3, <1>4, <1>5, <1>6, <1>7, <1>8, <1>9

LEMMA ImageReady ==
  ASSUME ImageInv, NEW r \in Request, MarkReady(r) \/ MarkReadyRaises(r)
  PROVE  Images'
<1> USE ConstantsAssumption DEF ImageInv, RowsInv, TypeOK
<1>1. /\ pc[r] = "verify" /\ target[r] \in Key
      /\ UNCHANGED <<life, registry, admins>>
      /\ image' = [image EXCEPT ![target[r]] = built[r]]
      /\ status' = [status EXCEPT ![target[r]] = "READY"]
      /\ built' = [built EXCEPT ![r] = None]
      /\ doubtful' = doubtful \ {target[r]}
  <2>1. CASE MarkReady(r)
    BY <2>1 DEF MarkReady, BecomeReady, Done, Goto, Building
  <2>2. CASE MarkReadyRaises(r)
    BY <2>2 DEF MarkReadyRaises, BecomeReady, Goto, Building
  <2>3. QED  BY <2>1, <2>2
<1>2. built[r] \in registry /\ built[r] # None
  BY <1>1 DEF Images
<1>3. \A e \in Key : image'[e] = IF e = target[r] THEN built[r] ELSE image[e]
  BY <1>1
<1>4. \A s \in Request : built'[s] = IF s = r THEN None ELSE built[s]
  BY <1>1
<1>5. pc'[r] # "verify" /\ \A s \in Request \ {r} : pc'[s] = pc[s]
  BY DEF MarkReady, MarkReadyRaises, Done, Goto
<1>6. \A e \in Key \ {target[r]} :
        status'[e] = status[e] /\ (e \in doubtful' <=> e \in doubtful)
  BY <1>1
<1>7. QED
  BY <1>1, <1>2, <1>3, <1>4, <1>5, <1>6 DEF Images, admins

LEMMA ImageAdmin ==
  ASSUME ImageInv, Administer
  PROVE  Images'
<1> USE ConstantsAssumption
    DEF ImageInv, RowsInv, TypeOK, Images, rows, local, history
<1>1. ASSUME NEW e \in Key, BeginRetirement(e) PROVE Images'
  BY <1>1 DEF BeginRetirement, admins
<1>2. ASSUME NEW e \in Key, CancelRetirement(e) PROVE Images'
  <2>1. /\ life' = [life EXCEPT ![e] = "ACTIVE"]
        /\ doubtful' = doubtful \cup (Losing(Admin) \cap {e})
        /\ UNCHANGED <<status, image, registry, pc, built, admins>>
    BY <1>2 DEF CancelRetirement
  <2>2. \A a \in Admin : at[a] # "out" /\ image[e] = doomed[a] => e \in doubtful'
    BY <2>1 DEF Losing
  <2>3. \A f \in Key : /\ f # e => life'[f] = life[f]
                       /\ f \in doubtful => f \in doubtful'
    BY <2>1
  <2>4. /\ life'[e] = "ACTIVE" /\ life[e] = "RETIRING"
        /\ UNCHANGED <<status, image, registry, pc, built, at, victim, doomed>>
    BY <1>2, <2>1 DEF CancelRetirement, admins
  <2>5. \A a \in Admin : at[a] # "out" => \A f \in Key : image[f] = doomed[a] =>
          f = victim[a] /\ (life'[f] # "ACTIVE" \/ f \in doubtful')
    BY <2>2, <2>3
  <2>6. \A f \in Key : status[f] = "READY" /\ life'[f] # "RETIRED" =>
          \/ image[f] \in registry \/ f \in doubtful'
          \/ \E a \in Admin : at[a] = "finalize" /\ victim[a] = f /\ doomed[a] = image[f]
    BY <2>3, <2>4
  <2>7. QED  BY <2>4, <2>5, <2>6
<1>3. ASSUME NEW a \in Admin, NEW e \in Key, PlanDeletion(a, e) PROVE Images'
  BY <1>3 DEF PlanDeletion
<1>4. ASSUME NEW a \in Admin, HarborDeletes(a) PROVE Images'
  BY <1>4 DEF HarborDeletes
<1>5. ASSUME NEW a \in Admin, HarborFails(a) PROVE Images'
  BY <1>5 DEF HarborFails, DeletionOver, Losing
<1>6. ASSUME NEW a \in Admin, FinalizeRetirement(a) PROVE Images'
  BY <1>6 DEF FinalizeRetirement, DeletionOver
<1>7. ASSUME NEW a \in Admin, FinalizeRaises(a) PROVE Images'
  BY <1>7 DEF FinalizeRaises, DeletionOver, Losing
<1>8. ASSUME NEW e \in Key, HarborActsLate(e) PROVE Images'
  BY <1>8 DEF HarborActsLate, admins
<1>9. CASE Crash
  BY <1>9 DEF Crash, Losing
<1>10. QED
  BY <1>1, <1>2, <1>3, <1>4, <1>5, <1>6, <1>7, <1>8, <1>9 DEF Administer, Delete

LEMMA ImageStep == ImageInv /\ [Next]_vars => ImageInv'
<1> SUFFICES ASSUME ImageInv, [Next]_vars PROVE ImageInv'
  OBVIOUS
<1>1. RowsInv'  BY RowsStep DEF ImageInv
<1>2. ASSUME NEW r \in Request,
             (\E k \in Key : ResolveHit(r, k) \/ ResolveMiss(r, k) \/ Retry(r, k)) \/ Serve(r)
      PROVE  Images'
  BY <1>2, ImageMoves, ImageChange, ImageReady DEF Serve
<1>3. CASE UNCHANGED vars
  BY <1>1, <1>3 DEF vars, rows, local, admins, history, ImageInv, Images
<1>4. QED
  BY <1>1, <1>2, <1>3, ImageAdmin DEF Next, Administer, ImageInv

\* What resolve hands out can be pulled, whatever deletions are under way, late
\* or repeated and whoever cancels retirements, unless a deletion of that very
\* image failed, was cut short or was under way at the cancel.
THEOREM Servable == Spec => []ServableImage
<1>1. ImageInv => ServableImage
  <2> SUFFICES ASSUME ImageInv, NEW e \in Key, status[e] = "READY", life[e] = "ACTIVE"
               PROVE  image[e] \in registry \/ e \in doubtful
    BY DEF ServableImage
  <2>1. QED  BY DEF ImageInv, Images
<1>2. QED  BY <1>1, ImageInit, ImageStep, PTL DEF Spec
=============================================================================
