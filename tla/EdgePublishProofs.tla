--------------------------- MODULE EdgePublishProofs ---------------------------
(***************************************************************************)
(* Proofs about EdgePublish, for every number of operators, versions, jobs *)
(* and workers, with lost connections and crashes.                         *)
(***************************************************************************)
EXTENDS EdgePublish, TLAPS

LEMMA NextCases ==
  ASSUME [Next]_vars
  PROVE  \/ \E j \in Job :
              \/ \E v \in Variant, f \in BOOLEAN : Compile(j, v, f)
              \/ Step(j) \/ Fault(j) \/ Progress(j) \/ Drop(j)
         \/ Crash \/ UNCHANGED vars
BY DEF Next

-----------------------------------------------------------------------------
(***************************************************************************)
(* Types.  What a job does with a bundle needs what it did before.         *)
(***************************************************************************)
Underway ==
  \A j \in Job :
    /\ pc[j] # "out" => what[j] \in Variant
    /\ pc[j] \in {"reuse", "write", "open", "writing", "commit"} => revision[j] \in Revisions
    /\ pc[j] = "commit" => digest[j] \in Contents

TypeInv == TypeOK /\ Underway

LEMMA TypeInit == Init => TypeInv
BY ConstantsAssumption
DEF Init, TypeInv, TypeOK, Underway, NoResult, Busy, Locked, Bundle, Files

\* What a write leaves of the files: the others stay as they are.
LEMMA Opens ==
  ASSUME TypeInv, NEW j \in Job, OpenBundle(j)
  PROVE  /\ DOMAIN files' = DOMAIN files \cup {NameOf(j)}
         /\ NameOf(j) \in Files
         /\ files'[NameOf(j)] \in Contents
         /\ \A k \in files'[NameOf(j)].writers \ {j} :
              NameOf(j) \in DOMAIN files /\ k \in files[NameOf(j)].writers
         /\ \A f \in DOMAIN files \ {NameOf(j)} : files'[f] = files[f]
<1>1. NameOf(j) \in Files
  BY DEF TypeInv, TypeOK, Underway, OpenBundle, Goto, NameOf, FileName, Files
<1>2. WritingInto(NameOf(j)) \subseteq Job
  BY DEF TypeInv, TypeOK, WritingInto, Contents
<1>3. files'[NameOf(j)] = [writers |-> WritingInto(NameOf(j)) \cup {j}, closed |-> {}]
  BY DEF OpenBundle
<1>4. files'[NameOf(j)] \in Contents  BY <1>2, <1>3 DEF Contents
<1>5. QED  BY <1>1, <1>3, <1>4 DEF OpenBundle, WritingInto

LEMMA Closes ==
  ASSUME TypeInv, NEW j \in Job, CloseBundle(j)
  PROVE  /\ NameOf(j) \in DOMAIN files
         /\ DOMAIN files' = DOMAIN files
         /\ files'[NameOf(j)] \in Contents
         /\ files'[NameOf(j)].writers = files[NameOf(j)].writers
         /\ \A f \in DOMAIN files \ {NameOf(j)} : files'[f] = files[f]
<1>1. NameOf(j) \in DOMAIN files /\ files[NameOf(j)] \in Contents
  BY DEF TypeInv, TypeOK, CloseBundle
<1>2. QED  BY <1>1 DEF CloseBundle, Contents

LEMMA Unlinks ==
  ASSUME NEW j \in Job, Unlink(j)
  PROVE  /\ DOMAIN files' = DOMAIN files \ {NameOf(j)}
         /\ \A f \in DOMAIN files' : files'[f] = files[f]
BY DEF Unlink, Restrict

LEMMA TypeFind ==
  ASSUME TypeInv, NEW j \in Job, FindReusable(j)
  PROVE  TypeInv'
<1>1. PICK n \in Revisions : n = Len(bundles)
  BY DEF TypeInv, TypeOK, FindReusable, Reusable, Revisions
<1>2. revision' = [revision EXCEPT ![j] = n]  BY <1>1 DEF FindReusable
<1>3. pc[j] = "check" /\ pc' = [pc EXCEPT ![j] = "reuse"]  BY DEF FindReusable, Goto
<1>4. TypeOK'
  BY <1>2, <1>3
  DEF TypeInv, TypeOK, FindReusable, jobRows, device, request, links, Locked, Busy
<1>5. Underway'
  BY <1>2, <1>3
  DEF TypeInv, TypeOK, Underway, FindReusable, jobRows, device, request, links, NameOf
<1>6. QED  BY <1>4, <1>5 DEF TypeInv

LEMMA TypeStale ==
  ASSUME TypeInv, NEW j \in Job, FindStale(j)
  PROVE  TypeInv'
<1>1. pc[j] = "check" /\ pc' = [pc EXCEPT ![j] = "revise"]  BY DEF FindStale, Goto
<1>2. PICK m \in SUBSET Variant : members' = [members EXCEPT ![j] = m]
  <2>1. With(what[j]) \in SUBSET Variant
    BY <1>1 DEF TypeInv, TypeOK, Underway, With, Deployments
  <2>2. QED  BY <2>1 DEF FindStale
<1>3. TypeOK'
  BY <1>1, <1>2
  DEF TypeInv, TypeOK, FindStale, jobRows, device, request, links, Locked, Busy
<1>4. \A k \in Job \ {j} : NameOf(k)' = NameOf(k) /\ pc'[k] = pc[k]
  BY <1>1, <1>2 DEF TypeInv, TypeOK, FindStale, NameOf
<1>5. Underway'
  BY <1>1, <1>4 DEF TypeInv, TypeOK, Underway, FindStale, request, links
<1>6. QED  BY <1>3, <1>5 DEF TypeInv

LEMMA TypeUnlink ==
  ASSUME TypeInv, NEW j \in Job, Unlink(j)
  PROVE  TypeInv'
<1>1. DOMAIN files' \subseteq Files /\ \A f \in DOMAIN files' : files'[f] \in Contents
  BY Unlinks DEF TypeInv, TypeOK
<1>2. pc[j] = "write" /\ pc' = [pc EXCEPT ![j] = "open"]  BY DEF Unlink, Goto
<1>3. UNCHANGED <<variant, jobRows, device, lock, request, links, plan>>  BY DEF Unlink
<1>4. TypeOK'
  BY <1>1, <1>2, <1>3
  DEF TypeInv, TypeOK, jobRows, device, request, links, plan, Locked, Busy
<1>5. Underway'
  BY <1>2, <1>3 DEF TypeInv, TypeOK, Underway, request, links, plan
<1>6. QED  BY <1>4, <1>5 DEF TypeInv

LEMMA TypeOpen ==
  ASSUME TypeInv, NEW j \in Job, OpenBundle(j)
  PROVE  TypeInv'
<1> DEFINE n == NameOf(j)
<1>1. /\ DOMAIN files' = DOMAIN files \cup {n} /\ n \in Files /\ files'[n] \in Contents
      /\ \A f \in DOMAIN files \ {n} : files'[f] = files[f]
  BY Opens
<1>2. pc[j] = "open" /\ pc' = [pc EXCEPT ![j] = "writing"]  BY DEF OpenBundle, Goto
<1>3. UNCHANGED <<variant, jobRows, device, lock, request, links, plan>>  BY DEF OpenBundle
<1>4. \A k \in Job : NameOf(k)' = NameOf(k)  BY <1>3 DEF plan, NameOf
<1> HIDE DEF n
<1>5. DOMAIN files' \subseteq Files /\ \A f \in DOMAIN files' : files'[f] \in Contents
  BY <1>1 DEF TypeInv, TypeOK
<1>6. TypeOK'
  BY <1>2, <1>3, <1>5 DEF TypeInv, TypeOK, jobRows, device, request, links, plan, Locked, Busy
<1>7. Underway'
  BY <1>1, <1>2, <1>3, <1>4 DEF n, TypeInv, TypeOK, Underway, request, links, plan
<1>8. QED  BY <1>6, <1>7 DEF TypeInv

LEMMA TypeClose ==
  ASSUME TypeInv, NEW j \in Job, CloseBundle(j)
  PROVE  TypeInv'
<1> DEFINE n == NameOf(j)
<1>1. /\ DOMAIN files' = DOMAIN files /\ n \in DOMAIN files /\ files'[n] \in Contents
      /\ \A f \in DOMAIN files \ {n} : files'[f] = files[f]
  BY Closes
<1>2. pc[j] = "writing" /\ pc' = [pc EXCEPT ![j] = "commit"]  BY DEF CloseBundle, Goto
<1>3. /\ UNCHANGED <<variant, jobRows, device, lock, request, links, members, revision>>
      /\ digest' = [digest EXCEPT ![j] = files'[n]]
  BY DEF CloseBundle
<1>4. \A k \in Job : NameOf(k)' = NameOf(k)  BY <1>3 DEF NameOf
<1> HIDE DEF n
<1>5. DOMAIN files' \subseteq Files /\ \A f \in DOMAIN files' : files'[f] \in Contents
  BY <1>1 DEF TypeInv, TypeOK
<1>6. PICK d \in Contents : digest' = [digest EXCEPT ![j] = d]  BY <1>1, <1>3
<1>7. TypeOK'
  BY <1>2, <1>3, <1>5, <1>6 DEF TypeInv, TypeOK, jobRows, device, request, links, Locked, Busy
<1>8. Underway'
  BY <1>1, <1>2, <1>3, <1>4, <1>6 DEF n, TypeInv, TypeOK, Underway, request, links
<1>9. QED  BY <1>7, <1>8 DEF TypeInv

LEMMA TypeCommit ==
  ASSUME TypeInv, NEW j \in Job, Commit(j)
  PROVE  TypeInv'
<1>1. what[j] \in Variant /\ revision[j] \in Revisions /\ digest[j] \in Contents
      /\ members[j] \in SUBSET Variant
  BY DEF TypeInv, TypeOK, Underway, Commit, Goto
<1>2. bundles' \in Seq(Bundle)
  <2>1. [members |-> members[j], digest |-> digest[j]] \in Bundle  BY <1>1 DEF Bundle
  <2>2. QED  BY <2>1 DEF TypeInv, TypeOK, Commit
<1>3. pc[j] = "commit" /\ pc' = [pc EXCEPT ![j] = "unlock"]  BY DEF Commit, Goto
<1>4. TypeOK'
  BY <1>1, <1>2, <1>3, ConstantsAssumption
  DEF TypeInv, TypeOK, Commit, request, links, plan, Active, Locked, Busy
<1>5. \A k \in Job : NameOf(k)' = NameOf(k)  BY DEF Commit, plan, NameOf
<1>6. Underway'
  BY <1>3, <1>5 DEF TypeInv, TypeOK, Underway, Commit, request, links, plan
<1>7. QED  BY <1>4, <1>6 DEF TypeInv

LEMMA TypeJob ==
  ASSUME TypeInv, NEW j \in Job, Step(j)
  PROVE  TypeInv'
<1>4. CASE FindReusable(j)  BY <1>4, TypeFind
<1>6. CASE FindStale(j)  BY <1>6, TypeStale
<1>8. CASE OpenBundle(j)  BY <1>8, TypeOpen
<1>9. CASE CloseBundle(j)  BY <1>9, TypeClose
<1>10. CASE Commit(j)  BY <1>10, TypeCommit
<1> USE ConstantsAssumption
    DEF TypeInv, TypeOK, Underway, Goto, jobRows, device, request, links, plan, NoResult, Snapshot,
        Active, Locked, Busy, Revisions, Files, Bundle, NameOf, FileName
<1>1. CASE CreateJob(j)  BY <1>1 DEF CreateJob, Insert
<1>2. CASE Start(j)  BY <1>2 DEF Start, MarkRunning
<1>16. CASE Submit(j)  BY <1>16 DEF Submit, UpdateProgress
<1>17. CASE Unlink(j)  BY <1>17, TypeUnlink
<1>18. CASE HashFails(j)  BY <1>18 DEF HashFails
<1>3. CASE AcquireLock(j)
  <2>1. lock' = j /\ lock = None /\ alive[j] /\ pc[j] = "waiting"
    BY <1>3 DEF AcquireLock
  <2>2. pc' = [pc EXCEPT ![j] = "check"]  BY <1>3 DEF AcquireLock
  <2>3. \A k \in Job : lock' = k <=> pc'[k] \in Locked /\ alive'[k]
    BY <1>3, <2>1, <2>2 DEF AcquireLock
  <2>4. QED  BY <1>3, <2>1, <2>2, <2>3 DEF AcquireLock
<1>5. CASE MarkReady(j)  BY <1>5 DEF MarkReady
<1>7. CASE NextRevision(j)  BY <1>7 DEF NextRevision, NextEdgeRevision
<1>11. CASE Unlock(j)  BY <1>11 DEF Unlock
<1>12. CASE StatementFails(j)  BY <1>12 DEF StatementFails
<1>13. CASE ReleaseLock(j)  BY <1>13 DEF ReleaseLock
<1>14. CASE MarkFailed(j)  BY <1>14 DEF MarkFailed
<1>15. QED
  BY <1>1, <1>2, <1>3, <1>4, <1>5, <1>6, <1>7, <1>8, <1>9, <1>10, <1>11, <1>12, <1>13, <1>14,
     <1>16, <1>17, <1>18
  DEF Step

LEMMA TypeStep == TypeInv /\ [Next]_vars => TypeInv'
<1> SUFFICES ASSUME TypeInv, [Next]_vars PROVE TypeInv'
  OBVIOUS
<1>1. ASSUME NEW j \in Job, Fault(j) \/ Progress(j) \/ Drop(j) PROVE TypeInv'
  <2> USE ConstantsAssumption
      DEF TypeInv, TypeOK, Underway, jobRows, device, request, links, plan, NoResult, Snapshot,
          Active, Locked, Busy, NameOf, FileName
  <2>1. CASE Fault(j)
    <3>1. CASE EmitFails(j)  BY <3>1 DEF EmitFails, Goto
    <3>2. CASE StartFails(j)  BY <3>2 DEF StartFails, Goto
    <3>3. CASE StepFails(j)  BY <3>3 DEF StepFails
    <3>4. CASE MarkFailedRaises(j)  BY <3>4 DEF MarkFailedRaises, Goto
    <3>5. QED  BY <2>1, <3>1, <3>2, <3>3, <3>4 DEF Fault
  <2>2. CASE Progress(j)  BY <2>2 DEF Progress, UpdateProgress
  <2>3. CASE Drop(j)  BY <2>3 DEF Drop
  <2>4. QED  BY <1>1, <2>1, <2>2, <2>3
<1>2. ASSUME NEW j \in Job, NEW v \in Variant, NEW f \in BOOLEAN, Compile(j, v, f) PROVE TypeInv'
  BY <1>2, ConstantsAssumption
  DEF Compile, Upserted, TypeInv, TypeOK, Underway, Goto, jobRows, device, links, plan, Active,
      Locked, Busy
<1>3. CASE Crash
  BY <1>3, ConstantsAssumption
  DEF Crash, TypeInv, TypeOK, Underway, jobRows, device, request, links, plan, Locked, Busy, NameOf,
      FileName
<1>4. CASE UNCHANGED vars
  BY <1>4
  DEF vars, TypeInv, TypeOK, Underway, jobRows, device, request, links, plan, NameOf, FileName
<1>5. QED  BY <1>1, <1>2, <1>3, <1>4, NextCases, TypeJob

\* The types of the jobs and of what they write; the advisory lock is held by
\* the job that is inside it with its connection open, and by no other.
THEOREM TypeCorrect == Spec => []TypeOK
<1>1. TypeInv => TypeOK  BY DEF TypeInv
<1>2. QED  BY <1>1, TypeInit, TypeStep, PTL DEF Spec

-----------------------------------------------------------------------------
(***************************************************************************)
(* The device.  Only the holder of the lock commits, and what it computed  *)
(* from the deployments after it took the lock is what it commits.         *)
(***************************************************************************)
Building == {"revise", "write", "open", "writing", "commit"}

\* A deployment of an operator is a version of it.
Owned == \A o \in Operator : deployed[o] # None => OperatorOf[deployed[o]] = o

Planned == \A j \in Job : pc[j] \in Building /\ alive[j] => members[j] = With(what[j])

DeviceInv == TypeInv /\ Owned /\ LatestBundleComplete /\ Planned

LEMMA DeviceInit == Init => DeviceInv
<1> SUFFICES ASSUME Init PROVE DeviceInv
  OBVIOUS
<1>1. TypeInv  BY TypeInit
<1>2. Owned /\ LatestBundleComplete
  BY DEF Init, Owned, LatestBundleComplete, Deployments
<1>3. Planned  BY DEF Init, Planned
<1>4. QED  BY <1>1, <1>2, <1>3 DEF DeviceInv

\* A job whose thread builds a bundle has only gone on with it, unless it has
\* just begun.
LEMMA Carried ==
  ASSUME TypeInv, [Next]_vars, ~\E j \in Job : Commit(j),
         NEW k \in Job, ~FindStale(k), pc'[k] \in Building, alive'[k]
  PROVE  pc[k] \in Building /\ alive[k] /\ what'[k] = what[k] /\ members'[k] = members[k]
<1> USE DEF TypeInv, TypeOK, Building, Goto, request, links, plan
<1>1. ASSUME NEW j \in Job, NEW v \in Variant, NEW f \in BOOLEAN, Compile(j, v, f)
      PROVE  pc[k] \in Building /\ alive[k] /\ what'[k] = what[k] /\ members'[k] = members[k]
  BY <1>1 DEF Compile, Upserted
<1>2. ASSUME NEW j \in Job,
             \/ CreateJob(j) \/ Submit(j) \/ Start(j) \/ AcquireLock(j) \/ FindReusable(j)
             \/ MarkReady(j) \/ HashFails(j) \/ Unlock(j) \/ StatementFails(j) \/ ReleaseLock(j)
             \/ MarkFailed(j)
      PROVE  pc[k] \in Building /\ alive[k] /\ what'[k] = what[k] /\ members'[k] = members[k]
  BY <1>2
  DEF CreateJob, Insert, Submit, UpdateProgress, Start, MarkRunning, AcquireLock, FindReusable,
      MarkReady, HashFails, Unlock, StatementFails, ReleaseLock, MarkFailed
<1>3. ASSUME NEW j \in Job,
             \/ FindStale(j) \/ NextRevision(j) \/ Unlink(j) \/ OpenBundle(j)
             \/ Fault(j) \/ Progress(j) \/ Drop(j)
      PROVE  pc[k] \in Building /\ alive[k] /\ what'[k] = what[k] /\ members'[k] = members[k]
  BY <1>3
  DEF FindStale, NextRevision, Unlink, OpenBundle, Progress, UpdateProgress, Drop, Fault,
      EmitFails, StartFails, StepFails, MarkFailedRaises
<1>4. ASSUME NEW j \in Job, CloseBundle(j)
      PROVE  pc[k] \in Building /\ alive[k] /\ what'[k] = what[k] /\ members'[k] = members[k]
  BY <1>4 DEF CloseBundle
<1>5. CASE Crash  BY <1>5 DEF Crash
<1>6. CASE UNCHANGED vars  BY <1>6 DEF vars
<1>7. QED
  BY <1>1, <1>2, <1>3, <1>4, <1>5, <1>6, NextCases DEF Step

LEMMA DeviceCommit ==
  ASSUME DeviceInv, NEW j \in Job, Commit(j)
  PROVE  Owned' /\ LatestBundleComplete' /\ Planned'
<1> DEFINE v == what[j]
<1>1. /\ v \in Variant /\ OperatorOf[v] \in Operator
      /\ members[j] = With(v) /\ members[j] \in SUBSET Variant
      /\ digest[j] \in Contents
      /\ deployed \in [Operator -> Variant \cup {None}]
  BY ConstantsAssumption
  DEF DeviceInv, TypeInv, TypeOK, Underway, Planned, Building, Commit, Goto
<1>2. deployed' = [deployed EXCEPT ![OperatorOf[v]] = v]  BY DEF Commit
<1> HIDE DEF v
<1>3. Owned'
  BY <1>1, <1>2 DEF DeviceInv, Owned
<1>4. Deployments' = With(v)
  BY <1>1, <1>2, ConstantsAssumption DEF DeviceInv, Owned, Deployments, With
<1>5. bundles' # <<>> /\ Last(bundles').members = members[j]
  <2>1. [members |-> members[j], digest |-> digest[j]] \in Bundle  BY <1>1 DEF Bundle
  <2>2. bundles \in Seq(Bundle)  BY DEF DeviceInv, TypeInv, TypeOK
  <2>3. bundles' = Append(bundles, [members |-> members[j], digest |-> digest[j]])
    BY DEF Commit
  <2>4. QED  BY <2>1, <2>2, <2>3 DEF Last
<1>6. LatestBundleComplete'  BY <1>1, <1>4, <1>5 DEF LatestBundleComplete
<1>7. \A k \in Job : ~(pc'[k] \in Building /\ alive'[k])
  BY DEF DeviceInv, TypeInv, TypeOK, Building, Locked, Commit, Goto, links
<1>8. Planned'  BY <1>7 DEF Planned
<1>9. QED  BY <1>3, <1>6, <1>8

LEMMA DeviceStep == DeviceInv /\ [Next]_vars => DeviceInv'
<1> SUFFICES ASSUME DeviceInv, [Next]_vars PROVE DeviceInv'
  OBVIOUS
<1>1. TypeInv'  BY TypeStep DEF DeviceInv
<1>2. CASE \E j \in Job : Commit(j)  BY <1>1, <1>2, DeviceCommit DEF DeviceInv
<1>3. CASE ~\E j \in Job : Commit(j)
  <2>1. UNCHANGED device
    BY <1>3, NextCases
    DEF Compile, Upserted, Step, CreateJob, Insert, Submit, Start, MarkRunning, AcquireLock,
        FindReusable, MarkReady, FindStale, NextRevision, Unlink, OpenBundle, CloseBundle,
        HashFails, Unlock, StatementFails, ReleaseLock, MarkFailed, Fault, EmitFails,
        StartFails, StepFails, MarkFailedRaises, Progress, UpdateProgress, Drop, Crash, vars
  <2>2. Owned' /\ LatestBundleComplete'
    BY <2>1 DEF DeviceInv, Owned, LatestBundleComplete, Deployments, device
  <2>3. ASSUME NEW k \in Job, what'[k] = what[k] PROVE With(what[k])' = With(what[k])
    BY <2>1, <2>3 DEF With, Deployments, device
  <2>4. ASSUME NEW k \in Job, pc'[k] \in Building, alive'[k]
        PROVE  members'[k] = With(what[k])'
    <3>1. CASE FindStale(k)
      BY <2>3, <3>1 DEF DeviceInv, TypeInv, TypeOK, FindStale, request, links
    <3>2. CASE ~FindStale(k)
      <4>1. pc[k] \in Building /\ alive[k] /\ what'[k] = what[k] /\ members'[k] = members[k]
        BY <1>3, <2>4, <3>2, Carried DEF DeviceInv
      <4>2. QED  BY <2>3, <4>1 DEF DeviceInv, Planned
    <3>3. QED  BY <3>1, <3>2
  <2>5. Planned'  BY <2>4 DEF Planned
  <2>6. QED  BY <1>1, <2>2, <2>5 DEF DeviceInv
<1>4. QED  BY <1>2, <1>3

LEMMA Devices == Spec => []DeviceInv
BY DeviceInit, DeviceStep, PTL DEF Spec

\* The latest bundle holds exactly what the deployments name, with the lock lost
\* at any moment: the losing job's commit fails on the connection it lost.
THEOREM LatestComplete == Spec => []LatestBundleComplete
<1>1. DeviceInv => LatestBundleComplete  BY DEF DeviceInv
<1>2. QED  BY <1>1, Devices, PTL

-----------------------------------------------------------------------------
(***************************************************************************)
(* The jobs.  What a job commits or reuses holds the variant it was asked  *)
(* for, and once it has its result nothing of the job is active any more.  *)
(***************************************************************************)
Settled == {"unlock", "failed", "done", "stranded", "lost"}

Asked ==
  \A j \in Job :
    /\ pc[j] \in Building => what[j] \in members[j]
    /\ pc[j] = "reuse" =>
         revision[j] \in 1 .. Len(bundles) /\ what[j] \in bundles[revision[j]].members

Answered ==
  \A j \in Job :
    /\ status[j] = "READY" => pc[j] \in Settled
    /\ result[j] \in Revisions => pc[j] \in Settled /\ status[j] \in {"READY", "FAILED"}

\* ReadyIsPublished, of the rows that are behind an answer.
ReadyRows ==
  \A j \in Job :
    status[j] = "READY" =>
      /\ result[j] \in 1 .. Len(bundles)
      /\ what[j] \in bundles[result[j]].members
      /\ variant[what[j]] = "PUBLISHED"

JobsInv == TypeInv /\ Asked /\ Answered /\ ReadyRows

LEMMA JobsInit == Init => JobsInv
<1> SUFFICES ASSUME Init PROVE JobsInv
  OBVIOUS
<1>1. TypeInv  BY TypeInit
<1>2. Asked /\ Answered /\ ReadyRows
  BY DEF Init, Asked, Answered, ReadyRows, Building, NoResult, Revisions
<1>3. QED  BY <1>1, <1>2 DEF JobsInv

\* A commit adds a bundle and leaves the earlier ones.
LEMMA Commits ==
  ASSUME TypeInv, NEW j \in Job, Commit(j)
  PROVE  /\ Len(bundles') = Len(bundles) + 1 /\ revision[j] = Len(bundles')
         /\ \A r \in 1 .. Len(bundles) : bundles'[r] = bundles[r]
         /\ bundles'[revision[j]].members = members[j]
<1>1. digest[j] \in Contents /\ members[j] \in SUBSET Variant /\ bundles \in Seq(Bundle)
  BY DEF TypeInv, TypeOK, Underway, Commit, Goto
<1>2. [members |-> members[j], digest |-> digest[j]] \in Bundle  BY <1>1 DEF Bundle
<1>3. QED  BY <1>1, <1>2 DEF Commit, NextEdgeRevision

LEMMA JobsCommit ==
  ASSUME JobsInv, NEW j \in Job, Commit(j)
  PROVE  Asked' /\ Answered' /\ ReadyRows'
<1>1. /\ Len(bundles) \in Nat /\ Len(bundles') = Len(bundles) + 1 /\ revision[j] = Len(bundles')
      /\ \A r \in 1 .. Len(bundles) : bundles'[r] = bundles[r]
      /\ bundles'[revision[j]].members = members[j]
  BY Commits DEF JobsInv, TypeInv, TypeOK
<1>2. /\ pc[j] = "commit" /\ pc' = [pc EXCEPT ![j] = "unlock"]
      /\ status' = [status EXCEPT ![j] = "READY"]
      /\ result' = [result EXCEPT ![j] = revision[j]]
      /\ variant' = [variant EXCEPT ![what[j]] = "PUBLISHED"]
      /\ UNCHANGED <<files, lock, request, links, plan>>
  BY DEF Commit, Goto
<1>3. what[j] \in Variant /\ what[j] \in members[j]
  BY <1>2 DEF JobsInv, TypeInv, Underway, Asked, Building
<1>4. Asked'
  BY <1>1, <1>2 DEF JobsInv, TypeInv, TypeOK, Asked, Building, request, links, plan
<1>5. Answered'
  BY <1>2 DEF JobsInv, TypeInv, TypeOK, Answered, Settled
<1>6. ReadyRows'
  <2> SUFFICES ASSUME NEW k \in Job, status'[k] = "READY"
               PROVE  /\ result'[k] \in 1 .. Len(bundles')
                      /\ what'[k] \in bundles'[result'[k]].members
                      /\ variant'[what'[k]] = "PUBLISHED"
    BY DEF ReadyRows
  <2>1. CASE k = j
    BY <1>1, <1>2, <1>3, <2>1 DEF JobsInv, TypeInv, TypeOK, request, links
  <2>2. CASE k # j
    <3>1. status[k] = "READY" /\ result'[k] = result[k] /\ what'[k] = what[k]
      BY <1>2, <2>2 DEF JobsInv, TypeInv, TypeOK, request, links
    <3>2. /\ result[k] \in 1 .. Len(bundles) /\ what[k] \in bundles[result[k]].members
          /\ variant[what[k]] = "PUBLISHED"
      BY <3>1 DEF JobsInv, ReadyRows
    <3>3. result[k] \in 1 .. Len(bundles')  BY <1>1, <3>2
    <3>4. bundles'[result[k]] = bundles[result[k]]  BY <1>1, <3>2
    <3>5. variant'[what[k]] = "PUBLISHED"
      BY <1>2, <3>2 DEF JobsInv, TypeInv, TypeOK
    <3>6. QED  BY <3>1, <3>2, <3>3, <3>4, <3>5
  <2>3. QED  BY <2>1, <2>2
<1>7. QED  BY <1>4, <1>5, <1>6

LEMMA JobsFind ==
  ASSUME JobsInv, NEW j \in Job, FindReusable(j)
  PROVE  Asked' /\ Answered' /\ ReadyRows'
<1>1. PICK n \in 1 .. Len(bundles) : n = Len(bundles)
  BY DEF JobsInv, TypeInv, TypeOK, FindReusable, Reusable
<1>2. what[j] \in bundles[n].members
  BY <1>1 DEF FindReusable, Reusable, Last, With
<1>3. /\ pc[j] = "check" /\ pc' = [pc EXCEPT ![j] = "reuse"]
      /\ revision' = [revision EXCEPT ![j] = n]
      /\ UNCHANGED <<variant, jobRows, device, files, lock, request, links, members, digest>>
  BY <1>1 DEF FindReusable, Goto
<1>4. Asked'
  BY <1>2, <1>3 DEF JobsInv, TypeInv, TypeOK, Asked, Building, device, request, links
<1>5. Answered'
  BY <1>3 DEF JobsInv, TypeInv, TypeOK, Answered, Settled, jobRows
<1>6. ReadyRows'
  BY <1>3 DEF JobsInv, ReadyRows, jobRows, device, request, links
<1>7. QED  BY <1>4, <1>5, <1>6

LEMMA JobsMark ==
  ASSUME JobsInv, NEW j \in Job, MarkReady(j) \/ MarkFailed(j)
  PROVE  Asked' /\ Answered' /\ ReadyRows'
<1> USE DEF JobsInv, TypeInv, TypeOK, Underway, Asked, Answered, ReadyRows, Building,
            Settled, Goto, jobRows, device, request, links, plan
<1>1. CASE MarkReady(j)  BY <1>1 DEF MarkReady
<1>2. CASE MarkFailed(j)  BY <1>2 DEF MarkFailed
<1>3. QED  BY <1>1, <1>2

LEMMA JobsStale ==
  ASSUME JobsInv, NEW j \in Job, FindStale(j)
  PROVE  Asked' /\ Answered' /\ ReadyRows'
<1>1. what[j] \in With(what[j])  BY DEF With
<1>2. PICK m : m = With(what[j])  OBVIOUS
<1>3. /\ pc[j] = "check" /\ pc' = [pc EXCEPT ![j] = "revise"]
      /\ members' = [members EXCEPT ![j] = m]
      /\ UNCHANGED <<variant, jobRows, device, files, lock, request, links, revision, digest>>
  BY <1>2 DEF FindStale, Goto
<1>4. Asked'
  BY <1>1, <1>2, <1>3 DEF JobsInv, TypeInv, TypeOK, Asked, Building, device, request, links
<1>5. Answered'
  BY <1>3 DEF JobsInv, TypeInv, TypeOK, Answered, Settled, jobRows
<1>6. ReadyRows'
  BY <1>3 DEF JobsInv, ReadyRows, jobRows, device, request, links
<1>7. QED  BY <1>4, <1>5, <1>6

LEMMA JobsOther ==
  ASSUME JobsInv, NEW j \in Job,
         \/ \E v \in Variant, f \in BOOLEAN : Compile(j, v, f)
         \/ CreateJob(j) \/ Submit(j) \/ Start(j) \/ AcquireLock(j) \/ NextRevision(j)
         \/ Unlink(j) \/ OpenBundle(j) \/ CloseBundle(j) \/ HashFails(j)
         \/ Unlock(j) \/ StatementFails(j) \/ ReleaseLock(j)
         \/ Fault(j) \/ Progress(j) \/ Drop(j)
  PROVE  Asked' /\ Answered' /\ ReadyRows'
<1> USE DEF JobsInv, TypeInv, TypeOK, Underway, Asked, Answered, ReadyRows, Building,
            Settled, Goto, jobRows, device, request, links, plan
<1>1. ASSUME NEW v \in Variant, NEW f \in BOOLEAN, Compile(j, v, f)
      PROVE  Asked' /\ Answered' /\ ReadyRows'
  BY <1>1 DEF Compile, Upserted
<1>2. CASE CreateJob(j)  BY <1>2 DEF CreateJob, Insert
<1>3. CASE Start(j)  BY <1>3 DEF Start, MarkRunning
<1>4. CASE AcquireLock(j)  BY <1>4 DEF AcquireLock
<1>5. CASE NextRevision(j)  BY <1>5 DEF NextRevision
<1>6. CASE OpenBundle(j)  BY <1>6 DEF OpenBundle
<1>7. CASE CloseBundle(j)  BY <1>7 DEF CloseBundle
<1>8. CASE Unlock(j)  BY <1>8 DEF Unlock
<1>9. CASE StatementFails(j)  BY <1>9 DEF StatementFails
<1>10. CASE ReleaseLock(j)  BY <1>10 DEF ReleaseLock
<1>11. CASE Fault(j)
  BY <1>11 DEF Fault, EmitFails, StartFails, StepFails, MarkFailedRaises
<1>14. CASE Submit(j)  BY <1>14 DEF Submit, UpdateProgress, Active, Snapshot, Revisions
<1>15. CASE Unlink(j)  BY <1>15 DEF Unlink
<1>16. CASE HashFails(j)  BY <1>16 DEF HashFails
<1>12. CASE Progress(j)  BY <1>12 DEF Progress, UpdateProgress, Active, Snapshot, Revisions
<1>13. CASE Drop(j)  BY <1>13 DEF Drop
<1>17. QED
  BY <1>1, <1>2, <1>3, <1>4, <1>5, <1>6, <1>7, <1>8, <1>9, <1>10, <1>11, <1>12, <1>13, <1>14,
     <1>15, <1>16

LEMMA JobsStep == JobsInv /\ [Next]_vars => JobsInv'
<1> SUFFICES ASSUME JobsInv, [Next]_vars PROVE JobsInv'
  OBVIOUS
<1>1. TypeInv'  BY TypeStep DEF JobsInv
<1>2. CASE Crash
  <2>1. Asked' /\ Answered' /\ ReadyRows'
    BY <1>2
    DEF Crash, JobsInv, TypeInv, TypeOK, Asked, Answered, ReadyRows, Building, Settled,
        jobRows, device, request, links, plan
  <2>2. QED  BY <1>1, <2>1 DEF JobsInv
<1>3. CASE UNCHANGED vars
  <2>1. Asked' /\ Answered' /\ ReadyRows'
    BY <1>3 DEF vars, JobsInv, Asked, Answered, ReadyRows, jobRows, device, request, links, plan
  <2>2. QED  BY <1>1, <2>1 DEF JobsInv
<1>4. ASSUME NEW j \in Job, Step(j) \/ Fault(j) \/ Progress(j) \/ Drop(j)
      PROVE  Asked' /\ Answered' /\ ReadyRows'
  BY <1>4, JobsCommit, JobsFind, JobsMark, JobsStale, JobsOther DEF Step
<1>5. ASSUME NEW j \in Job, NEW v \in Variant, NEW f \in BOOLEAN, Compile(j, v, f)
      PROVE  Asked' /\ Answered' /\ ReadyRows'
  BY <1>5, JobsOther
<1>6. QED  BY <1>1, <1>2, <1>3, <1>4, <1>5, NextCases DEF JobsInv

LEMMA Jobs == Spec => []JobsInv
BY JobsInit, JobsStep, PTL DEF Spec

\* A READY job names a bundle with its variant, and the variant stays PUBLISHED,
\* whichever other job fails, loses its connection or dies.
THEOREM ReadyPublished == Spec => []ReadyIsPublished
<1>1. JobsInv => ReadyIsPublished
  BY DEF JobsInv, ReadyRows, ReadyIsPublished, Answer
<1>2. QED  BY <1>1, Jobs, PTL

Final ==
  /\ \A v \in Variant : variant[v] = "PUBLISHED" => variant'[v] = "PUBLISHED"
  /\ \A j \in Job : result[j] \in Revisions => result'[j] = result[j]

LEMMA FinalStep == JobsInv /\ [Next]_vars => Final
<1> SUFFICES ASSUME JobsInv, [Next]_vars PROVE Final
  OBVIOUS
<1>1. ASSUME NEW j \in Job, NEW v \in Variant, NEW f \in BOOLEAN, Compile(j, v, f) PROVE Final
  BY <1>1 DEF Compile, Upserted, JobsInv, TypeInv, TypeOK, Final, jobRows
<1>2. ASSUME NEW j \in Job, Step(j) PROVE Final
  <2>1. CASE MarkReady(j)
    BY <2>1
    DEF MarkReady, Goto, JobsInv, TypeInv, TypeOK, Underway, Answered, Settled, Final, jobRows
  <2>2. CASE Commit(j)
    BY <2>2
    DEF Commit, Goto, JobsInv, TypeInv, TypeOK, Underway, Answered, Settled, Final, jobRows
  <2>3. CASE MarkFailed(j)
    BY <2>3 DEF MarkFailed, JobsInv, TypeInv, TypeOK, Final
  <2>4. CASE Submit(j)
    <3>1. result[j] \notin Revisions
      BY <2>4 DEF Submit, UpdateProgress, JobsInv, Answered, Active
    <3>2. QED  BY <2>4, <3>1 DEF Submit, UpdateProgress, JobsInv, TypeInv, TypeOK, Final
  <2>5. CASE ~MarkReady(j) /\ ~Commit(j) /\ ~MarkFailed(j) /\ ~Submit(j)
    <3>1. UNCHANGED <<variant, result>>
      BY <1>2, <2>5
      DEF Step, CreateJob, Insert, Start, MarkRunning, AcquireLock, FindReusable, FindStale,
          NextRevision, Unlink, OpenBundle, CloseBundle, HashFails, Unlock, StatementFails,
          ReleaseLock, jobRows
    <3>2. QED  BY <3>1 DEF Final
  <2>6. QED  BY <2>1, <2>2, <2>3, <2>4, <2>5
<1>3. ASSUME NEW j \in Job, Progress(j) PROVE Final
  <2>1. result[j] \notin Revisions
    BY <1>3 DEF Progress, UpdateProgress, JobsInv, Answered, Active
  <2>2. QED  BY <1>3, <2>1 DEF Progress, UpdateProgress, JobsInv, TypeInv, TypeOK, Final
<1>4. ASSUME NEW j \in Job, Fault(j) \/ Drop(j) PROVE Final
  BY <1>4 DEF Fault, EmitFails, StartFails, StepFails, MarkFailedRaises, Drop, Final, jobRows
<1>5. CASE Crash  BY <1>5 DEF Crash, Final, jobRows
<1>6. CASE UNCHANGED vars  BY <1>6 DEF vars, Final, jobRows
<1>7. QED  BY <1>1, <1>2, <1>3, <1>4, <1>5, <1>6, NextCases

\* What has been published stays published, and the result of a publication is
\* never replaced by the progress of a heartbeat that comes late.
THEOREM ResultsStay == Spec => ResultsAreFinal
<1>1. JobsInv /\ [Next]_vars => [Final]_vars  BY FinalStep
<1>2. Spec => [][Final]_vars  BY <1>1, Jobs, PTL DEF Spec
<1>3. QED  BY <1>2 DEF ResultsAreFinal, Final

-----------------------------------------------------------------------------
(***************************************************************************)
(* The files.  The name of a file says what it holds, so that a job that   *)
(* has lost the lock and writes on can only write what was there.  Who     *)
(* still has the lock unlinks a name that no bundle has yet; who unlinks   *)
(* the file of a bundle is therefore one that has lost its connection.     *)
(***************************************************************************)
Before == {"out", "compiled", "created", "queued", "waiting", "check"}
Inside == Locked \cup {"waiting"}

Named ==
  \A f \in DOMAIN files : \A k \in files[f].writers : pc[k] \notin Before /\ f[2] = members[k]

Linked ==
  \A k \in Job :
    /\ k \in dropped => ~alive[k] /\ pc[k] \notin {"out", "compiled", "created", "queued"}
    /\ pc[k] \in Inside => (alive[k] <=> k \notin dropped)
    /\ alive[k] => pc[k] \in Inside

Fresh ==
  \A k \in Job :
    /\ pc[k] \in {"write", "open", "writing", "commit"} /\ alive[k] => revision[k] = NextEdgeRevision
    /\ pc[k] \in Before \cup {"revise", "write", "open", "writing"} => digest[k] = None

Unlinked(n) == \E k \in dropped : NameOf(k) = n /\ digest[k] = None
Accounted(n) == n \in DOMAIN files \/ Unlinked(n)

Kept ==
  /\ \A r \in 1 .. Len(bundles) : Accounted(FileName(r, bundles[r].members))
  /\ \A j \in Job : pc[j] = "commit" /\ alive[j] => Accounted(NameOf(j))

FilesInv == TypeInv /\ Linked /\ Fresh /\ Named /\ Kept

LEMMA FilesInit == Init => FilesInv
<1> SUFFICES ASSUME Init PROVE FilesInv
  OBVIOUS
<1>1. TypeInv  BY TypeInit
<1>2. Linked /\ Fresh /\ Named /\ Kept
  BY DEF Init, Linked, Fresh, Named, Kept, Inside, Locked, Before
<1>3. QED  BY <1>1, <1>2 DEF FilesInv

\* Only a job that has not written anything changes its members.
LEMMA MembersStay ==
  ASSUME TypeInv, [Next]_vars, NEW j \in Job, pc[j] \notin Before
  PROVE  pc'[j] \notin Before /\ members'[j] = members[j]
<1> USE DEF TypeInv, TypeOK, Goto, Before, request, links, plan
<1>1. ASSUME NEW k \in Job, NEW v \in Variant, NEW f \in BOOLEAN, Compile(k, v, f)
      PROVE  pc'[j] \notin Before /\ members'[j] = members[j]
  BY <1>1 DEF Compile, Upserted
<1>2. ASSUME NEW k \in Job,
             \/ CreateJob(k) \/ Submit(k) \/ Start(k) \/ AcquireLock(k) \/ FindReusable(k)
             \/ MarkReady(k) \/ HashFails(k) \/ Unlock(k) \/ StatementFails(k) \/ ReleaseLock(k)
             \/ MarkFailed(k)
      PROVE  pc'[j] \notin Before /\ members'[j] = members[j]
  BY <1>2
  DEF CreateJob, Insert, Submit, UpdateProgress, Start, MarkRunning, AcquireLock, FindReusable,
      MarkReady, HashFails, Unlock, StatementFails, ReleaseLock, MarkFailed
<1>3. ASSUME NEW k \in Job,
             \/ FindStale(k) \/ NextRevision(k) \/ Unlink(k) \/ OpenBundle(k) \/ Commit(k)
             \/ Fault(k) \/ Progress(k) \/ Drop(k)
      PROVE  pc'[j] \notin Before /\ members'[j] = members[j]
  BY <1>3
  DEF FindStale, NextRevision, Unlink, OpenBundle, Commit, Progress, UpdateProgress, Drop,
      Fault, EmitFails, StartFails, StepFails, MarkFailedRaises
<1>4. ASSUME NEW k \in Job, CloseBundle(k)
      PROVE  pc'[j] \notin Before /\ members'[j] = members[j]
  <2>1. pc' = [pc EXCEPT ![k] = "commit"] /\ UNCHANGED members  BY <1>4 DEF CloseBundle
  <2>2. QED  BY <2>1
<1>5. CASE Crash  BY <1>5 DEF Crash
<1>6. CASE UNCHANGED vars  BY <1>6 DEF vars
<1>7. QED
  BY <1>1, <1>2, <1>3, <1>4, <1>5, <1>6, NextCases DEF Step

\* Without its connection a job computes nothing any more that names a file.
LEMMA DroppedStay ==
  ASSUME TypeInv, Linked, [Next]_vars, NEW k \in Job, k \in dropped
  PROVE  /\ k \in dropped' /\ NameOf(k)' = NameOf(k)
         /\ digest'[k] = digest[k] \/ CloseBundle(k)
<1> DEFINE Goal == /\ k \in dropped' /\ members'[k] = members[k] /\ revision'[k] = revision[k]
                   /\ digest'[k] = digest[k] \/ CloseBundle(k)
<1> USE DEF TypeInv, TypeOK, Linked, Goto, links, plan
<1>1. ASSUME NEW j \in Job, NEW v \in Variant, NEW f \in BOOLEAN, Compile(j, v, f) PROVE Goal
  BY <1>1 DEF Compile, Upserted
<1>2. ASSUME NEW j \in Job,
             \/ CreateJob(j) \/ Submit(j) \/ Start(j) \/ AcquireLock(j) \/ FindReusable(j)
             \/ MarkReady(j) \/ HashFails(j) \/ Unlock(j) \/ StatementFails(j) \/ ReleaseLock(j)
             \/ MarkFailed(j)
      PROVE  Goal
  BY <1>2
  DEF CreateJob, Insert, Submit, UpdateProgress, Start, MarkRunning, AcquireLock, FindReusable,
      MarkReady, HashFails, Unlock, StatementFails, ReleaseLock, MarkFailed
<1>3. ASSUME NEW j \in Job,
             \/ FindStale(j) \/ NextRevision(j) \/ Unlink(j) \/ OpenBundle(j) \/ Commit(j)
             \/ Fault(j) \/ Progress(j) \/ Drop(j)
      PROVE  Goal
  BY <1>3
  DEF FindStale, NextRevision, Unlink, OpenBundle, Commit, Progress, UpdateProgress, Drop,
      Fault, EmitFails, StartFails, StepFails, MarkFailedRaises
<1>4. ASSUME NEW j \in Job, CloseBundle(j) PROVE Goal
  <2>1. \A i \in Job \ {j} : digest'[i] = digest[i]  BY <1>4 DEF CloseBundle
  <2>2. UNCHANGED <<links, members, revision>>  BY <1>4 DEF CloseBundle
  <2>3. QED  BY <1>4, <2>1, <2>2
<1>5. ASSUME Crash PROVE Goal  BY <1>5 DEF Crash
<1>6. ASSUME UNCHANGED vars PROVE Goal  BY <1>6 DEF vars
<1>7. Goal
  BY <1>1, <1>2, <1>3, <1>4, <1>5, <1>6, NextCases DEF Step
<1>8. QED  BY <1>7 DEF NameOf

\* A file is gone only where a job has unlinked it.
LEMMA FilesChange ==
  ASSUME TypeInv, [Next]_vars
  PROVE  \/ DOMAIN files \subseteq DOMAIN files'
         \/ \E j \in Job : Unlink(j)
<1>1. ASSUME NEW j \in Job, OpenBundle(j) PROVE DOMAIN files \subseteq DOMAIN files'
  BY <1>1, Opens
<1>2. ASSUME NEW j \in Job, CloseBundle(j) PROVE DOMAIN files \subseteq DOMAIN files'
  BY <1>2, Closes
<1>3. CASE ~\E j \in Job : Unlink(j) \/ OpenBundle(j) \/ CloseBundle(j)
  BY <1>3, NextCases
  DEF Compile, Step, CreateJob, Submit, Start, AcquireLock, FindReusable, MarkReady, FindStale,
      NextRevision, HashFails, Commit, Unlock, StatementFails, ReleaseLock, MarkFailed, Fault,
      EmitFails, StartFails, StepFails, MarkFailedRaises, Progress, Drop, Crash, vars
<1>4. QED  BY <1>1, <1>2, <1>3

\* The file of a name stays accounted for, unless one unlinks it that has not lost
\* its connection.
LEMMA AccountedStays ==
  ASSUME FilesInv, [Next]_vars, NEW n \in Files, Accounted(n),
         ~\E j \in Job : Unlink(j) /\ NameOf(j) = n /\ j \notin dropped
  PROVE  Accounted(n)'
<1>1. CASE Unlinked(n)
  <2>1. PICK k \in dropped : NameOf(k) = n /\ digest[k] = None  BY <1>1 DEF Unlinked
  <2>2. k \in Job  BY DEF FilesInv, TypeInv, TypeOK
  <2>3. k \in dropped' /\ NameOf(k)' = n /\ (digest'[k] = None \/ CloseBundle(k))
    BY <2>1, <2>2, DroppedStay DEF FilesInv
  <2>4. CASE digest'[k] = None  BY <2>3, <2>4 DEF Accounted, Unlinked
  <2>5. CASE CloseBundle(k)
    <3>1. n \in DOMAIN files'  BY <2>1, <2>2, <2>5, Closes DEF FilesInv
    <3>2. QED  BY <3>1 DEF Accounted
  <2>6. QED  BY <2>3, <2>4, <2>5
<1>2. CASE n \in DOMAIN files
  <2>1. CASE DOMAIN files \subseteq DOMAIN files'  BY <1>2, <2>1 DEF Accounted
  <2>2. ASSUME NEW j \in Job, Unlink(j) PROVE Accounted(n)'
    <3>1. CASE NameOf(j) # n
      <4>1. n \in DOMAIN files'  BY <1>2, <2>2, <3>1, Unlinks
      <4>2. QED  BY <4>1 DEF Accounted
    <3>2. CASE NameOf(j) = n /\ j \in dropped
      <4>1. digest[j] = None  BY <2>2 DEF Unlink, Goto, FilesInv, Fresh
      <4>2. j \in dropped' /\ NameOf(j)' = n /\ digest'[j] = None
        BY <2>2, <3>2, <4>1 DEF Unlink, links, plan, NameOf
      <4>3. QED  BY <4>2 DEF Accounted, Unlinked
    <3>3. QED  BY <2>2, <3>1, <3>2
  <2>3. QED  BY <2>1, <2>2, FilesChange DEF FilesInv
<1>3. QED  BY <1>1, <1>2 DEF Accounted

\* Who has the lock unlinks neither the file of a bundle nor that of another job
\* that will commit.
LEMMA HolderUnlinks ==
  ASSUME FilesInv, NEW j \in Job, Unlink(j), j \notin dropped
  PROVE  /\ \A r \in 1 .. Len(bundles) : NameOf(j) # FileName(r, bundles[r].members)
         /\ \A k \in Job : ~(pc[k] = "commit" /\ alive[k])
<1>1. pc[j] = "write" /\ alive[j]
  BY DEF Unlink, Goto, FilesInv, Linked, Inside, Locked
<1>2. lock = j /\ revision[j] = Len(bundles) + 1
  BY <1>1 DEF FilesInv, TypeInv, TypeOK, Fresh, Locked, NextEdgeRevision
<1>3. Len(bundles) \in Nat  BY DEF FilesInv, TypeInv, TypeOK
<1>4. \A r \in 1 .. Len(bundles) : revision[j] # r  BY <1>2, <1>3
<1>5. \A k \in Job : pc[k] = "commit" /\ alive[k] => k = j
  BY <1>2 DEF FilesInv, TypeInv, TypeOK, Locked
<1>6. QED  BY <1>1, <1>4, <1>5 DEF NameOf, FileName

LEMMA LinkedStep == FilesInv /\ [Next]_vars => Linked'
<1> SUFFICES ASSUME FilesInv, [Next]_vars PROVE Linked'
  OBVIOUS
<1> USE DEF FilesInv, TypeInv, TypeOK, Linked, Inside, Locked, Goto, links
<1>1. ASSUME NEW j \in Job, NEW v \in Variant, NEW f \in BOOLEAN, Compile(j, v, f) PROVE Linked'
  BY <1>1 DEF Compile
<1>2. ASSUME NEW j \in Job,
             \/ CreateJob(j) \/ Submit(j) \/ Start(j) \/ AcquireLock(j) \/ FindReusable(j)
             \/ MarkReady(j) \/ FindStale(j) \/ NextRevision(j)
      PROVE  Linked'
  BY <1>2
  DEF CreateJob, Submit, Start, AcquireLock, FindReusable, MarkReady, FindStale, NextRevision
<1>3. ASSUME NEW j \in Job, Unlink(j) \/ OpenBundle(j) \/ CloseBundle(j) \/ HashFails(j) \/ Commit(j)
      PROVE  Linked'
  <2>1. PICK p \in {"open", "writing", "commit", "raise", "unlock"} : pc' = [pc EXCEPT ![j] = p]
    BY <1>3 DEF Unlink, OpenBundle, CloseBundle, HashFails, Commit
  <2>2. UNCHANGED links /\ pc[j] \in {"write", "open", "writing", "commit"}
    BY <1>3 DEF Unlink, OpenBundle, CloseBundle, HashFails, Commit
  <2>3. QED  BY <2>1, <2>2
<1>4. ASSUME NEW j \in Job, Unlock(j) \/ StatementFails(j) \/ ReleaseLock(j) \/ MarkFailed(j)
      PROVE  Linked'
  BY <1>4 DEF Unlock, StatementFails, ReleaseLock, MarkFailed
<1>5. ASSUME NEW j \in Job, Fault(j) \/ Progress(j) PROVE Linked'
  BY <1>5
  DEF Fault, EmitFails, StartFails, StepFails, MarkFailedRaises, Progress
<1>6. ASSUME NEW j \in Job, Drop(j) PROVE Linked'
  <2>1. /\ alive[j] /\ alive' = [alive EXCEPT ![j] = FALSE]
        /\ dropped' = dropped \cup {j} /\ UNCHANGED pc
    BY <1>6 DEF Drop
  <2>2. pc[j] \notin {"out", "compiled", "created", "queued"}  BY <2>1
  <2>3. QED  BY <2>1, <2>2
<1>7. CASE Crash  BY <1>7 DEF Crash
<1>8. CASE UNCHANGED vars  BY <1>8 DEF vars
<1>9. QED  BY <1>1, <1>2, <1>3, <1>4, <1>5, <1>6, <1>7, <1>8, NextCases DEF Step

LEMMA FreshStep == FilesInv /\ [Next]_vars => Fresh'
<1> SUFFICES ASSUME FilesInv, [Next]_vars PROVE Fresh'
  OBVIOUS
<1> USE DEF FilesInv, TypeInv, TypeOK, Fresh, Before, Goto, links, plan, device, NextEdgeRevision
<1>1. ASSUME NEW j \in Job, NEW v \in Variant, NEW f \in BOOLEAN, Compile(j, v, f) PROVE Fresh'
  BY <1>1 DEF Compile
<1>2. ASSUME NEW j \in Job,
             \/ CreateJob(j) \/ Submit(j) \/ Start(j) \/ AcquireLock(j) \/ FindReusable(j)
             \/ MarkReady(j) \/ FindStale(j)
      PROVE  Fresh'
  BY <1>2 DEF CreateJob, Submit, Start, AcquireLock, FindReusable, MarkReady, FindStale
<1>3. ASSUME NEW j \in Job, NextRevision(j) PROVE Fresh'
  <2>1. revision' = [revision EXCEPT ![j] = Len(bundles) + 1] /\ pc' = [pc EXCEPT ![j] = "write"]
    BY <1>3 DEF NextRevision
  <2>2. digest[j] = None /\ UNCHANGED <<alive, digest, bundles>>
    BY <1>3 DEF NextRevision
  <2>3. QED  BY <2>1, <2>2
<1>4. ASSUME NEW j \in Job, Unlink(j) \/ OpenBundle(j) \/ HashFails(j) PROVE Fresh'
  <2>1. PICK p \in {"open", "writing", "raise"} : pc' = [pc EXCEPT ![j] = p]
    BY <1>4 DEF Unlink, OpenBundle, HashFails
  <2>2. UNCHANGED <<alive, revision, digest, bundles>> /\ pc[j] \in {"write", "open", "writing"}
    BY <1>4 DEF Unlink, OpenBundle, HashFails
  <2>3. QED  BY <2>1, <2>2
<1>5. ASSUME NEW j \in Job, CloseBundle(j) PROVE Fresh'
  <2>1. pc[j] = "writing" /\ pc' = [pc EXCEPT ![j] = "commit"]  BY <1>5 DEF CloseBundle
  <2>2. UNCHANGED <<alive, revision, bundles>> /\ \A k \in Job \ {j} : digest'[k] = digest[k]
    BY <1>5 DEF CloseBundle
  <2>3. QED  BY <2>1, <2>2
<1>6. ASSUME NEW j \in Job, Commit(j) PROVE Fresh'
  <2>1. lock = j /\ pc' = [pc EXCEPT ![j] = "unlock"] /\ UNCHANGED <<alive, revision, digest>>
    BY <1>6 DEF Commit, Locked
  <2>2. \A k \in Job \ {j} : ~(pc[k] \in {"write", "open", "writing", "commit"} /\ alive[k])
    BY <2>1 DEF Locked
  <2>3. pc[j] = "commit"  BY <1>6 DEF Commit
  <2>4. QED  BY <2>1, <2>2, <2>3
<1>7. ASSUME NEW j \in Job, Unlock(j) \/ StatementFails(j) \/ ReleaseLock(j) \/ MarkFailed(j)
      PROVE  Fresh'
  BY <1>7 DEF Unlock, StatementFails, ReleaseLock, MarkFailed
<1>8. ASSUME NEW j \in Job, Fault(j) \/ Progress(j) \/ Drop(j) PROVE Fresh'
  BY <1>8
  DEF Fault, EmitFails, StartFails, StepFails, MarkFailedRaises, Progress, Drop
<1>9. CASE Crash  BY <1>9 DEF Crash
<1>10. CASE UNCHANGED vars  BY <1>10 DEF vars
<1>11. QED
  BY <1>1, <1>2, <1>3, <1>4, <1>5, <1>6, <1>7, <1>8, <1>9, <1>10, NextCases DEF Step

LEMMA NamedStep == FilesInv /\ [Next]_vars => Named'
<1> SUFFICES ASSUME FilesInv, [Next]_vars PROVE Named'
  OBVIOUS
<1>1. \A f \in DOMAIN files : f \in Files /\ files[f].writers \subseteq Job
  BY DEF FilesInv, TypeInv, TypeOK, Contents
<1>2. \A f \in DOMAIN files : \A k \in files[f].writers :
        pc'[k] \notin Before /\ f[2] = members'[k]
  BY <1>1, MembersStay DEF FilesInv, Named
<1>3. ASSUME NEW j \in Job, OpenBundle(j) PROVE Named'
  <2>1. /\ DOMAIN files' = DOMAIN files \cup {NameOf(j)}
        /\ \A k \in files'[NameOf(j)].writers \ {j} :
             NameOf(j) \in DOMAIN files /\ k \in files[NameOf(j)].writers
        /\ \A f \in DOMAIN files \ {NameOf(j)} : files'[f] = files[f]
    BY <1>3, Opens DEF FilesInv
  <2>2. pc'[j] \notin Before /\ NameOf(j)[2] = members'[j]
    BY <1>3 DEF OpenBundle, Goto, FilesInv, TypeInv, TypeOK, Before, plan, NameOf, FileName
  <2>3. QED  BY <1>2, <2>1, <2>2 DEF Named
<1>4. ASSUME NEW j \in Job, CloseBundle(j) PROVE Named'
  BY <1>2, <1>4, Closes DEF FilesInv, Named
<1>5. ASSUME NEW j \in Job, Unlink(j) PROVE Named'
  BY <1>2, <1>5, Unlinks DEF Named
<1>6. CASE ~\E j \in Job : Unlink(j) \/ OpenBundle(j) \/ CloseBundle(j)
  <2>1. UNCHANGED files
    BY <1>6, NextCases
    DEF Compile, Step, CreateJob, Submit, Start, AcquireLock, FindReusable, MarkReady, FindStale,
        NextRevision, HashFails, Commit, Unlock, StatementFails, ReleaseLock, MarkFailed, Fault,
        EmitFails, StartFails, StepFails, MarkFailedRaises, Progress, Drop, Crash, vars
  <2>2. QED  BY <1>2, <2>1 DEF Named
<1>7. QED  BY <1>3, <1>4, <1>5, <1>6

\* A job is about to commit because it was, or has just closed its file.
LEMMA ComesToCommit ==
  ASSUME TypeInv, [Next]_vars, NEW j \in Job, pc'[j] = "commit", alive'[j], ~CloseBundle(j)
  PROVE  pc[j] = "commit" /\ alive[j] /\ NameOf(j)' = NameOf(j)
<1> DEFINE Goal == /\ pc[j] = "commit" /\ alive[j]
                   /\ members'[j] = members[j] /\ revision'[j] = revision[j]
<1> USE DEF TypeInv, TypeOK, Goto, links, plan
<1>1. ASSUME NEW k \in Job, NEW v \in Variant, NEW f \in BOOLEAN, Compile(k, v, f) PROVE Goal
  BY <1>1 DEF Compile
<1>2. ASSUME NEW k \in Job,
             \/ CreateJob(k) \/ Submit(k) \/ Start(k) \/ AcquireLock(k) \/ FindReusable(k)
             \/ MarkReady(k) \/ FindStale(k) \/ NextRevision(k)
      PROVE  Goal
  BY <1>2
  DEF CreateJob, Submit, Start, AcquireLock, FindReusable, MarkReady, FindStale, NextRevision
<1>3. ASSUME NEW k \in Job, Unlink(k) \/ OpenBundle(k) \/ HashFails(k) \/ Commit(k) PROVE Goal
  <2>1. PICK p \in {"open", "writing", "raise", "unlock"} : pc' = [pc EXCEPT ![k] = p]
    BY <1>3 DEF Unlink, OpenBundle, HashFails, Commit
  <2>2. UNCHANGED <<alive, members, revision>>
    BY <1>3 DEF Unlink, OpenBundle, HashFails, Commit
  <2>3. QED  BY <2>1, <2>2
<1>4. ASSUME NEW k \in Job, CloseBundle(k) PROVE Goal
  <2>1. pc' = [pc EXCEPT ![k] = "commit"] /\ UNCHANGED <<alive, members, revision>> /\ k # j
    BY <1>4 DEF CloseBundle
  <2>2. QED  BY <2>1
<1>5. ASSUME NEW k \in Job, Unlock(k) \/ StatementFails(k) \/ ReleaseLock(k) \/ MarkFailed(k)
      PROVE  Goal
  BY <1>5 DEF Unlock, StatementFails, ReleaseLock, MarkFailed
<1>6. ASSUME NEW k \in Job, Fault(k) \/ Progress(k) \/ Drop(k) PROVE Goal
  BY <1>6
  DEF Fault, EmitFails, StartFails, StepFails, MarkFailedRaises, Progress, Drop
<1>7. ASSUME Crash PROVE Goal  BY <1>7 DEF Crash
<1>8. ASSUME UNCHANGED vars PROVE Goal  BY <1>8 DEF vars
<1>9. Goal
  BY <1>1, <1>2, <1>3, <1>4, <1>5, <1>6, <1>7, <1>8, NextCases DEF Step
<1>10. QED  BY <1>9 DEF NameOf

LEMMA KeptStep == FilesInv /\ [Next]_vars => Kept'
<1> SUFFICES ASSUME FilesInv, [Next]_vars PROVE Kept'
  OBVIOUS
<1>1. ASSUME NEW r \in 1 .. Len(bundles), NEW n, n = FileName(r, bundles[r].members)
      PROVE  Accounted(n)'
  <2>1. bundles[r].members \in SUBSET Variant /\ r \in Revisions
    <3>1. bundles \in Seq(Bundle)  BY DEF FilesInv, TypeInv, TypeOK
    <3>2. bundles[r] \in Bundle /\ Len(bundles) \in Nat  BY <3>1
    <3>3. QED  BY <3>2 DEF Bundle, Revisions
  <2>2. n \in Files  BY <1>1, <2>1 DEF FileName, Files
  <2>3. ~\E j \in Job : Unlink(j) /\ NameOf(j) = n /\ j \notin dropped
    BY <1>1, HolderUnlinks
  <2>4. Accounted(n)  BY <1>1 DEF FilesInv, Kept
  <2>5. QED  BY <2>2, <2>3, <2>4, AccountedStays
<1>2. ASSUME NEW j \in Job, pc[j] = "commit", alive[j], NEW n, n = NameOf(j)
      PROVE  Accounted(n)'
  <2>1. n \in Files
    BY <1>2 DEF FilesInv, TypeInv, TypeOK, Underway, NameOf, FileName, Files
  <2>2. ~\E k \in Job : Unlink(k) /\ NameOf(k) = n /\ k \notin dropped
    BY <1>2, HolderUnlinks
  <2>3. Accounted(n)  BY <1>2 DEF FilesInv, Kept
  <2>4. QED  BY <2>1, <2>2, <2>3, AccountedStays
<1>3. ASSUME NEW r \in 1 .. Len(bundles') PROVE Accounted(FileName(r, bundles[r].members))'
  <2> PICK n : n = FileName(r, bundles'[r].members)
    OBVIOUS
  <2>1. CASE \E j \in Job : Commit(j)
    <3> PICK j \in Job : Commit(j)
      BY <2>1
    <3>1. /\ Len(bundles) \in Nat /\ Len(bundles') = Len(bundles) + 1
          /\ revision[j] = Len(bundles')
          /\ \A i \in 1 .. Len(bundles) : bundles'[i] = bundles[i]
          /\ bundles'[revision[j]].members = members[j]
      BY Commits DEF FilesInv, TypeInv, TypeOK
    <3>2. CASE r = Len(bundles')
      <4>1. n = NameOf(j)  BY <3>1, <3>2 DEF NameOf
      <4>2. pc[j] = "commit" /\ alive[j]  BY DEF Commit, Goto
      <4>3. Accounted(n)'  BY <1>2, <4>1, <4>2
      <4>4. QED  BY <4>3 DEF Accounted, Unlinked, FileName
    <3>3. CASE r # Len(bundles')
      <4>1. r \in 1 .. Len(bundles) /\ n = FileName(r, bundles[r].members)  BY <3>1, <3>3
      <4>2. Accounted(n)'  BY <1>1, <4>1
      <4>3. QED  BY <4>2 DEF Accounted, Unlinked, FileName
    <3>4. QED  BY <3>2, <3>3
  <2>2. CASE ~\E j \in Job : Commit(j)
    <3>1. UNCHANGED bundles
      BY <2>2, NextCases
      DEF Compile, Step, CreateJob, Submit, Start, AcquireLock, FindReusable, MarkReady,
          FindStale, NextRevision, Unlink, OpenBundle, CloseBundle, HashFails, Unlock,
          StatementFails, ReleaseLock, MarkFailed, Fault, EmitFails, StartFails, StepFails,
          MarkFailedRaises, Progress, Drop, Crash, vars, device
    <3>2. Accounted(n)'  BY <1>1, <3>1
    <3>3. QED  BY <3>2 DEF Accounted, Unlinked, FileName
  <2>3. QED  BY <2>1, <2>2
<1>4. ASSUME NEW j \in Job, pc'[j] = "commit", alive'[j] PROVE Accounted(NameOf(j))'
  <2>1. CASE CloseBundle(j)
    <3>1. NameOf(j)' = NameOf(j)  BY <2>1 DEF CloseBundle, NameOf
    <3>2. NameOf(j) \in DOMAIN files'  BY <2>1, Closes DEF FilesInv
    <3>3. QED  BY <3>1, <3>2 DEF Accounted
  <2>2. CASE ~CloseBundle(j)
    <3>1. pc[j] = "commit" /\ alive[j] /\ NameOf(j)' = NameOf(j)
      BY <1>4, <2>2, ComesToCommit DEF FilesInv
    <3>2. PICK n : n = NameOf(j)  OBVIOUS
    <3>3. Accounted(n)'  BY <1>2, <3>1, <3>2
    <3>4. QED  BY <3>1, <3>2, <3>3 DEF Accounted, Unlinked
  <2>3. QED  BY <2>1, <2>2
<1>5. QED  BY <1>3, <1>4 DEF Kept

LEMMA FilesStep == FilesInv /\ [Next]_vars => FilesInv'
BY TypeStep, LinkedStep, FreshStep, NamedStep, KeptStep DEF FilesInv

\* What is in the file of a bundle was written by jobs with the members its row
\* names, also when some of them have lost the lock; the file is gone only where one
\* that had lost its connection has unlinked it.
THEOREM FilesHold == Spec => []FilesHoldTheirMembers
<1>1. FilesInv => FilesHoldTheirMembers
  BY DEF FilesInv, Named, Kept, Accounted, Unlinked, FilesHoldTheirMembers, FileName
<1>2. QED  BY <1>1, FilesInit, FilesStep, PTL DEF Spec
===============================================================================
