-------------------------- MODULE RunnerPublishProofs --------------------------
(***************************************************************************)
(* Proofs about RunnerPublish, for every number of jobs, variants and      *)
(* images, with lost connections, crashes and upgrades, and with whatever  *)
(* the Build service does to the environment.                              *)
(***************************************************************************)
EXTENDS RunnerPublish, TLAPS

\* The steps of a job, apart from those that only move it on.
Changes(j) ==
  \/ Submit(j) \/ Start(j) \/ Resolve(j) \/ StreamAnswers(j) \/ Poll(j)
  \/ Lock(j) \/ Pack(j) \/ Mkdir(j) \/ PutArtifact(j) \/ PutMetadata(j)
  \/ MarkReady(j) \/ Unlock(j) \/ MarkFailed(j)

Moves(j) ==
  \/ ResolveRefused(j) \/ Deadline(j) \/ HttpFails(j)
  \/ CheckPasses(j) \/ CheckRefuses(j) \/ PackFails(j) \/ Look(j) \/ SaveExisting(j)
  \/ MkdirExists(j) \/ WriteFails(j) \/ Confirm(j)

LEMMA NextCases ==
  ASSUME [Next]_vars
  PROVE  \/ \E j \in Job : Changes(j) \/ Moves(j)
         \/ Drop \/ Crash \/ Elsewhere \/ UNCHANGED vars
BY DEF Next, Step, Fails, Changes, Moves

-----------------------------------------------------------------------------
(***************************************************************************)
(* Types                                                                   *)
(***************************************************************************)
\* The Build service names an image when it answers READY.
Ready == status = "READY" => image \in Image

\* A job writes into a directory that is there.
InPlace == \A j \in Job : pc[j] \in Writing => ReleaseOf(j) \in made

TypeInv == TypeOK /\ Ready /\ InPlace

LEMMA TypeInit == Init => TypeInv
BY ConstantsAssumption
DEF Init, Env!Init, TypeInv, TypeOK, Ready, InPlace, Guarded, Saving, Writing

LEMMA ReadyStep ==
  ASSUME Ready, Env!Next \/ UNCHANGED env
  PROVE  Ready'
BY DEF Ready, env, Env!Next, Env!Become, Env!Create, Env!Claim, Env!Push, Env!Succeed, Env!Fail,
       Env!Reset, Env!Retire, Env!Cancel, Env!Finish, Env!Reactivate

LEMMA TypeMoves ==
  ASSUME TypeInv, NEW j \in Job, Moves(j)
  PROVE  TypeInv'
<1> USE DEF TypeInv, TypeOK, Ready, InPlace, ReleaseOf, Move, Goto, env, job, catalog, Active,
            Guarded, Saving, Writing
<1>1. CASE ResolveRefused(j)  BY <1>1 DEF ResolveRefused
<1>2. CASE Deadline(j)  BY <1>2 DEF Deadline
<1>3. CASE HttpFails(j)  BY <1>3 DEF HttpFails
<1>4. CASE CheckPasses(j)  BY <1>4 DEF CheckPasses
<1>5. CASE CheckRefuses(j)  BY <1>5 DEF CheckRefuses
<1>6. CASE PackFails(j)  BY <1>6 DEF PackFails
<1>7. CASE Look(j)  BY <1>7 DEF Look
<1>8. CASE SaveExisting(j)  BY <1>8 DEF SaveExisting
<1>9. CASE MkdirExists(j)  BY <1>9 DEF MkdirExists
<1>10. CASE WriteFails(j)  BY <1>10 DEF WriteFails
<1>11. CASE Confirm(j)  BY <1>11 DEF Confirm
<1>12. QED
  BY <1>1, <1>2, <1>3, <1>4, <1>5, <1>6, <1>7, <1>8, <1>9, <1>10, <1>11 DEF Moves

LEMMA TypeChanges ==
  ASSUME TypeInv, NEW j \in Job, Changes(j)
  PROVE  TypeInv'
<1>0. Ready'
  BY ReadyStep
  DEF TypeInv, Changes, Submit, Start, Resolve, StreamAnswers, Poll, Terminal, Move, Lock, Pack,
      Mkdir, PutArtifact, PutMetadata, MarkReady, Unlock, MarkFailed, Env!Next, env
<1>r. pc[j] \in Guarded => ReleaseOf(j) \in Release
  BY ConstantsAssumption DEF TypeInv, TypeOK, ReleaseOf, Release
<1> USE <1>0, ConstantsAssumption
    DEF TypeInv, TypeOK, InPlace, ReleaseOf, Move, Goto, job, catalog, Active, Guarded, Saving,
        Writing
<1>1. CASE Submit(j)  BY <1>1 DEF Submit
<1>2. CASE Start(j)  BY <1>2 DEF Start
<1>3. CASE Resolve(j)  BY <1>3 DEF Resolve
<1>4. CASE StreamAnswers(j)  BY <1>4 DEF StreamAnswers, Terminal, Ready
<1>5. CASE Poll(j)  BY <1>5 DEF Poll, Terminal, Ready
<1>6. CASE Lock(j)  BY <1>6 DEF Lock
<1>7. CASE Pack(j)  BY <1>7 DEF Pack
<1>8. CASE Mkdir(j)  BY <1>8, <1>r DEF Mkdir
<1>9. CASE PutArtifact(j)  BY <1>9, <1>r DEF PutArtifact
<1>10. CASE PutMetadata(j)  BY <1>10, <1>r DEF PutMetadata
<1>11. CASE MarkReady(j)  BY <1>11, <1>r DEF MarkReady
<1>12. CASE Unlock(j)  BY <1>12 DEF Unlock
<1>13. CASE MarkFailed(j)  BY <1>13 DEF MarkFailed
<1>14. QED
  BY <1>1, <1>2, <1>3, <1>4, <1>5, <1>6, <1>7, <1>8, <1>9, <1>10, <1>11, <1>12, <1>13
  DEF Changes

LEMMA TypeStep == TypeInv /\ [Next]_vars => TypeInv'
<1> SUFFICES ASSUME TypeInv, [Next]_vars PROVE TypeInv'
  OBVIOUS
<1>1. CASE Drop
  BY <1>1 DEF Drop, TypeInv, TypeOK, Ready, InPlace, ReleaseOf, env, job, catalog
<1>2. CASE Crash
  BY <1>2
  DEF Crash, TypeInv, TypeOK, Ready, InPlace, ReleaseOf, env, job, catalog, Active, Guarded,
      Saving, Writing
<1>3. CASE Elsewhere
  BY <1>3, ReadyStep
  DEF Elsewhere, TypeInv, TypeOK, InPlace, ReleaseOf, job, catalog
<1>4. CASE UNCHANGED vars
  BY <1>4 DEF vars, TypeInv, TypeOK, Ready, InPlace, ReleaseOf, env, job, catalog
<1>5. QED  BY <1>1, <1>2, <1>3, <1>4, NextCases, TypeMoves, TypeChanges

\* The types of the jobs, their variants and the catalog; the advisory lock is
\* held by a job that is inside the guard.
THEOREM TypeCorrect == Spec => []TypeOK
<1>1. TypeInv => TypeOK  BY DEF TypeInv
<1>2. QED  BY <1>1, TypeInit, TypeStep, PTL DEF Spec

-----------------------------------------------------------------------------
(***************************************************************************)
(* Releases.  A job writes into a release that had no directory, so that   *)
(* no other job does, and puts the metadata last: what has metadata is     *)
(* complete, and stays as it is.                                           *)
(***************************************************************************)
Undertaken ==
  \A j \in Job :
    /\ pc[j] \in Saving \cup {"again", "ready", "unlock"} => packed[j] \in Bits
    /\ pc[j] = "artifact" => artifact[ReleaseOf(j)] = None /\ metadata[ReleaseOf(j)] = None
    /\ pc[j] = "metadata" => artifact[ReleaseOf(j)] = packed[j] /\ metadata[ReleaseOf(j)] = None
    /\ pc[j] \in {"confirm", "again", "ready", "unlock"} => metadata[ReleaseOf(j)] = packed[j]

Complete == \A r \in Release : metadata[r] # None => artifact[r] = metadata[r]

Published ==
  /\ \A v \in Variant : ref[v] # None => metadata[ref[v]] # None
  /\ \A j \in Job : jobStatus[j] = "READY" =>
       /\ pc[j] \in {"unlock", "fail", "done", "dead"}
       /\ answer[j] \in Image
       /\ packed[j] \in Bits
       /\ metadata[ReleaseOf(j)] = packed[j]

ReleaseInv == TypeInv /\ Undertaken /\ OneWriter /\ Complete /\ Published

LEMMA ReleaseInit == Init => ReleaseInv
BY TypeInit DEF Init, ReleaseInv, Undertaken, OneWriter, Complete, Published, Saving, Writing

LEMMA ReleaseMoves ==
  ASSUME ReleaseInv, NEW j \in Job, Moves(j)
  PROVE  Undertaken' /\ OneWriter' /\ Complete' /\ Published'
<1>1. UNCHANGED <<job, catalog>>
  BY DEF Moves, ResolveRefused, Deadline, HttpFails, CheckPasses, CheckRefuses, PackFails, Look,
         SaveExisting, MkdirExists, WriteFails, Confirm, Move
<1>2. /\ pc'[j] \notin Writing
      /\ pc[j] \notin {"unlock", "fail", "done", "dead"}
      /\ \A k \in Job \ {j} : pc'[k] = pc[k]
  BY DEF ReleaseInv, TypeInv, TypeOK, Moves, ResolveRefused, Deadline, HttpFails, CheckPasses,
         CheckRefuses, PackFails, Look, SaveExisting, MkdirExists, WriteFails, Confirm, Move,
         Goto, Writing
<1>3. pc'[j] \in Saving \cup {"again", "ready", "unlock"} => packed[j] \in Bits
  BY DEF ReleaseInv, TypeInv, TypeOK, Undertaken, Moves, ResolveRefused, Deadline, HttpFails,
         CheckPasses, CheckRefuses, PackFails, Look, SaveExisting, MkdirExists, WriteFails,
         Confirm, Move, Goto, Saving, Writing
<1>4. pc'[j] \in {"confirm", "again", "ready", "unlock"} => metadata[ReleaseOf(j)] = packed[j]
  BY DEF ReleaseInv, TypeInv, TypeOK, Undertaken, Moves, ResolveRefused, Deadline, HttpFails,
         CheckPasses, CheckRefuses, PackFails, Look, SaveExisting, SameBits, MkdirExists,
         WriteFails, Confirm, Move, Goto, Writing
<1>5. \A k \in Job : ReleaseOf(k)' = ReleaseOf(k)  BY <1>1 DEF ReleaseOf, job
<1>6. Undertaken'
  BY <1>1, <1>2, <1>3, <1>4, <1>5 DEF ReleaseInv, Undertaken, Writing, job, catalog
<1>7. OneWriter'  BY <1>2, <1>5 DEF ReleaseInv, OneWriter
<1>8. Complete' /\ Published'
  BY <1>1, <1>2, <1>5 DEF ReleaseInv, Complete, Published, job, catalog
<1>9. QED  BY <1>6, <1>7, <1>8

\* An answer of the Build service changes nothing but its job, which has not
\* packed anything yet.
LEMMA ReleaseAnswers ==
  ASSUME ReleaseInv, NEW j \in Job, StreamAnswers(j) \/ Poll(j)
  PROVE  Undertaken' /\ OneWriter' /\ Complete' /\ Published'
<1>1. UNCHANGED <<packed, jobStatus, ref, catalog>>
  BY DEF StreamAnswers, Poll, Terminal, Move, job
<1>2. pc[j] \in {"stream", "wait"} /\ pc'[j] \in {"wait", "guard", "fail"}
  BY DEF ReleaseInv, TypeInv, TypeOK, StreamAnswers, Poll, Terminal, Move, Goto
<1>3. \A k \in Job \ {j} : pc'[k] = pc[k] /\ answer'[k] = answer[k]
  BY DEF ReleaseInv, TypeInv, TypeOK, StreamAnswers, Poll, Terminal, Move, Goto, job
<1>4. \A k \in Job \ {j} : ReleaseOf(k)' = ReleaseOf(k)  BY <1>3 DEF ReleaseOf
<1>5. jobStatus[j] # "READY"  BY <1>2 DEF ReleaseInv, Published
<1>6. Undertaken'
  BY <1>1, <1>2, <1>3, <1>4 DEF ReleaseInv, Undertaken, Saving, Writing, catalog
<1>7. OneWriter'  BY <1>2, <1>3, <1>4 DEF ReleaseInv, OneWriter, Writing
<1>8. Complete'  BY <1>1 DEF ReleaseInv, Complete, catalog
<1>9. Published'  BY <1>1, <1>3, <1>4, <1>5 DEF ReleaseInv, Published, catalog
<1>10. QED  BY <1>6, <1>7, <1>8, <1>9

LEMMA ReleaseChanges ==
  ASSUME ReleaseInv, NEW j \in Job, Changes(j)
  PROVE  Undertaken' /\ OneWriter' /\ Complete' /\ Published'
<1>r. \A k \in Job : pc[k] \in Guarded => ReleaseOf(k) \in Release
  BY ConstantsAssumption DEF ReleaseInv, TypeInv, TypeOK, ReleaseOf, Release
<1>1. CASE StreamAnswers(j)  BY <1>1, ReleaseAnswers
<1>2. CASE Poll(j)  BY <1>2, ReleaseAnswers
<1> USE ConstantsAssumption
    DEF ReleaseInv, TypeInv, TypeOK, InPlace, Undertaken, OneWriter, Complete, Published, ReleaseOf,
        Move, Goto, job, catalog, Active, Guarded, Saving, Writing
<1>3. CASE Submit(j)  BY <1>3 DEF Submit
<1>4. CASE Start(j)  BY <1>4 DEF Start
<1>5. CASE Resolve(j)  BY <1>5 DEF Resolve
<1>6. CASE Lock(j)  BY <1>6 DEF Lock
<1>7. CASE Pack(j)  BY <1>7 DEF Pack
<1>8. CASE Mkdir(j)  BY <1>8, <1>r DEF Mkdir
<1>9. CASE PutArtifact(j)  BY <1>9, <1>r DEF PutArtifact
<1>10. CASE PutMetadata(j)  BY <1>10, <1>r DEF PutMetadata
<1>11. CASE MarkReady(j)  BY <1>11, <1>r DEF MarkReady
<1>12. CASE Unlock(j)  BY <1>12 DEF Unlock
<1>13. CASE MarkFailed(j)  BY <1>13 DEF MarkFailed
<1>14. QED
  BY <1>1, <1>2, <1>3, <1>4, <1>5, <1>6, <1>7, <1>8, <1>9, <1>10, <1>11, <1>12, <1>13
  DEF Changes

LEMMA ReleaseStep == ReleaseInv /\ [Next]_vars => ReleaseInv'
<1> SUFFICES ASSUME ReleaseInv, [Next]_vars PROVE ReleaseInv'
  OBVIOUS
<1>1. TypeInv'  BY TypeStep DEF ReleaseInv
<1> USE DEF ReleaseInv, Undertaken, OneWriter, Complete, Published, ReleaseOf, job, catalog
<1>2. CASE Drop  BY <1>1, <1>2 DEF Drop
<1>3. CASE Crash  BY <1>1, <1>3 DEF Crash, TypeInv, TypeOK, Saving, Writing
<1>4. CASE Elsewhere  BY <1>1, <1>4 DEF Elsewhere
<1>5. CASE UNCHANGED vars  BY <1>1, <1>5 DEF vars
<1>6. QED  BY <1>1, <1>2, <1>3, <1>4, <1>5, NextCases, ReleaseMoves, ReleaseChanges

LEMMA Releases == Spec => []ReleaseInv
BY ReleaseInit, ReleaseStep, PTL DEF Spec

\* A published variant refers to a complete release, whichever attempts have
\* failed or died half-way.
THEOREM Readables == Spec => []PublishedIsReadable
<1>1. ReleaseInv => PublishedIsReadable
  BY DEF ReleaseInv, TypeInv, TypeOK, Complete, Published, PublishedIsReadable, Readable
<1>2. QED  BY <1>1, Releases, PTL

\* A READY job's release holds the bits the job packed.
THEOREM JobsPublishedTheirBits == Spec => []JobPublishedItsBits
<1>1. ReleaseInv => JobPublishedItsBits
  <2> SUFFICES ASSUME ReleaseInv, NEW j \in Job, jobStatus[j] = "READY"
               PROVE  artifact[ReleaseOf(j)] = packed[j]
    BY DEF JobPublishedItsBits
  <2>1. answer[j] \in Image /\ packed[j] \in Bits /\ metadata[ReleaseOf(j)] = packed[j]
    BY DEF ReleaseInv, Published
  <2>2. ReleaseOf(j) \in Release  BY <2>1, ConstantsAssumption DEF ReleaseOf, Release
  <2>3. QED  BY <2>1, <2>2, ConstantsAssumption DEF ReleaseInv, Complete
<1>2. QED  BY <1>1, Releases, PTL

\* Catalog.save lets one job write into a release, also without the lock.
THEOREM WritesAlone == Spec => []OneWriter
<1>1. ReleaseInv => OneWriter  BY DEF ReleaseInv
<1>2. QED  BY <1>1, Releases, PTL
=============================================================================
