------------------------- MODULE RuntimeCleanupProofs -------------------------
(***************************************************************************)
(* Proofs about RuntimeCleanup, for every number of images, of publishers  *)
(* and of threads that may execute the request.                            *)
(***************************************************************************)
EXTENDS RuntimeCleanup, TLAPS

\* What a thread of execute does, and what the Build service does for it.
Coordinates(x) ==
  \/ Start(x) \/ PreviewPasses(x) \/ PlanPasses(x) \/ Blocked(x)
  \/ RetireBuild(x) \/ RetirePublish(x) \/ RetireRunner(x) \/ RunnerNotDrained(x)
  \/ AskDeletion(x) \/ DeletionRefused(x)
  \/ FinalizeRunner(x) \/ FinalizeRunnerRefused(x) \/ FinalizePublish(x)
  \/ UndoGate(x) \/ CallLost(x) \/ DeletionLost(x)

Serves(x) == HarborDeletes(x) \/ HarborFails(x) \/ FinalizeBuild(x)

Publishes(p) == Resolve(p) \/ Publish(p) \/ Drop(p)

Uses(i) == Supersede(i) \/ RunStarts(i) \/ RunEnds(i)

LEMMA NextCases ==
  ASSUME [Next]_vars
  PROVE  \/ \E x \in Exec : Coordinates(x) \/ Serves(x)
         \/ \E c \in Calls \X Image : LateCall(c)
         \/ \E p \in Publisher : Publishes(p)
         \/ \E i \in Image : Rebuild(i) \/ Uses(i)
         \/ UNCHANGED vars
BY DEF Next, Execute, Coordinates, Serves, Publishes, Uses

-----------------------------------------------------------------------------
(***************************************************************************)
(* Types                                                                   *)
(***************************************************************************)
\* A publication has put its release into the catalog.
Catalogued ==
  \A p \in Publisher : job[p] \in {"released", "checked"} => runtime[p] \in catalog

\* Whoever holds the lock keeps the gate as he has seen it, and only a broken
\* connection takes the lock from a publication.
Locking ==
  /\ \A p \in Publisher : lock = p /\ job[p] \in Guarded => gate = "open"
  /\ ~Drops => \A p \in Publisher : job[p] \in Guarded => lock = p
  /\ LockKeepsOut

TypeInv == TypeOK /\ Catalogued /\ Locking

LEMMA TypeInit == Init => TypeInv
<1> SUFFICES ASSUME Init PROVE TypeInv
  OBVIOUS
<1>1. Catalogued  BY DEF Init, Catalogued
<1>2. /\ \A p \in Publisher : lock # p /\ job[p] \notin Guarded
      /\ Locking
  BY ConstantsAssumption DEF Init, Guarded, Locking, LockKeepsOut
<1>3. \A x \in Exec : xpc[x] = "out" /\ serving[x] = "idle"
  BY DEF Init
<1>4. QED
  BY <1>1, <1>2, <1>3, ConstantsAssumption DEF Init, TypeInv, TypeOK, Calls

\* A call changes one gate, to a state a gate has.
LEMMA PerformType ==
  ASSUME TypeOK, NEW call, NEW i \in Image, Perform(call, i)
  PROVE  /\ life' \in {"ACTIVE", "RETIRING", "RETIRED"}
         /\ gate' \in {"open", "RETIRING", "RETIRED"}
         /\ runner' \in [Image -> {"ACTIVE", "RETIRING", "RETIRED"}]
         /\ lock # None => gate' = gate
BY DEF TypeOK, Perform, BuildRetire, BuildCancel, PublishBegin, PublishCancel, PublishFinalize,
       RunnerBegin, RunnerCancel, RunnerFinalize, Free

\* The types of what belongs to the executions.
ExecTypes ==
  /\ xpc \in [Exec -> Calls \cup {"out", "preview", "plan", "await"}]
  /\ ref \in [Exec -> Image \cup {None}]
  /\ found \in [Exec -> {"none", "RETIRING", "RETIRED"}]
  /\ started \in [Exec -> SUBSET {"build", "publish", "runner"}]
  /\ serving \in [Exec -> {"idle", "harbor", "finalize"}]
  /\ \A x \in Exec : xpc[x] \in Calls \cup {"await"} \/ serving[x] # "idle" => ref[x] # None

\* The types of what belongs to the services.
OwnerTypes ==
  /\ life \in {"ACTIVE", "RETIRING", "RETIRED"}
  /\ image \in Image
  /\ registry \subseteq Image
  /\ gate \in {"open", "RETIRING", "RETIRED"}
  /\ lock \in Publisher \cup {None}
  /\ published \subseteq catalog /\ catalog \subseteq Image
  /\ job \in [Publisher -> {"out", "resolved", "guarded", "released", "checked"}]
  /\ runtime \in [Publisher -> Image \cup {None}]
  /\ runner \in [Image -> {"ACTIVE", "RETIRING", "RETIRED"}]
  /\ running \subseteq Image
  /\ late \subseteq Calls \X Image
  /\ abandoned \subseteq Image
  /\ behind \in BOOLEAN
  /\ \A p \in Publisher : lock = p => job[p] \in Guarded
  /\ \A p \in Publisher : job[p] # "out" <=> runtime[p] # None
  /\ Catalogued /\ Locking

LEMMA TypeParts ==
  /\ TypeInv <=> ExecTypes /\ OwnerTypes
  /\ TypeInv' <=> ExecTypes' /\ OwnerTypes'
BY DEF TypeInv, TypeOK, ExecTypes, OwnerTypes

\* execute returns, in a step that starts no deletion.
LEMMA OverType ==
  ASSUME TypeOK, NEW x \in Exec, Over(x), serving' = serving
  PROVE  ExecTypes'
BY DEF TypeOK, ExecTypes, Over, Calls

LEMMA RollbackType ==
  ASSUME TypeOK, NEW x \in Exec, xpc[x] \in Calls \cup {"await"},
         NEW g \in SUBSET {"build", "publish", "runner"}, Rollback(x, g),
         serving' = serving \/ serving' = [serving EXCEPT ![x] = "idle"]
  PROVE  ExecTypes'
<1> USE DEF TypeOK, ExecTypes, Calls
<1>1. CASE g = {}  BY <1>1 DEF Rollback, Over
<1>2. CASE g # {}
  <2>1. Undo(g) \in {"runner.cancel", "publish.cancel", "build.cancel"}
    BY <1>2 DEF Undo
  <2>2. /\ xpc' = [xpc EXCEPT ![x] = Undo(g)]
        /\ started' = [started EXCEPT ![x] = g]
        /\ ref' = ref /\ found' = found
    BY <1>2 DEF Rollback
  <2>3. xpc' \in [Exec -> Calls \cup {"out", "preview", "plan", "await"}]
    BY <2>1, <2>2
  <2>4. serving' \in [Exec -> {"idle", "harbor", "finalize"}]
    OBVIOUS
  <2>5. ASSUME NEW y \in Exec, xpc'[y] \in Calls \cup {"await"} \/ serving'[y] # "idle"
        PROVE  xpc[y] \in Calls \cup {"await"} \/ serving[y] # "idle"
    BY <2>2, <2>5
  <2>6. QED  BY <2>2, <2>3, <2>4, <2>5
<1>3. QED  BY <1>1, <1>2

LEMMA TypeCoordinates ==
  ASSUME TypeInv, NEW x \in Exec, Coordinates(x)
  PROVE  TypeInv'
<1>1. ExecTypes /\ OwnerTypes /\ TypeOK
  BY TypeParts DEF TypeInv
<1>2. ASSUME UNCHANGED <<build, pub, run>>,
             late' \subseteq Calls \X Image, abandoned' \subseteq Image
      PROVE  OwnerTypes'
  BY <1>1, <1>2 DEF OwnerTypes, Catalogued, Locking, LockKeepsOut, build, pub, run
<1>3. ASSUME NEW c, xpc[x] = c, c \in Calls, Perform(c, ref[x]), UNCHANGED <<Others, gone>>
      PROVE  OwnerTypes'
  <2>1. ref[x] \in Image  BY <1>1, <1>3 DEF ExecTypes
  <2>2. QED
    BY <1>1, <1>3, <2>1, PerformType, ConstantsAssumption
    DEF OwnerTypes, Catalogued, Locking, LockKeepsOut, Others, gone
<1>4. CASE Start(x)
  BY <1>1, <1>2, <1>4, TypeParts DEF Start, Enter, coord, gone, ExecTypes, OwnerTypes, Calls
<1>5. CASE PreviewPasses(x)
  BY <1>1, <1>2, <1>5, TypeParts
  DEF PreviewPasses, Enter, coord, gone, ExecTypes, OwnerTypes, Calls
<1>6. CASE PlanPasses(x)
  <2>1. OwnerTypes'  BY <1>1, <1>2, <1>6 DEF PlanPasses, gone, OwnerTypes
  <2>2. image \in Image /\ None \notin Image  BY <1>1, ConstantsAssumption DEF OwnerTypes
  <2>3. ExecTypes'
    BY <1>1, <1>6, <2>2 DEF PlanPasses, Enter, ExecTypes, Calls
  <2>4. QED  BY <2>1, <2>3, TypeParts
<1>7. CASE Blocked(x)
  BY <1>1, <1>2, <1>7, OverType, TypeParts DEF Blocked, gone, OwnerTypes
<1>8. CASE RetireBuild(x)
  <2>1. OwnerTypes'  BY <1>3, <1>8 DEF RetireBuild, Call, Calls, gone
  <2>2. life' \in {"RETIRING", "RETIRED"}
    BY <1>1, <1>8 DEF RetireBuild, Call, Perform, BuildRetire, OwnerTypes
  <2>3. ExecTypes'
    BY <1>1, <1>8, <2>2 DEF RetireBuild, Call, ExecTypes, Calls, Others
  <2>4. QED  BY <2>1, <2>3, TypeParts
<1>9. CASE RetirePublish(x)
  <2>1. OwnerTypes'  BY <1>3, <1>9 DEF RetirePublish, Call, Calls, gone
  <2>2. Undo({"build", "publish"}) = "publish.cancel"  BY DEF Undo
  <2>3. ExecTypes'
    BY <1>1, <1>9, <2>2 DEF RetirePublish, Call, ExecTypes, Calls, Others
  <2>4. QED  BY <2>1, <2>3, TypeParts
<1>10. CASE RetireRunner(x)
  <2>1. OwnerTypes'  BY <1>3, <1>10 DEF RetireRunner, Call, Calls, gone
  <2>2. ExecTypes'
    BY <1>1, <1>10 DEF RetireRunner, Call, ExecTypes, Calls, Others
  <2>3. QED  BY <2>1, <2>2, TypeParts
<1>11. CASE RunnerNotDrained(x)
  <2>1. OwnerTypes'  BY <1>3, <1>11 DEF RunnerNotDrained, Calls
  <2>2. QED  BY <1>1, <1>11, <2>1, OverType, TypeParts DEF RunnerNotDrained, Others
<1>12. CASE AskDeletion(x)
  <2>1. ref[x] # None  BY <1>1, <1>12 DEF AskDeletion, ExecTypes, Calls
  <2>2. QED
    BY <1>1, <1>2, <1>12, <2>1, TypeParts
    DEF AskDeletion, coord, gone, ExecTypes, OwnerTypes, Calls
<1>13. CASE DeletionRefused(x)
  BY <1>1, <1>2, <1>13, RollbackType, TypeParts
  DEF DeletionRefused, gone, ExecTypes, OwnerTypes, Calls
<1>14. CASE FinalizeRunner(x)
  <2>1. OwnerTypes'  BY <1>3, <1>14 DEF FinalizeRunner, Call, Calls, gone
  <2>2. ExecTypes'
    BY <1>1, <1>14 DEF FinalizeRunner, Call, ExecTypes, Calls, Others
  <2>3. QED  BY <2>1, <2>2, TypeParts
<1>15. CASE FinalizeRunnerRefused(x)
  BY <1>1, <1>2, <1>15, OverType, TypeParts DEF FinalizeRunnerRefused, gone, OwnerTypes
<1>16. CASE FinalizePublish(x)
  <2>1. OwnerTypes'  BY <1>3, <1>16 DEF FinalizePublish, Calls
  <2>2. QED  BY <1>1, <1>16, <2>1, OverType, TypeParts DEF FinalizePublish, Others
<1>17. CASE UndoGate(x)
  <2>1. PICK c \in {<<"runner.cancel", "runner">>, <<"publish.cancel", "publish">>,
                    <<"build.cancel", "build">>} :
          xpc[x] = c[1] /\ Perform(c[1], ref[x]) /\ Rollback(x, started[x] \ {c[2]})
    BY <1>17 DEF UndoGate
  <2>2. OwnerTypes'  BY <1>3, <1>17, <2>1 DEF UndoGate, Calls
  <2>3. ExecTypes'
    BY <1>1, <1>17, <2>1, RollbackType DEF UndoGate, Others, ExecTypes, Calls
  <2>4. QED  BY <2>2, <2>3, TypeParts
<1>18. CASE CallLost(x)
  <2>1. xpc[x] \in Calls /\ ref[x] \in Image
    BY <1>1, <1>18, ConstantsAssumption DEF CallLost, ExecTypes
  <2>2. OwnerTypes'
    BY <1>1, <1>2, <1>18, <2>1 DEF CallLost, OwnerTypes
  <2>3. Over(x) \/ \E g \in SUBSET {"build", "publish", "runner"} : Rollback(x, g)
    BY <1>1, <1>18 DEF CallLost, ExecTypes
  <2>4. ExecTypes'
    BY <1>1, <1>18, <2>1, <2>3, OverType, RollbackType DEF CallLost
  <2>5. QED  BY <2>2, <2>4, TypeParts
<1>19. CASE DeletionLost(x)
  <2>1. ref[x] \in Image  BY <1>1, <1>19 DEF DeletionLost, ExecTypes
  <2>2. OwnerTypes'  BY <1>1, <1>2, <1>19, <2>1 DEF DeletionLost, OwnerTypes
  <2>3. ExecTypes'  BY <1>1, <1>19, RollbackType DEF DeletionLost, ExecTypes
  <2>4. QED  BY <2>2, <2>3, TypeParts
<1>20. QED
  BY <1>4, <1>5, <1>6, <1>7, <1>8, <1>9, <1>10, <1>11, <1>12, <1>13, <1>14, <1>15, <1>16,
     <1>17, <1>18, <1>19
  DEF Coordinates

LEMMA TypeServes ==
  ASSUME TypeInv, NEW x \in Exec, Serves(x)
  PROVE  TypeInv'
<1>1. ExecTypes /\ OwnerTypes  BY TypeParts
<1>2. CASE HarborDeletes(x)
  BY <1>1, <1>2, TypeParts
  DEF HarborDeletes, pub, run, coord, gone, ExecTypes, OwnerTypes, Catalogued, Locking, LockKeepsOut
<1>3. CASE HarborFails(x)
  <2>1. OwnerTypes'
    BY <1>1, <1>3 DEF HarborFails, pub, run, OwnerTypes, Catalogued, Locking, LockKeepsOut
  <2>2. CASE xpc[x] = "await"
    BY <1>1, <1>3, <2>1, <2>2, RollbackType, TypeParts DEF HarborFails, ExecTypes, TypeInv
  <2>3. CASE xpc[x] # "await"
    BY <1>1, <1>3, <2>1, <2>3, TypeParts DEF HarborFails, coord, ExecTypes
  <2>4. QED  BY <2>2, <2>3
<1>4. CASE FinalizeBuild(x)
  <2>1. OwnerTypes'
    BY <1>1, <1>4 DEF FinalizeBuild, pub, run, gone, OwnerTypes, Catalogued, Locking, LockKeepsOut
  <2>2. ExecTypes'
    BY <1>1, <1>4 DEF FinalizeBuild, coord, ExecTypes, Calls
  <2>3. QED  BY <2>1, <2>2, TypeParts
<1>5. QED  BY <1>2, <1>3, <1>4 DEF Serves

LEMMA TypeLate ==
  ASSUME TypeInv, NEW c \in Calls \X Image, LateCall(c)
  PROVE  TypeInv'
<1>1. ExecTypes /\ OwnerTypes  BY TypeParts
<1>2. c[2] \in Image  OBVIOUS
<1>3. /\ life' \in {"ACTIVE", "RETIRING", "RETIRED"}
      /\ gate' \in {"open", "RETIRING", "RETIRED"}
      /\ runner' \in [Image -> {"ACTIVE", "RETIRING", "RETIRED"}]
      /\ lock # None => gate' = gate
  BY <1>1, <1>2, PerformType DEF LateCall, TypeInv, OwnerTypes
<1>4. OwnerTypes'  BY <1>1, <1>3, ConstantsAssumption DEF LateCall, Others, OwnerTypes, Catalogued, Locking, LockKeepsOut
<1>5. ExecTypes'  BY <1>1 DEF LateCall, Others, coord, ExecTypes
<1>6. QED  BY <1>4, <1>5, TypeParts

LEMMA TypePublishes ==
  ASSUME TypeInv, NEW p \in Publisher, Publishes(p)
  PROVE  TypeInv'
<1>1. ExecTypes /\ OwnerTypes  BY TypeParts
<1>2. ExecTypes'
  BY <1>1
  DEF Publishes, Publish, Resolve, Guard, GuardRefuses, Release, Drop, AssertActive,
      MarkJobReady, PublishFails, coord, ExecTypes
<1> SUFFICES OwnerTypes'
  BY <1>2, TypeParts
<1> USE <1>1, ConstantsAssumption
    DEF OwnerTypes, Catalogued, Locking, LockKeepsOut, Guarded, Job, build, run, gone
<1>3. CASE Resolve(p)  BY <1>3 DEF Resolve
<1>4. CASE Guard(p)  BY <1>4 DEF Guard, Free
<1>5. CASE GuardRefuses(p)  BY <1>5 DEF GuardRefuses
<1>6. CASE Release(p)  BY <1>6 DEF Release
<1>7. CASE MarkJobReady(p)  BY <1>7 DEF MarkJobReady, Unlock
<1>8. CASE PublishFails(p)  BY <1>8 DEF PublishFails, Unlock
<1>9. CASE Drop(p)  BY <1>9 DEF Drop
<1>10. CASE AssertActive(p)  BY <1>10 DEF AssertActive
<1>11. QED
  BY <1>3, <1>4, <1>5, <1>6, <1>7, <1>8, <1>9, <1>10 DEF Publishes, Publish

LEMMA TypeImages ==
  ASSUME TypeInv, NEW i \in Image, Rebuild(i) \/ Uses(i)
  PROVE  TypeInv'
<1>1. ExecTypes /\ OwnerTypes  BY TypeParts
<1>2. ExecTypes'
  BY <1>1 DEF Rebuild, Uses, Supersede, RunStarts, RunEnds, coord, ExecTypes
<1>3. OwnerTypes'
  <2>1. CASE Rebuild(i)
    BY <1>1, <2>1 DEF Rebuild, run, OwnerTypes, Catalogued, Locking, LockKeepsOut
  <2>2. CASE Uses(i)
    BY <1>1, <2>2
    DEF Uses, Supersede, RunStarts, RunEnds, build, pub, run, gone, OwnerTypes, Catalogued,
        Locking, LockKeepsOut
  <2>3. QED  BY <2>1, <2>2
<1>4. QED  BY <1>2, <1>3, TypeParts

LEMMA TypeStep == TypeInv /\ [Next]_vars => TypeInv'
<1> SUFFICES ASSUME TypeInv, [Next]_vars PROVE TypeInv'
  OBVIOUS
<1>1. CASE UNCHANGED vars
  BY <1>1 DEF vars, build, pub, run, coord, gone, TypeInv, TypeOK, Catalogued, Locking, LockKeepsOut
<1>2. QED
  BY <1>1, NextCases, TypeCoordinates, TypeServes, TypeLate, TypePublishes, TypeImages

LEMMA Typing == Spec => []TypeInv
BY TypeInit, TypeStep, PTL DEF Spec

\* The advisory lock belongs to a publication that has asked for it, the image_ref
\* of an execution is known before its first call, whichever calls time out.
THEOREM TypeCorrect == Spec => []TypeOK
<1>1. TypeInv => TypeOK  BY DEF TypeInv
<1>2. QED  BY <1>1, Typing, PTL

\* While no connection that holds the advisory lock breaks, no variant is recorded
\* behind a closed gate: the gate looked at under the lock is the gate at the
\* commit, however many publications and cleanups there are.
THEOREM NothingSlipsIn == Spec => []LockKeepsOut
<1>1. TypeInv => LockKeepsOut  BY DEF TypeInv, Locking
<1>2. QED  BY <1>1, Typing, PTL

-----------------------------------------------------------------------------
(***************************************************************************)
(* The gates stay closed.  Two executions of one request at a time undo    *)
(* each other's gates, and so does a lost answer of the calls that reopen  *)
(* a gate or close the last one: the theorems exclude them.                *)
(***************************************************************************)
Busy(x) == xpc[x] # "out" \/ serving[x] # "idle"

OneAtATime == \A x, y \in Exec : Busy(x) /\ Busy(y) => x = y

Undoing == {"runner.cancel", "publish.cancel", "build.cancel"}

GateCallsAnswered == LostCalls \cap (Undoing \cup {"runner.retire"}) = {}

\* The image of the environment has been deleted, and the coordinator knows.
Deleted == image \notin registry \cup abandoned

\* No publication has slipped in behind the gate either.
Gone == Deleted /\ ~behind

\* Nothing refers to the environment, or only what slipped in behind the gate.
Vacant == published = {} \/ behind

\* Nobody runs from i, and nobody can begin to.
Stopped(i) == runner[i] # "ACTIVE" /\ i \notin running

\* Nor can anybody publish on it in order.
Sealed(i) == gate # "open" /\ Stopped(i)

\* A deletion that nobody waits for is one that has timed out.
Awaited ==
  \A x \in Exec :
    /\ xpc[x] = "await" => serving[x] # "idle"
    /\ serving[x] # "idle" =>
         xpc[x] = "await" \/ (xpc[x] \in Undoing \cup {"out"} /\ ref[x] \in abandoned)

\* What an execution has closed before it asks for the deletion, and what it
\* has still to reopen when it does not.
Gated ==
  \A x \in Exec :
    /\ xpc[x] \in {"out", "preview", "plan", "build.retire"} => started[x] = {}
    /\ xpc[x] = "publish.retire" => started[x] = {"build"}
    /\ xpc[x] = "publish.cancel" => "runner" \notin started[x]
    /\ xpc[x] = "build.cancel" => started[x] = {"build"}
    /\ xpc[x] = "runner.retire" => gate # "open"
    /\ xpc[x] \in {"publish.retire", "runner.retire"} /\ found[x] # "RETIRED" =>
         life = "RETIRING"
    /\ xpc[x] = "runner.retire" /\ found[x] # "RETIRED" => Vacant
    /\ xpc[x] \in {"delete", "await"} => Sealed(ref[x]) /\ Vacant /\ life = "RETIRING"
    /\ xpc[x] = "await" => ref[x] = image
    /\ xpc[x] = "await" /\ serving[x] = "harbor" => ~Deleted

\* A deleted image stays sealed: an execution that begins later finds the
\* environment RETIRED and has nothing to undo, unless it finds what slipped in.
Locked ==
  /\ Deleted =>
       /\ Stopped(image)
       /\ \/ life = "RETIRED"
          \/ life = "RETIRING" /\ \E x \in Exec : xpc[x] = "await" /\ serving[x] = "finalize"
       /\ \A x \in Exec :
            /\ xpc[x] \notin {"delete", "runner.cancel"}
            /\ xpc[x] \in {"publish.retire", "runner.retire"} => found[x] = "RETIRED"
  /\ Gone =>
       /\ gate # "open" /\ published = {}
       /\ \A x \in Exec : xpc[x] = "publish.cancel" => gate = "RETIRED"

Late == late \subseteq LostCalls \X Image

CleanupInv == TypeInv /\ Late /\ Awaited /\ Gated /\ Locked

LEMMA CleanupInit == Init => CleanupInv
<1> SUFFICES ASSUME Init PROVE CleanupInv
  OBVIOUS
<1>1. \A x \in Exec : xpc[x] = "out" /\ serving[x] = "idle" /\ started[x] = {}
  BY DEF Init
<1>2. ~Deleted /\ ~Gone  BY DEF Init, Deleted, Gone
<1>3. QED
  BY <1>1, <1>2, TypeInit DEF Init, CleanupInv, Late, Awaited, Gated, Locked

\* What the owners do closes gates, unless it is one of the calls of _rollback.
LEMMA PerformCloses ==
  ASSUME TypeOK, NEW call, NEW i \in Image, Perform(call, i), call \notin Undoing
  PROVE  /\ life # "ACTIVE" => life' = life
         /\ gate # "open" => gate' # "open"
         /\ gate = "RETIRED" => gate' = "RETIRED"
         /\ \A j \in Image : runner[j] # "ACTIVE" => runner'[j] # "ACTIVE"
BY DEF TypeOK, Perform, BuildRetire, BuildCancel, PublishBegin, PublishCancel, PublishFinalize,
       RunnerBegin, RunnerCancel, RunnerFinalize, Undoing

\* Steps that touch no execution, close gates, publish nothing behind them and
\* start nothing behind them.
LEMMA CleanupKept ==
  ASSUME CleanupInv, TypeInv', Late',
         UNCHANGED <<image, registry, abandoned, xpc, coord, serving>>,
         life # "ACTIVE" => life' = life,
         gate # "open" => gate' # "open" /\ (published' \subseteq published \/ behind'),
         behind => behind',
         gate = "RETIRED" => gate' = "RETIRED",
         \A j \in Image : runner[j] # "ACTIVE" =>
            runner'[j] # "ACTIVE" /\ (j \in running' => j \in running)
  PROVE  CleanupInv'
<1> USE DEF CleanupInv, coord
<1>1. Awaited'  BY DEF Awaited
<1>2. /\ Deleted' <=> Deleted
      /\ Gone' => Gone /\ (gate # "open" => published' \subseteq published)
  BY DEF Gone, Deleted
<1>3. ASSUME NEW j \in Image PROVE (Stopped(j) => Stopped(j)') /\ (Sealed(j) => Sealed(j)')
  BY DEF Sealed, Stopped
<1>4. Gated'
  <2>1. ASSUME NEW x \in Exec, xpc[x] \in {"delete", "await"} PROVE Sealed(ref[x])'
    <3>1. ref[x] \in Image  BY <2>1 DEF TypeInv, TypeOK, Calls
    <3>2. Sealed(ref[x])  BY <2>1 DEF Gated
    <3>3. QED  BY <3>1, <3>2 DEF Sealed, Stopped
  <2>2. gate # "open" /\ Vacant => Vacant'
    BY DEF Vacant
  <2>3. ASSUME NEW x \in Exec, xpc[x] \in {"delete", "await", "runner.retire"}
        PROVE  gate # "open" /\ gate' # "open"
    BY <2>3 DEF Gated, Sealed
  <2>4. ASSUME NEW x \in Exec
        PROVE  /\ xpc[x] \in {"delete", "await"} => Vacant' /\ life' = "RETIRING"
               /\ xpc[x] = "runner.retire" /\ found[x] # "RETIRED" => Vacant'
               /\ xpc[x] \in {"publish.retire", "runner.retire"} /\ found[x] # "RETIRED" =>
                    life' = "RETIRING"
    BY <2>2, <2>3 DEF Gated
  <2>5. QED  BY <1>2, <2>1, <2>3, <2>4 DEF Gated
<1>5. Locked'
  <2>1. image \in Image  BY DEF TypeInv, TypeOK
  <2>2. Stopped(image) => Stopped(image)'  BY <2>1 DEF Stopped
  <2>3. Gone' => gate # "open" /\ gate' # "open" /\ published' = {}
    BY <1>2 DEF Locked
  <2>4. Deleted => life' = life  BY DEF Locked
  <2>5. QED  BY <1>2, <2>2, <2>3, <2>4 DEF Locked
<1>6. QED  BY <1>1, <1>4, <1>5

LEMMA CleanupLate ==
  ASSUME CleanupInv, GateCallsAnswered, NEW c \in Calls \X Image, LateCall(c)
  PROVE  CleanupInv'
<1>1. TypeInv'  BY TypeLate DEF CleanupInv
<1>2. Late'  BY DEF CleanupInv, Late, LateCall
<1>3. c[1] \notin Undoing
  BY DEF CleanupInv, Late, LateCall, GateCallsAnswered
<1>4. QED
  BY <1>1, <1>2, <1>3, PerformCloses, CleanupKept
  DEF CleanupInv, TypeInv, LateCall, Others

LEMMA CleanupPublishes ==
  ASSUME CleanupInv, NEW p \in Publisher, Publishes(p)
  PROVE  CleanupInv'
<1>1. TypeInv'  BY TypePublishes DEF CleanupInv
<1>2. UNCHANGED <<build, gate, run, xpc, coord, serving, gone>>
  BY DEF Publishes, Publish, Resolve, Guard, GuardRefuses, Release, Drop, AssertActive,
         MarkJobReady, PublishFails
<1>3. /\ gate # "open" => published' = published \/ behind'
      /\ behind => behind'
  BY DEF Publishes, Publish, Resolve, Guard, GuardRefuses, Release, Drop, AssertActive,
         MarkJobReady, PublishFails, CleanupInv, TypeInv, TypeOK
<1>4. QED
  BY <1>1, <1>2, <1>3, CleanupKept DEF CleanupInv, Late, build, run, gone

LEMMA CleanupUses ==
  ASSUME CleanupInv, NEW i \in Image, Uses(i)
  PROVE  CleanupInv'
<1>1. TypeInv'  BY TypeImages DEF CleanupInv
<1>2. UNCHANGED <<life, image, registry, gate, behind, runner, xpc, coord, serving, late, abandoned>>
  BY DEF Uses, Supersede, RunStarts, RunEnds, build, pub, run, gone
<1>3. published' \subseteq published
  BY DEF Uses, Supersede, RunStarts, RunEnds, pub
<1>4. ASSUME NEW j \in Image, runner[j] # "ACTIVE", j \in running' PROVE j \in running
  BY <1>4 DEF Uses, Supersede, RunStarts, RunEnds, run
<1>5. QED
  BY <1>1, <1>2, <1>3, <1>4, CleanupKept DEF CleanupInv, Late

LEMMA CleanupRebuild ==
  ASSUME CleanupInv, NEW i \in Image, Rebuild(i)
  PROVE  CleanupInv'
<1>1. TypeInv'  BY TypeImages DEF CleanupInv
<1>2. ~Deleted' /\ ~Gone'  BY DEF Rebuild, Deleted, Gone
<1>3. \A x \in Exec : xpc[x] # "await"
  BY DEF CleanupInv, Gated, Rebuild
<1>4. Awaited'
  BY DEF CleanupInv, Awaited, Rebuild, coord
<1>5. Gated'
  BY <1>3 DEF CleanupInv, Gated, Sealed, Stopped, Rebuild, pub, run, coord
<1>6. QED
  BY <1>1, <1>2, <1>4, <1>5 DEF CleanupInv, Late, Locked, Rebuild

\* A thread's step leaves what the others have alone.
LEMMA OthersUntouched ==
  ASSUME TypeInv, NEW x \in Exec, Coordinates(x) \/ Serves(x), NEW y \in Exec, y # x
  PROVE  /\ xpc'[y] = xpc[y] /\ serving'[y] = serving[y] /\ ref'[y] = ref[y]
         /\ found'[y] = found[y] /\ started'[y] = started[y]
<1> USE DEF TypeInv, TypeOK, coord, Others
<1>1. ASSUME Over(x)
      PROVE  xpc'[y] = xpc[y] /\ ref'[y] = ref[y] /\ found'[y] = found[y] /\ started'[y] = started[y]
  BY <1>1 DEF Over
<1>2. ASSUME NEW g, Rollback(x, g)
      PROVE  xpc'[y] = xpc[y] /\ ref'[y] = ref[y] /\ found'[y] = found[y] /\ started'[y] = started[y]
  BY <1>1, <1>2 DEF Rollback
<1>3. CASE Start(x) \/ PreviewPasses(x) \/ PlanPasses(x) \/ AskDeletion(x)
  BY <1>3 DEF Start, PreviewPasses, PlanPasses, AskDeletion, Enter
<1>4. CASE RetireBuild(x) \/ RetirePublish(x) \/ RetireRunner(x) \/ FinalizeRunner(x)
  BY <1>4 DEF RetireBuild, RetirePublish, RetireRunner, FinalizeRunner, Call
<1>5. CASE Blocked(x) \/ RunnerNotDrained(x) \/ FinalizeRunnerRefused(x) \/ FinalizePublish(x)
  BY <1>1, <1>5 DEF Blocked, RunnerNotDrained, FinalizeRunnerRefused, FinalizePublish
<1>6. CASE DeletionRefused(x) \/ UndoGate(x) \/ CallLost(x) \/ DeletionLost(x)
  BY <1>1, <1>2, <1>6 DEF DeletionRefused, UndoGate, CallLost, DeletionLost
<1>7. CASE HarborFails(x)
  BY <1>2, <1>7 DEF HarborFails
<1>8. CASE HarborDeletes(x) \/ FinalizeBuild(x)
  BY <1>8 DEF HarborDeletes, FinalizeBuild
<1>9. QED
  BY <1>3, <1>4, <1>5, <1>6, <1>7, <1>8 DEF Coordinates, Serves

\* While one execution acts the others are out, and stay so.
LEMMA Alone ==
  ASSUME TypeInv, OneAtATime, OneAtATime', NEW x \in Exec, Coordinates(x) \/ Serves(x),
         NEW y \in Exec, y # x
  PROVE  /\ xpc[y] = "out" /\ serving[y] = "idle"
         /\ xpc'[y] = "out" /\ serving'[y] = "idle" /\ started'[y] = started[y]
<1>1. Busy(x) \/ Busy(x)'
  <2>1. CASE Start(x)  BY <2>1 DEF Start, Enter, Busy, TypeInv, TypeOK
  <2>2. CASE Serves(x)
    BY <2>2 DEF Serves, HarborDeletes, HarborFails, FinalizeBuild, Busy
  <2>3. CASE Coordinates(x) /\ ~Start(x)
    BY <2>3, ConstantsAssumption
    DEF Coordinates, PreviewPasses, PlanPasses, Blocked, Enter, RetireBuild, RetirePublish,
        RetireRunner, RunnerNotDrained, AskDeletion, DeletionRefused, FinalizeRunner,
        FinalizeRunnerRefused, FinalizePublish, UndoGate, CallLost, DeletionLost, Call, Busy,
        Calls
  <2>4. QED  BY <2>1, <2>2, <2>3
<1>2. ~Busy(y) \/ ~Busy(y)'
  BY <1>1 DEF OneAtATime
<1>3. QED  BY <1>2, OthersUntouched DEF Busy

\* What the invariant says of one execution.
InOrder(x) ==
  /\ xpc[x] = "await" => serving[x] # "idle"
  /\ serving[x] # "idle" =>
       xpc[x] = "await" \/ (xpc[x] \in Undoing \cup {"out"} /\ ref[x] \in abandoned)
  /\ xpc[x] \in {"out", "preview", "plan", "build.retire"} => started[x] = {}
  /\ xpc[x] = "publish.retire" => started[x] = {"build"}
  /\ xpc[x] = "publish.cancel" => "runner" \notin started[x]
  /\ xpc[x] = "build.cancel" => started[x] = {"build"}
  /\ xpc[x] = "runner.retire" => gate # "open"
  /\ xpc[x] \in {"publish.retire", "runner.retire"} /\ found[x] # "RETIRED" =>
       life = "RETIRING"
  /\ xpc[x] = "runner.retire" /\ found[x] # "RETIRED" => Vacant
  /\ xpc[x] \in {"delete", "await"} => Sealed(ref[x]) /\ Vacant /\ life = "RETIRING"
  /\ xpc[x] = "await" => ref[x] = image
  /\ xpc[x] = "await" /\ serving[x] = "harbor" => ~Deleted
  /\ Deleted =>
       /\ xpc[x] \notin {"delete", "runner.cancel"}
       /\ xpc[x] \in {"publish.retire", "runner.retire"} => found[x] = "RETIRED"
  /\ Gone /\ xpc[x] = "publish.cancel" => gate = "RETIRED"

Retired(x) ==
  /\ Deleted => /\ Stopped(image)
                /\ \/ life = "RETIRED"
                   \/ life = "RETIRING" /\ xpc[x] = "await" /\ serving[x] = "finalize"
  /\ Gone => gate # "open" /\ published = {}

\* While x acts it is x that matters.
LEMMA OnlyActor ==
  ASSUME TypeInv, OneAtATime, OneAtATime', NEW x \in Exec, Coordinates(x) \/ Serves(x)
  PROVE  /\ Awaited /\ Gated /\ Locked => InOrder(x) /\ Retired(x)
         /\ Awaited /\ Gated /\ InOrder(x)' /\ Retired(x)' => Awaited' /\ Gated' /\ Locked'
<1>1. \A y \in Exec : y # x =>
        /\ xpc[y] = "out" /\ serving[y] = "idle"
        /\ xpc'[y] = "out" /\ serving'[y] = "idle" /\ started'[y] = started[y]
  BY Alone
<1>2. Awaited /\ Gated /\ Locked => InOrder(x) /\ Retired(x)
  BY <1>1 DEF Awaited, Gated, Locked, InOrder, Retired
<1>3. ASSUME Awaited, Gated, InOrder(x)', Retired(x)'
      PROVE  Awaited' /\ Gated' /\ Locked'
  <2>1. Awaited'  BY <1>1, <1>3 DEF Awaited, InOrder
  <2>2. Gated'  BY <1>1, <1>3 DEF Gated, InOrder
  <2>3. Locked'  BY <1>1, <1>3 DEF Locked, InOrder, Retired, Undoing
  <2>4. QED  BY <2>1, <2>2, <2>3
<1>4. QED  BY <1>2, <1>3

\* execute returns, or goes on with _rollback: it has closed nothing, the
\* image is there, or no gate is left to reopen.
LEMMA LeftInOrder ==
  ASSUME TypeInv, NEW x \in Exec, InOrder(x),
         serving'[x] # "idle" => serving[x] # "idle" /\ ref[x] \in abandoned',
         NEW g \in SUBSET {"build", "publish", "runner"}, Over(x) \/ Rollback(x, g),
         Deleted' => "runner" \notin g,
         Gone' /\ "publish" \in g => gate' = "RETIRED"
  PROVE  InOrder(x)'
<1> USE DEF TypeInv, TypeOK
<1>1. ASSUME Over(x) PROVE InOrder(x)'
  <2>1. xpc'[x] = "out" /\ started'[x] = {}  BY <1>1 DEF Over
  <2>2. serving'[x] # "idle" => ref'[x] = ref[x]  BY <1>1 DEF Over
  <2>3. QED  BY <2>1, <2>2 DEF InOrder, Undoing
<1>2. ASSUME Rollback(x, g), g # {} PROVE InOrder(x)'
  <2>1. xpc'[x] = Undo(g) /\ started'[x] = g /\ ref' = ref  BY <1>2 DEF Rollback
  <2>2. \/ xpc'[x] = "runner.cancel" /\ "runner" \in g
        \/ xpc'[x] = "publish.cancel" /\ "publish" \in g /\ "runner" \notin g
        \/ xpc'[x] = "build.cancel" /\ g = {"build"}
    BY <1>2, <2>1 DEF Undo
  <2>3. QED  BY <2>1, <2>2 DEF InOrder, Undoing
<1>3. QED  BY <1>1, <1>2 DEF Rollback

LEMMA CleanupCoordinates ==
  ASSUME CleanupInv, OneAtATime, OneAtATime', GateCallsAnswered,
         NEW x \in Exec, Coordinates(x)
  PROVE  CleanupInv'
<1>1. TypeInv /\ TypeInv'  BY TypeCoordinates DEF CleanupInv
<1>2. InOrder(x) /\ Retired(x)  BY <1>1, OnlyActor DEF CleanupInv
<1>3. UNCHANGED <<image, registry, published, behind, running>>
  BY DEF Coordinates, Start, PreviewPasses, PlanPasses, Blocked, RetireBuild, RetirePublish,
         RetireRunner, RunnerNotDrained, AskDeletion, DeletionRefused, FinalizeRunner,
         FinalizeRunnerRefused, FinalizePublish, UndoGate, CallLost, DeletionLost, Call, Others,
         build, pub, run
<1>4. Late'
  BY <1>1
  DEF Coordinates, Start, PreviewPasses, PlanPasses, Blocked, RetireBuild, RetirePublish,
      RetireRunner, RunnerNotDrained, AskDeletion, DeletionRefused, FinalizeRunner,
      FinalizeRunnerRefused, FinalizePublish, UndoGate, CallLost, DeletionLost, Call, Others,
      gone, CleanupInv, Late, TypeInv, TypeOK
<1> SUFFICES InOrder(x)' /\ Retired(x)'
  BY <1>1, <1>4, OnlyActor DEF CleanupInv
<1> USE <1>1, <1>2, <1>3
<1>5. CASE Start(x) \/ PreviewPasses(x)
  BY <1>5
  DEF Start, PreviewPasses, Enter, build, pub, run, coord, gone, InOrder, Retired, Deleted, Gone, Sealed, Stopped,
      TypeInv, TypeOK, Undoing
<1>6. CASE PlanPasses(x)
  BY <1>6
  DEF PlanPasses, Enter, build, pub, run, gone, InOrder, Retired, Deleted, Gone, Sealed, Stopped, TypeInv, TypeOK,
      Undoing
<1>7. CASE Blocked(x)
  <2>1. UNCHANGED <<life, gate, runner, serving, abandoned>>
    BY <1>7 DEF Blocked, build, pub, run, gone
  <2>2. InOrder(x)'  BY <1>7, <2>1, LeftInOrder DEF Blocked, InOrder, Undoing
  <2>3. Retired(x)'  BY <1>7, <2>1 DEF Blocked, Retired, Deleted, Gone, Stopped
  <2>4. QED  BY <2>2, <2>3
<1>8. ASSUME NEW c \in Calls, xpc[x] = c, c \notin Undoing, Perform(c, ref[x]),
             UNCHANGED <<Others, gone>>
      PROVE  /\ ref[x] \in Image /\ serving[x] = "idle" /\ serving' = serving
             /\ Deleted' = Deleted /\ Gone' = Gone
             /\ Deleted => life' = "RETIRED"
             /\ Gone => gate' # "open" /\ (gate = "RETIRED" => gate' = gate)
             /\ gate # "open" => gate' # "open"
             /\ runner[ref[x]] # "ACTIVE" => runner'[ref[x]] # "ACTIVE"
             /\ life # "ACTIVE" => life' = life
             /\ Vacant' = Vacant
             /\ Retired(x)'
  <2>1. c # "out" /\ c # "await"  BY <1>8 DEF Calls
  <2>2. ref[x] \in Image /\ serving[x] = "idle" /\ image \in Image
    BY <1>8, <2>1 DEF InOrder, TypeInv, TypeOK
  <2>3. /\ life # "ACTIVE" => life' = life
        /\ gate # "open" => gate' # "open"
        /\ gate = "RETIRED" => gate' = "RETIRED"
        /\ \A j \in Image : runner[j] # "ACTIVE" => runner'[j] # "ACTIVE"
    BY <1>8, <2>2, PerformCloses DEF TypeInv
  <2>4. Deleted' = Deleted /\ Gone' = Gone /\ Vacant' = Vacant
    BY <1>8 DEF gone, Deleted, Gone, Vacant
  <2>5. /\ Deleted => life = "RETIRED" /\ Stopped(image)
        /\ Gone => gate # "open" /\ published = {}
    BY <1>8, <2>1 DEF Retired
  <2>6. Retired(x)'  BY <2>2, <2>3, <2>4, <2>5 DEF Retired, Stopped
  <2>7. QED  BY <1>8, <2>2, <2>3, <2>4, <2>5, <2>6 DEF Others, Gone
<1>9. CASE RetireBuild(x)
  <2>1. /\ Retired(x)' /\ Deleted' = Deleted /\ Gone' = Gone
        /\ (Deleted => life' = "RETIRED") /\ serving' = serving
    BY <1>8, <1>9 DEF RetireBuild, Call, Calls, Undoing
  <2>2. /\ xpc'[x] = "publish.retire" /\ started'[x] = {"build"} /\ found'[x] = life'
        /\ serving[x] = "idle"
    BY <1>9 DEF RetireBuild, Call, Calls, Undoing, InOrder, TypeInv, TypeOK
  <2>3. life' \in {"RETIRING", "RETIRED"}
    BY <1>9 DEF RetireBuild, Call, Perform, BuildRetire, TypeInv, TypeOK
  <2>4. InOrder(x)'  BY <2>1, <2>2, <2>3 DEF InOrder
  <2>5. QED  BY <2>1, <2>4
<1>10. CASE RetirePublish(x)
  <2>1. /\ Retired(x)' /\ Deleted' = Deleted /\ Gone' = Gone /\ serving' = serving
        /\ Gone => gate' # "open" /\ (gate = "RETIRED" => gate' = gate)
        /\ serving[x] = "idle" /\ (life # "ACTIVE" => life' = life)
    BY <1>8, <1>10 DEF RetirePublish, Call, Calls, Undoing
  <2>2. /\ found' = found /\ (Deleted => found[x] = "RETIRED")
        /\ found[x] # "RETIRED" => life' = "RETIRING"
    BY <1>10, <2>1 DEF RetirePublish, Call, InOrder
  <2>3. CASE PublishIsSafe
    <3>1. xpc'[x] = "runner.retire"  BY <1>10, <2>3 DEF RetirePublish, Call, TypeInv, TypeOK
    <3>2. gate' # "open" /\ Vacant'  BY <2>3 DEF PublishIsSafe, Vacant
    <3>3. QED  BY <2>1, <2>2, <3>1, <3>2 DEF InOrder
  <2>4. CASE ~PublishIsSafe
    <3>1. xpc'[x] = "publish.cancel"
      BY <1>10, <2>4 DEF RetirePublish, Call, TypeInv, TypeOK, Undo
    <3>2. started'[x] = {"build", "publish"}
      BY <1>10 DEF RetirePublish, Call, InOrder, TypeInv, TypeOK
    <3>3. Gone => gate' = "RETIRED"
      BY <2>1, <2>4 DEF PublishIsSafe, Retired, TypeInv, TypeOK
    <3>4. QED  BY <2>1, <3>1, <3>2, <3>3 DEF InOrder
  <2>5. QED  BY <2>3, <2>4
<1>11. CASE RetireRunner(x)
  <2>1. /\ Retired(x)' /\ Deleted' = Deleted /\ Gone' = Gone
        /\ serving' = serving /\ serving[x] = "idle"
        /\ gate # "open" => gate' # "open"
        /\ life # "ACTIVE" => life' = life
        /\ Vacant' = Vacant
    BY <1>8, <1>11 DEF RetireRunner, Call, Calls, Undoing
  <2>2. xpc'[x] = IF found[x] # "RETIRED" THEN "delete" ELSE "runner.finalize"
    BY <1>11 DEF RetireRunner, Call, TypeInv, TypeOK
  <2>3. /\ gate # "open" /\ (Deleted => found[x] = "RETIRED")
        /\ found[x] # "RETIRED" => Vacant /\ life = "RETIRING"
    BY <1>11 DEF RetireRunner, Call, InOrder
  <2>4. ref' = ref /\ Sealed(ref[x])'
    BY <1>11, <2>1, <2>3 DEF RetireRunner, Call, Sealed, Stopped
  <2>5. InOrder(x)'  BY <2>1, <2>2, <2>3, <2>4 DEF InOrder
  <2>6. QED  BY <2>1, <2>5
<1>12. CASE RunnerNotDrained(x)
  <2>1. Retired(x)' /\ serving' = serving /\ serving[x] = "idle"
    BY <1>8, <1>12 DEF RunnerNotDrained, Calls, Undoing
  <2>2. Over(x)  BY <1>12 DEF RunnerNotDrained
  <2>3. InOrder(x)'  BY <2>1, <2>2, LeftInOrder, {} \in SUBSET {"build", "publish", "runner"}
  <2>4. QED  BY <2>1, <2>3
<1>13. CASE AskDeletion(x)
  <2>1. xpc'[x] = "await" /\ serving'[x] = "harbor"  BY <1>13 DEF AskDeletion, TypeInv, TypeOK
  <2>2. ~Deleted' /\ ~Gone' /\ ref'[x] = image' /\ life' = "RETIRING" /\ Vacant'
    BY <1>13 DEF AskDeletion, InOrder, Deleted, Gone, Vacant, gone, build, coord
  <2>3. Sealed(ref[x])'
    BY <1>13 DEF AskDeletion, InOrder, Sealed, Stopped, pub, run, coord
  <2>4. ref' = ref  BY <1>13 DEF AskDeletion, coord
  <2>5. QED  BY <2>1, <2>2, <2>3, <2>4 DEF InOrder, Retired
<1>14. CASE DeletionRefused(x)
  <2>1. ~Deleted' /\ ~Gone' /\ serving' = serving /\ serving[x] = "idle"
    BY <1>14 DEF DeletionRefused, InOrder, Deleted, Gone, gone, build, Undoing
  <2>2. started[x] \in SUBSET {"build", "publish", "runner"}  BY DEF TypeInv, TypeOK
  <2>3. InOrder(x)'  BY <1>14, <2>1, <2>2, LeftInOrder DEF DeletionRefused
  <2>4. QED  BY <2>1, <2>3 DEF Retired
<1>15. CASE FinalizeRunner(x)
  <2>1. /\ Retired(x)' /\ Deleted' = Deleted /\ Gone' = Gone
        /\ serving' = serving /\ serving[x] = "idle"
    BY <1>8, <1>15 DEF FinalizeRunner, Call, Calls, Undoing
  <2>2. xpc'[x] = "publish.finalize"  BY <1>15 DEF FinalizeRunner, Call, TypeInv, TypeOK
  <2>3. QED  BY <2>1, <2>2 DEF InOrder
<1>16. CASE FinalizeRunnerRefused(x)
  <2>1. UNCHANGED <<life, gate, runner, serving, abandoned>> /\ serving[x] = "idle"
    BY <1>16 DEF FinalizeRunnerRefused, InOrder, Undoing, build, pub, run, gone
  <2>2. Over(x)  BY <1>16 DEF FinalizeRunnerRefused
  <2>3. InOrder(x)'  BY <2>1, <2>2, LeftInOrder, {} \in SUBSET {"build", "publish", "runner"}
  <2>4. Retired(x)'  BY <1>16, <2>1 DEF FinalizeRunnerRefused, Retired, Deleted, Gone, Stopped
  <2>5. QED  BY <2>3, <2>4
<1>17. CASE FinalizePublish(x)
  <2>1. Retired(x)' /\ serving' = serving /\ serving[x] = "idle"
    BY <1>8, <1>17 DEF FinalizePublish, Calls, Undoing
  <2>2. Over(x)  BY <1>17 DEF FinalizePublish
  <2>3. InOrder(x)'  BY <2>1, <2>2, LeftInOrder, {} \in SUBSET {"build", "publish", "runner"}
  <2>4. QED  BY <2>1, <2>3
<1>18. CASE UndoGate(x)
  <2>1. PICK c \in {<<"runner.cancel", "runner">>, <<"publish.cancel", "publish">>,
                    <<"build.cancel", "build">>} :
          xpc[x] = c[1] /\ Perform(c[1], ref[x]) /\ Rollback(x, started[x] \ {c[2]})
    BY <1>18 DEF UndoGate
  <2>2. UNCHANGED <<serving, abandoned>> /\ Deleted' = Deleted /\ Gone' = Gone
    BY <1>18 DEF UndoGate, Others, gone, Deleted, Gone
  <2>3. started[x] \ {c[2]} \in SUBSET {"build", "publish", "runner"}
    BY DEF TypeInv, TypeOK
  <2>4. serving[x] # "idle" => ref[x] \in abandoned
    BY <2>1 DEF InOrder
  <2>5. Deleted => life = "RETIRED" /\ Stopped(image) /\ c[1] # "runner.cancel"
    BY <2>1 DEF InOrder, Retired
  <2>6. /\ Deleted => life' = "RETIRED" /\ runner' = runner
        /\ Gone => gate # "open" /\ gate' = gate /\ published = {}
    BY <2>1, <2>5 DEF InOrder, Retired, Gone, Perform, BuildCancel, BuildRetire, PublishCancel
  <2>7. Retired(x)'  BY <2>2, <2>5, <2>6 DEF Retired, Stopped
  <2>8. /\ Deleted => "runner" \notin started[x] \ {c[2]}
        /\ Gone /\ "publish" \in started[x] \ {c[2]} => gate' = "RETIRED"
    BY <2>1, <2>5, <2>6 DEF InOrder, Gone
  <2>9. InOrder(x)'  BY <2>1, <2>2, <2>3, <2>4, <2>8, LeftInOrder
  <2>10. QED  BY <2>7, <2>9
<1>19. CASE CallLost(x)
  <2>1. /\ xpc[x] \in LostCalls /\ xpc[x] \in Calls
        /\ UNCHANGED <<life, gate, runner, serving, abandoned>>
    BY <1>19, ConstantsAssumption DEF CallLost, build, pub, run
  <2>2. xpc[x] \notin Undoing \cup {"runner.retire"}
    BY <2>1 DEF GateCallsAnswered
  <2>3. xpc[x] # "await" /\ xpc[x] # "out" /\ serving[x] = "idle"
    BY <2>1, <2>2 DEF InOrder, Calls
  <2>4. Retired(x)'  BY <2>1, <2>3 DEF Retired, Deleted, Gone, Stopped
  <2>5. CASE xpc[x] \in {"runner.finalize", "publish.finalize"}
    <3>1. Over(x)  BY <1>19, <2>5 DEF CallLost
    <3>2. InOrder(x)'
      BY <2>1, <2>3, <3>1, LeftInOrder, {} \in SUBSET {"build", "publish", "runner"}
    <3>3. QED  BY <2>4, <3>2
  <2>6. CASE xpc[x] \notin {"runner.finalize", "publish.finalize"}
    <3>1. xpc[x] \in {"build.retire", "publish.retire", "delete"}
      BY <2>1, <2>2, <2>6 DEF Calls, Undoing
    <3>2. Rollback(x, started[x])  BY <1>19, <2>2, <2>6 DEF CallLost, Undoing
    <3>3. started[x] \in SUBSET {"build", "publish", "runner"}  BY DEF TypeInv, TypeOK
    <3>4. Deleted' \/ Gone' => started[x] \subseteq {"build"}
      BY <2>1, <3>1 DEF InOrder, Deleted, Gone
    <3>5. InOrder(x)'  BY <2>1, <2>3, <3>2, <3>3, <3>4, LeftInOrder
    <3>6. QED  BY <2>4, <3>5
  <2>7. QED  BY <2>5, <2>6
<1>20. CASE DeletionLost(x)
  <2>1. /\ ref[x] = image /\ ref[x] \in abandoned' /\ ~Deleted' /\ ~Gone'
        /\ serving' = serving
    BY <1>20 DEF DeletionLost, InOrder, Deleted, Gone
  <2>2. started[x] \in SUBSET {"build", "publish", "runner"}  BY DEF TypeInv, TypeOK
  <2>3. InOrder(x)'  BY <1>20, <2>1, <2>2, LeftInOrder DEF DeletionLost
  <2>4. QED  BY <2>1, <2>3 DEF Retired
<1>21. QED
  BY <1>5, <1>6, <1>7, <1>9, <1>10, <1>11, <1>12, <1>13, <1>14, <1>15, <1>16, <1>17, <1>18,
     <1>19, <1>20
  DEF Coordinates

\* The Build service deletes the image an execution waits for, or one whose
\* deletion has timed out.
LEMMA CleanupServes ==
  ASSUME CleanupInv, OneAtATime, OneAtATime', NEW x \in Exec, Serves(x)
  PROVE  CleanupInv'
<1>1. TypeInv /\ TypeInv'  BY TypeServes DEF CleanupInv
<1>2. InOrder(x) /\ Retired(x)  BY <1>1, OnlyActor DEF CleanupInv
<1>3. UNCHANGED <<image, gate, published, behind, runner, running, late>> /\ Late'
  BY DEF Serves, HarborDeletes, HarborFails, FinalizeBuild, pub, run, gone, CleanupInv, Late
<1> SUFFICES InOrder(x)' /\ Retired(x)'
  BY <1>1, <1>3, OnlyActor DEF CleanupInv
<1> USE <1>1, <1>2, <1>3
<1>4. CASE HarborDeletes(x)
  <2>1. /\ serving[x] = "harbor" /\ serving'[x] = "finalize" /\ registry' = registry \ {ref[x]}
        /\ UNCHANGED <<life, xpc, ref, found, started, abandoned>>
    BY <1>4 DEF HarborDeletes, coord, gone, TypeInv, TypeOK
  <2>2. CASE xpc[x] = "await"
    <3>1. /\ ref[x] = image /\ life = "RETIRING" /\ Sealed(image) /\ Vacant
          /\ Sealed(image)' /\ Vacant' /\ (Gone' => published' = {})
      BY <2>1, <2>2 DEF InOrder, Sealed, Stopped, Vacant, Gone
    <3>2. Retired(x)'  BY <2>1, <2>2, <3>1 DEF Retired, Sealed
    <3>3. QED  BY <2>1, <2>2, <3>1, <3>2 DEF InOrder
  <2>3. CASE xpc[x] # "await"
    <3>1. Deleted' = Deleted /\ Gone' = Gone
      BY <2>1, <2>3 DEF InOrder, Deleted, Gone
    <3>2. Vacant' = Vacant  BY DEF Vacant
    <3>3. Retired(x)'  BY <2>1, <2>3, <3>1 DEF Retired, Stopped
    <3>4. QED  BY <2>1, <2>3, <3>1, <3>2, <3>3 DEF InOrder, Sealed, Stopped
  <2>4. QED  BY <2>2, <2>3
<1>5. CASE HarborFails(x)
  <2>1. /\ serving[x] = "harbor" /\ serving'[x] = "idle" /\ life' = life
        /\ registry' \subseteq registry /\ abandoned' = abandoned \cup (registry \ registry')
    BY <1>5 DEF HarborFails, TypeInv, TypeOK
  <2>2. Deleted' = Deleted /\ Gone' = Gone  BY <2>1 DEF Deleted, Gone
  <2>3. CASE xpc[x] = "await"
    <3>1. ~Deleted' /\ ~Gone'  BY <2>1, <2>2, <2>3 DEF InOrder, Gone
    <3>2. started[x] \in SUBSET {"build", "publish", "runner"} /\ Rollback(x, started[x])
      BY <1>5, <2>3 DEF HarborFails, TypeInv, TypeOK
    <3>3. InOrder(x)'  BY <2>1, <3>1, <3>2, LeftInOrder
    <3>4. QED  BY <3>1, <3>3 DEF Retired
  <2>4. CASE xpc[x] # "await"
    <3>1. UNCHANGED <<xpc, ref, found, started>>  BY <1>5, <2>4 DEF HarborFails, coord
    <3>2. Vacant' = Vacant  BY DEF Vacant
    <3>3. Retired(x)'  BY <2>1, <2>2, <3>1 DEF Retired, Stopped
    <3>4. QED  BY <2>1, <2>2, <2>4, <3>1, <3>2, <3>3 DEF InOrder, Sealed, Stopped
  <2>5. QED  BY <2>3, <2>4
<1>6. CASE FinalizeBuild(x)
  <2>1. /\ serving[x] = "finalize" /\ serving'[x] = "idle"
        /\ UNCHANGED <<registry, abandoned, ref, found, started>>
        /\ life' = IF life = "RETIRING" THEN "RETIRED" ELSE life
        /\ xpc'[x] = IF xpc[x] = "await" THEN "runner.finalize" ELSE xpc[x]
    BY <1>6 DEF FinalizeBuild, coord, gone, TypeInv, TypeOK
  <2>2. Deleted' = Deleted /\ Gone' = Gone  BY <2>1 DEF Deleted, Gone
  <2>3. xpc'[x] \in {"runner.finalize", "out"} \cup Undoing  BY <2>1 DEF InOrder
  <2>4. InOrder(x)'
    BY <2>1, <2>2, <2>3 DEF InOrder, Undoing
  <2>5. Retired(x)'  BY <2>1, <2>2 DEF Retired, Stopped
  <2>6. QED  BY <2>4, <2>5
<1>7. QED  BY <1>4, <1>5, <1>6 DEF Serves

LEMMA CleanupStep ==
  ASSUME GateCallsAnswered
  PROVE  CleanupInv /\ OneAtATime /\ OneAtATime' /\ [Next]_vars => CleanupInv'
<1> SUFFICES ASSUME CleanupInv, OneAtATime, OneAtATime', [Next]_vars PROVE CleanupInv'
  OBVIOUS
<1>1. CASE UNCHANGED vars
  <2>1. /\ UNCHANGED <<image, registry, abandoned, xpc, coord, serving, late>>
        /\ UNCHANGED <<life, gate, published, behind, runner, running>>
    BY <1>1 DEF vars, build, pub, run, gone
  <2>2. TypeInv'  BY TypeStep DEF CleanupInv
  <2>3. QED  BY <2>1, <2>2, CleanupKept DEF CleanupInv, Late
<1>2. QED
  BY <1>1, NextCases, CleanupCoordinates, CleanupServes, CleanupLate, CleanupPublishes,
     CleanupRebuild, CleanupUses

LEMMA Cleaning ==
  ASSUME GateCallsAnswered
  PROVE  Spec /\ []OneAtATime => []CleanupInv
BY CleanupInit, CleanupStep, PTL DEF Spec

\* "lifecycle gates intentionally remain closed": whichever other calls time out,
\* however late the owners serve them, and whichever step a cleanup ends at, an
\* environment whose image the coordinator has deleted is not handed out, not
\* published on and not run from.
THEOREM CleanedStaysClosed ==
  ASSUME GateCallsAnswered
  PROVE  Spec /\ []OneAtATime => []GatesStayClosed
<1>1. CleanupInv => GatesStayClosed
  BY DEF CleanupInv, Locked, Deleted, Gone, Stopped, GatesStayClosed, DeletedStaysClosed
<1>2. QED  BY <1>1, Cleaning, PTL

\* The publish-vs-delete race is closed for any number of publications that keep
\* the lock: the preflight and the second look under it together see every one of
\* them.  What a publication records that has lost the lock is in `behind`.
THEOREM NothingPublishedIsDeleted ==
  ASSUME GateCallsAnswered
  PROVE  Spec /\ []OneAtATime => []PublishedImageExists
<1>1. CleanupInv => PublishedImageExists
  BY DEF CleanupInv, Locked, Deleted, Gone, PublishedImageExists
<1>2. QED  BY <1>1, Cleaning, PTL

\* What the Runner drained before the deletion stays drained after it.
THEOREM NothingRunningIsDeleted ==
  ASSUME GateCallsAnswered
  PROVE  Spec /\ []OneAtATime => []RunningImageExists
<1>1. CleanupInv => RunningImageExists
  BY DEF CleanupInv, Locked, Deleted, Stopped, RunningImageExists
<1>2. QED  BY <1>1, Cleaning, PTL
=============================================================================
