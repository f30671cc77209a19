-------------------------- MODULE RuntimeEnvironment --------------------------
(***************************************************************************)
(* What the Build service promises of one runtime environment, whoever     *)
(* resolves, retries, builds or deletes it: a row that is built by one     *)
(* request at a time, is retired only when nothing prepares it, and comes  *)
(* back from retirement only to be built anew.  RuntimeBuild implements    *)
(* it; RunnerPublish is written against it.                                *)
(***************************************************************************)
CONSTANTS
  Image,
  None

VARIABLES
  status,     \* runtime_environments.status, "none" when there is no row
  life,       \* runtime_environments.lifecycle_state
  image       \* runtime_environments.image_ref

vars == <<status, life, image>>

Init == status = "none" /\ life = "ACTIVE" /\ image = None

Become(from, to) == status \in from /\ status' = to

Create == Become({"none"}, "PENDING") /\ UNCHANGED <<life, image>>

\* A build begins only while the environment is ACTIVE.
Claim == Become({"PENDING"}, "BUILDING") /\ life = "ACTIVE" /\ UNCHANGED <<life, image>>

Push == Become({"BUILDING"}, "VERIFYING") /\ UNCHANGED <<life, image>>

Succeed == Become({"VERIFYING"}, "READY") /\ image' \in Image /\ UNCHANGED life

\* A build may be recorded as failed although it has just made the row READY.
Fail == Become({"BUILDING", "VERIFYING", "READY"}, "FAILED") /\ UNCHANGED <<life, image>>

Reset == Become({"FAILED"}, "PENDING") /\ image' = None /\ UNCHANGED life

Retire ==
  /\ status \in {"READY", "FAILED"}
  /\ life = "ACTIVE"
  /\ life' = "RETIRING"
  /\ UNCHANGED <<status, image>>

Cancel == life = "RETIRING" /\ life' = "ACTIVE" /\ UNCHANGED <<status, image>>

Finish == life = "RETIRING" /\ life' = "RETIRED" /\ UNCHANGED <<status, image>>

Reactivate ==
  /\ life = "RETIRED"
  /\ status' = "PENDING"
  /\ life' = "ACTIVE"
  /\ image' = None

Next ==
  \/ Create \/ Claim \/ Push \/ Succeed \/ Fail \/ Reset
  \/ Retire \/ Cancel \/ Finish \/ Reactivate

Spec == Init /\ [][Next]_vars
===============================================================================
