------------------------------ MODULE ImageGate ------------------------------
(***************************************************************************)
(* The gate of a runtime image, as the Runner promises it to whoever       *)
(* deletes the image: the image comes into use only while it is ACTIVE, a  *)
(* retirement may be cancelled until it is final, and it is final only     *)
(* when the image is out of use.                                           *)
(***************************************************************************)
VARIABLES
  state,    \* "ACTIVE", "RETIRING" or "RETIRED"
  inUse     \* something runs from the image, or may start to

vars == <<state, inUse>>

Init == state = "ACTIVE" /\ inUse = FALSE

Start  == state = "ACTIVE" /\ inUse' = TRUE /\ UNCHANGED state
Stop   == inUse' = FALSE /\ UNCHANGED state
Begin  == state = "ACTIVE" /\ state' = "RETIRING" /\ UNCHANGED inUse
Cancel == state = "RETIRING" /\ state' = "ACTIVE" /\ UNCHANGED inUse
Finalize == state = "RETIRING" /\ ~inUse /\ state' = "RETIRED" /\ UNCHANGED inUse

Next == Start \/ Stop \/ Begin \/ Cancel \/ Finalize

Spec == Init /\ [][Next]_vars
=============================================================================
