------------------------- MODULE MCRuntimeRetirement -------------------------
(***************************************************************************)
(* Instances of RuntimeRetirement for TLC.                                 *)
(***************************************************************************)
EXTENDS RuntimeRetirement, TLC

Symmetry == Permutations(Call) \cup Permutations(Admin) \cup Permutations(Sandbox)
=============================================================================
