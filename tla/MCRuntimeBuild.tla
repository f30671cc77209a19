---------------------------- MODULE MCRuntimeBuild ----------------------------
(* Two locks: the packages of one contain those of the other.              *)
EXTENDS RuntimeBuild, TLC

CONSTANTS big, small

MCKey == {big, small}
MCSuperset == {<<big, small>>}
MCSymmetry == Permutations(Request) \cup Permutations(Admin) \cup Permutations(Image)
=============================================================================
