---------------------------- MODULE MCRunnerRuns ----------------------------
(***************************************************************************)
(* Instances of RunnerRuns for TLC.                                        *)
(***************************************************************************)
EXTENDS RunnerRuns, TLC

CONSTANT shared

\* Every attempt has an invocation id of its own.
OwnInvocation == [c \in Call |-> c]

\* A client gives all its attempts the same invocation id.
SharedInvocation == [c \in Call |-> shared]

Symmetry == Permutations(Run) \cup Permutations(Key) \cup Permutations(Digest)
=============================================================================
