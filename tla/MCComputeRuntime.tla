-------------------------- MODULE MCComputeRuntime --------------------------
(* Small instances of ComputeRuntime for TLC. *)
EXTENDS ComputeRuntime

CONSTANTS c1, c2

\* Callers are interchangeable.
CallerSymmetry == Permutations(Callers)
=============================================================================
