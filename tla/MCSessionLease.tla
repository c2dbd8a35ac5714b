--------------------------- MODULE MCSessionLease ---------------------------
(* Small instances of SessionLease for TLC. *)
EXTENDS SessionLease, TLC

CONSTANTS p1, p2, p3, a, b

\* The third process gets the pid of the first.
ReusedPid == p1 :> 1 @@ p2 :> 2 @@ p3 :> 1

SessionSymmetry == Permutations({a, b})
=============================================================================
