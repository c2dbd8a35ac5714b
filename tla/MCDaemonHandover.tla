-------------------------- MODULE MCDaemonHandover --------------------------
(* A small instance of DaemonHandover for TLC: two supervisors of one socket *)
(* path and one that shares only their descriptor directory.                 *)
EXTENDS DaemonHandover, TLC

CONSTANTS p1, p2, p3, a1, a2

SharedSocket      == [p \in Supervisors |-> IF p = p3 THEN "other.sock" ELSE "daemon.sock"]
SharedDescriptors == [p \in Supervisors |-> "descriptors"]

\* The two supervisors of one socket path are interchangeable, and so are the
\* coordinators.
HandoverSymmetry == Permutations({p1, p2}) \cup Permutations(Coordinators)

\* What the next steps and the properties depend on: of a process that is gone,
\* only that it was started; of a lock, who still holds it; of a fence that was
\* read, nothing but while it is being cleared.
HandoverView ==
    [ alive     |-> alive,
      pc        |-> [p \in Supervisors |-> IF p \in alive \/ pc[p] = "none" THEN pc[p] ELSE "gone"],
      coord     |-> [a \in Coordinators |-> IF a \in alive THEN coord[a] ELSE "gone"],
      lease     |-> [s \in Sockets |-> IF Free(lease[s]) THEN None ELSE lease[s]],
      guard     |-> IF GuardFree THEN None ELSE guard,
      seen      |-> [x \in {p \in Supervisors \cap alive : pc[p] = "clearing"}
                           \cup {a \in Coordinators \cap alive : coord[a] = "clearing"} |-> seen[x]],
      target    |-> [a \in {c \in Coordinators \cap alive : coord[c] # "done"} |-> target[a]],
      registry  |-> registry, fence |-> fence, admission |-> admission, expiries |-> expiries ]
=============================================================================
