-------------------------- MODULE MCUpdateRestart ---------------------------
(* Small instances of UpdateRestart for TLC. *)
EXTENDS UpdateRestart, TLC

CONSTANTS w1, w2

\* The prompt and the abort go to the first worker.
Targets == [c \in Commands |-> w1]

\* One worker loses its connection and has inputs of its own.
Conns == [w \in Workers |-> IF w = w1 THEN 2 ELSE 1]
Inputs == [w \in Workers |-> IF w = w1 THEN 1 ELSE 0]
=============================================================================
