------------------------- MODULE MCCommandRecovery --------------------------
(* Small instances of CommandRecovery for TLC. *)
EXTENDS CommandRecovery
=============================================================================
