----------------------------- MODULE MCStandby -----------------------------
(***************************************************************************)
(* Standby for TLC: the constants get their values in the .cfg files.      *)
(***************************************************************************)
EXTENDS Standby

=============================================================================
