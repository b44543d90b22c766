----------------------------- MODULE MCRecovery -----------------------------
(***************************************************************************)
(* Recovery for TLC: the constants get their values in the .cfg files.     *)
(***************************************************************************)
EXTENDS Recovery

=============================================================================
