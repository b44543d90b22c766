---------------------------- MODULE MCIndexSlots ----------------------------
(***************************************************************************)
(* IndexSlots for TLC: the constants get their values in the .cfg file.    *)
(***************************************************************************)
EXTENDS IndexSlots

=============================================================================
