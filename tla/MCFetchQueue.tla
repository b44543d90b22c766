---------------------------- MODULE MCFetchQueue ----------------------------
(***************************************************************************)
(* FetchQueue for TLC: the constants get their values in the .cfg files.   *)
(***************************************************************************)
EXTENDS FetchQueue

\* index, mapping, offset and bitmap are pulled alike: one of the four does.
MCKinds == <<"bitmap", "metadata">>

=============================================================================
