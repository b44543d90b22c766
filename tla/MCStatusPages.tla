--------------------------- MODULE MCStatusPages ---------------------------
(***************************************************************************)
(* StatusPages for TLC: the constants get their values in the .cfg files.  *)
(***************************************************************************)
EXTENDS StatusPages, TLC

\* Backends are alike.
Symmetry == Permutations(Backend)

=============================================================================
