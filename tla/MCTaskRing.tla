----------------------------- MODULE MCTaskRing -----------------------------
(* Instances of TaskRing for TLC.                                          *)
EXTENDS TaskRing, TLC

Symmetry == Permutations(Backend) \cup Permutations(Thread)

=============================================================================
