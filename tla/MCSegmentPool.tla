--------------------------- MODULE MCSegmentPool ---------------------------
(* Small instances of SegmentPool for TLC.                                 *)
EXTENDS SegmentPool, TLC

Symmetry == Permutations(Merger) \cup Permutations(Searcher)
=============================================================================
