---------------------------- MODULE MCMemtables ----------------------------
(* Small instances of Memtables for TLC: the processes, slots and rows are  *)
(* model values, interchangeable where only safety is checked.              *)
EXTENDS Memtables, TLC

Symmetry ==
    Permutations(Backend) \cup Permutations(Slot) \cup Permutations(Row)
=============================================================================
