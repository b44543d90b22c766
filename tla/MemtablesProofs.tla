--------------------------- MODULE MemtablesProofs ---------------------------
(***************************************************************************)
(* Proofs about Memtables, for any number of backends, searches, slots and *)
(* rows, any memtable capacity and any queue length.  IndInv is shown to   *)
(* be inductive, one lemma per conjunct and in it one case per action; the *)
(* theorems at the end are its consequences.                               *)
(***************************************************************************)
EXTENDS Memtables, TLAPS, FiniteSetTheorems

USE DEF slotVars, indexVars, relVars, segVars, statusVars, insVars, flushVars,
        searchVars, vacVars, histVars

-----------------------------------------------------------------------------
(* What the reference count of a slot says.                                *)

\* A slot's pinners are finitely many.
LEMMA PinnersFinite ==
    ASSUME NEW s \in Slot
    PROVE  IsFiniteSet(Pinners(s)) /\ Cardinality(Pinners(s)) \in Nat
<1>1. Pinners(s) \subseteq Searcher
  BY DEF Pinners
<1>2. IsFiniteSet(Pinners(s))
  BY <1>1, ProcessAssumption, FS_Subset
<1> QED
  BY <1>2, FS_CardinalityType

\* A slot in use has a positive reference count.
LEMMA OwnedCounted ==
    ASSUME RefCountExact, NEW s \in Slot, Owned(s)
    PROVE  ref_count[s] >= 1
  BY PinnersFinite DEF RefCountExact, One

\* So has the one VACUUM works on.
LEMMA VacuumCounted ==
    ASSUME RefCountExact, NEW s \in Slot, vslot = s
    PROVE  ref_count[s] >= 1
  BY PinnersFinite DEF RefCountExact, One

\* And any that a search pins.
LEMMA PinCounted ==
    ASSUME RefCountExact, NEW s \in Slot, NEW x \in Searcher, s \in pins[x]
    PROVE  ref_count[s] >= 1
<1>1. Pinners(s) # {}
  BY DEF Pinners
<1>2. Cardinality(Pinners(s)) # 0
  BY <1>1, PinnersFinite, FS_EmptySet
<1> QED
  BY <1>2, PinnersFinite DEF RefCountExact, One

\* Conversely, register_and_set_memtable finds a reference count of zero only
\* on a slot nobody uses.
LEMMA FreeSlot ==
    ASSUME RefCountExact, NEW s \in Slot, ref_count[s] = 0
    PROVE  /\ ~Owned(s)
           /\ vslot # s
           /\ \A x \in Searcher : s \notin pins[x]
<1>1. ~Owned(s)
  BY OwnedCounted
<1>2. vslot # s
  BY VacuumCounted
<1>3. \A x \in Searcher : s \notin pins[x]
  BY PinCounted
<1> QED
  BY <1>1, <1>2, <1>3

\* The slots handed out are slots of the array.
LEMMA ValidIndex ==
    ASSUME SlotTypes, NEW s \in Slot
    PROVE  Valid(s) \subseteq Index
  BY SizeAssumption DEF Valid, Index, MinOf, SlotTypes

\* The empty list of sids is a list of sids.
LEMMA EmptySids == <<>> \in Seq(Nat)
  OBVIOUS

-----------------------------------------------------------------------------
\* enqueue_sealed_memtable adds exactly the slot rotated out.
LEMMA EnqueueEffect ==
    ASSUME IndInv, NEW b \in Backend, RotateEnqueue(b)
    PROVE  /\ islot[b] \in Slot
           /\ ~InQueue(islot[b])
           /\ \A s \in Slot : InQueue(s)' <=> InQueue(s) \/ s = islot[b]
<1>1. islot[b] \in Slot /\ Going(b, islot[b])
  BY DEF RotateEnqueue, IndInv, Shape, Roles, Going
<1>2. memtable_count \in Position /\ memtable_count' = memtable_count + 1
  BY SizeAssumption DEF RotateEnqueue, IndInv, TypeOK, IndexTypes, Position
<1>3. \A p \in Position : memtable_idxs'[p] = IF p = memtable_count
                                              THEN islot[b]
                                              ELSE memtable_idxs[p]
  BY <1>2 DEF RotateEnqueue, IndInv, TypeOK, IndexTypes
<1>4. ~InQueue(islot[b])
  BY <1>1 DEF IndInv, Roles
<1>5. ASSUME NEW s \in Slot
      PROVE  InQueue(s)' <=> InQueue(s) \/ s = islot[b]
  <2>1. ASSUME InQueue(s)' PROVE InQueue(s) \/ s = islot[b]
    BY <1>2, <1>3, <2>1 DEF InQueue, Position
  <2>2. ASSUME InQueue(s) PROVE InQueue(s)'
    BY <1>2, <1>3, <2>2 DEF InQueue, Position
  <2>3. memtable_idxs'[memtable_count] = islot[b] /\ memtable_count < memtable_count'
    BY <1>2, <1>3 DEF Position
  <2>4. ASSUME s = islot[b] PROVE InQueue(s)'
    BY <1>2, <2>3, <2>4 DEF InQueue
  <2> QED
    BY <2>1, <2>2, <2>4
<1> QED
  BY <1>1, <1>4, <1>5

\* handoff_unlink removes exactly the slot that was flushed.
LEMMA UnlinkEffect ==
    ASSUME IndInv, FlushUnlink
    PROVE  \A s \in Slot : InQueue(s)' <=> InQueue(s) /\ s # fslot
<1>1. PICK p \in Position :
         /\ p < memtable_count
         /\ memtable_idxs[p] = fslot
         /\ memtable_idxs' =
               [q \in Position |-> IF p <= q /\ q + 1 < memtable_count
                                   THEN memtable_idxs[q + 1]
                                   ELSE memtable_idxs[q]]
  BY DEF FlushUnlink
<1>2. memtable_count \in 1 .. MEMTABLE_NUM /\ memtable_count' = memtable_count - 1
  BY <1>1, SizeAssumption DEF FlushUnlink, IndInv, TypeOK, IndexTypes, Position
<1>3. ASSUME NEW s \in Slot, InQueue(s)'
      PROVE  InQueue(s) /\ s # fslot
  <2>1. PICK q \in Position : q < memtable_count - 1 /\ memtable_idxs'[q] = s
    BY <1>2, <1>3 DEF InQueue
  <2>2. CASE q < p
    BY <1>1, <1>2, <2>1, <2>2 DEF InQueue, Position, IndInv, QueueInv
  <2>3. CASE p <= q
    <3>1. q + 1 \in Position /\ memtable_idxs[q + 1] = s /\ q + 1 # p
      BY <1>1, <1>2, <2>1, <2>3, SizeAssumption DEF Position
    <3> QED
      BY <1>1, <1>2, <2>1, <3>1 DEF InQueue, Position, IndInv, QueueInv
  <2> QED
    BY <2>2, <2>3 DEF Position
<1>4. ASSUME NEW s \in Slot, InQueue(s), s # fslot
      PROVE  InQueue(s)'
  <2>1. PICK q \in Position : q < memtable_count /\ memtable_idxs[q] = s
    BY <1>4 DEF InQueue
  <2>2. CASE q < p
    BY <1>1, <1>2, <2>1, <2>2 DEF InQueue, Position
  <2>3. CASE p < q
    <3>1. q - 1 \in Position /\ memtable_idxs'[q - 1] = s
      BY <1>1, <1>2, <2>1, <2>3, SizeAssumption DEF Position
    <3> QED
      BY <1>2, <2>1, <3>1 DEF InQueue, Position
  <2> QED
    BY <1>1, <1>4, <2>1, <2>2, <2>3 DEF Position
<1> QED
  BY <1>3, <1>4


-----------------------------------------------------------------------------
(* The types.                                                              *)

\* Types of the memtable slots.  Reference counts stay natural numbers because
\* whoever drops a reference holds one.
LEMMA SlotTypesStep ==
    ASSUME IndInv, [Next]_vars
    PROVE  SlotTypes'
<1>1. CASE UNCHANGED slotVars
  BY <1>1 DEF IndInv, TypeOK, SlotTypes
<1>2. ASSUME NEW b \in Backend, Reserve(b) PROVE SlotTypes'
  BY <1>2 DEF Reserve, ReserveBelow, Goto, IndInv, TypeOK, SlotTypes
<1>3. ASSUME NEW b \in Backend, ReserveFull(b) PROVE SlotTypes'
  <2>1. CASE sealed[growing_memtable_idx]
    BY <1>3, <2>1 DEF ReserveFull, IndInv, TypeOK, SlotTypes
  <2>2. CASE ~sealed[growing_memtable_idx]
    <3>1. current_size' \in [Slot -> Nat]
      BY <1>3, <2>2 DEF ReserveFull, IndInv, TypeOK, SlotTypes
    <3>2. sealed' \in [Slot -> BOOLEAN]
      BY <1>3, <2>2 DEF ReserveFull, IndInv, TypeOK, SlotTypes
    <3> QED
      BY <1>3, <3>1, <3>2 DEF ReserveFull, IndInv, TypeOK, SlotTypes
  <2> QED
    BY <2>1, <2>2
<1>4. ASSUME NEW b \in Backend, WriteRow(b) PROVE SlotTypes'
  BY <1>4 DEF WriteRow, Goto, IndInv, TypeOK, SlotTypes, InsertTypes, AnyRow
<1>5. ASSUME NEW b \in Backend, Publish(b) PROVE SlotTypes'
  BY <1>5 DEF Publish, Goto, IndInv, TypeOK, SlotTypes, Shape, Index
<1>6. ASSUME NEW b \in Backend, RotateAlloc(b) PROVE SlotTypes'
  BY <1>6 DEF RotateAlloc, SetMemtable, Goto, IndInv, TypeOK,
     SlotTypes, IndexTypes
<1>7. ASSUME NEW b \in Backend, InsertError(b) PROVE SlotTypes'
  <2>1. CASE UNCHANGED slotVars
    BY <2>1 DEF IndInv, TypeOK, SlotTypes
  <2>2. CASE tids' = [tids EXCEPT ![islot[b]][iidx[b]] = irow[b]] /\
             UNCHANGED <<ref_count, memtable_id, current_size, sealed,
                         flush_claimed, ready, bitmap>>
    BY <2>2 DEF IndInv, TypeOK, SlotTypes, InsertTypes, AnyRow
  <2>3. CASE \E s \in Slot : SetMemtable(s)
    BY <2>3 DEF SetMemtable, IndInv, TypeOK, SlotTypes, IndexTypes
  <2> QED
    BY <1>7, <2>1, <2>2, <2>3 DEF InsertError
<1>8. CASE FlushClaim
  BY <1>8 DEF FlushClaim, IndInv, TypeOK, SlotTypes
<1>9. CASE FlushRelease
  BY <1>9, OwnedCounted DEF FlushRelease, IndInv, TypeOK, SlotTypes, Shape,
     Owned
<1>10. ASSUME NEW x \in Searcher, SearchSnapshot(x) PROVE SlotTypes'
  BY <1>10 DEF SearchSnapshot, Snapshot, SnapshotSlots, InQueue, IndInv,
     TypeOK, SlotTypes
<1>11. ASSUME NEW x \in Searcher, SearchGrowing(x) PROVE SlotTypes'
  BY <1>11, PinCounted DEF SearchGrowing, SearchSlot, IndInv, TypeOK,
     SlotTypes, Shape, SearchTypes
<1>12. ASSUME NEW x \in Searcher, SearchSealed(x) PROVE SlotTypes'
  BY <1>12, PinCounted DEF SearchSealed, SearchSlot, IndInv, TypeOK,
     SlotTypes, SearchTypes
<1>13. ASSUME NEW x \in Searcher, SearchError(x) PROVE SlotTypes'
  BY <1>13, PinCounted DEF SearchError, SearchReset, IndInv, TypeOK,
     SlotTypes, SearchTypes
<1>14. CASE VacuumPinGrowing
  <2>1. ref_count' \in [Slot -> Nat]
    <3>1. CASE growing_memtable_idx \in Slot
      BY <1>14, <3>1 DEF VacuumPinGrowing, VacuumPin, IndInv, TypeOK, SlotTypes
    <3>2. CASE growing_memtable_idx \notin Slot
      BY <1>14, <3>2 DEF VacuumPinGrowing, IndInv, TypeOK, SlotTypes
    <3> QED
      BY <3>1, <3>2
  <2> QED
    BY <1>14, <2>1 DEF VacuumPinGrowing, IndInv, TypeOK, SlotTypes
<1>15. CASE VacuumPinSealed
  BY <1>15, SMTT(40) DEF VacuumPinSealed, VacuumPick, VacuumPin, IndInv, TypeOK,
     SlotTypes, QueueInv
<1>16. CASE VacuumMark
  <2>1. Valid(vslot) \subseteq Index
    BY <1>16, ValidIndex DEF VacuumMark, IndInv, TypeOK, Shape
  <2>2. bitmap' \in [Slot -> SUBSET Index]
    BY <1>16, <2>1 DEF VacuumMark, IndInv, TypeOK, SlotTypes
  <2> QED
    BY <1>16, <2>2 DEF VacuumMark, IndInv, TypeOK, SlotTypes
<1>17. CASE VacuumUnpin
  BY <1>17, VacuumCounted DEF VacuumUnpin, IndInv, TypeOK, SlotTypes, Shape
<1>18. ASSUME NEW b \in Backend, Insert(b) PROVE SlotTypes'
  BY <1>18, <1>1, <1>2, <1>3, <1>4, <1>5, <1>6 DEF Insert, InsertBegin, Goto,
     TakeFlushed, SkipRelease, ReleaseFlushed, ReleaseStatus, NoGrowing,
     RotateBegin, RotateIf, RotateWait, RotateEnqueue, RotateInstall
<1>19. CASE Flush
  BY <1>19, <1>1, <1>8, <1>9 DEF Flush, FlushWrite, FlushFiles, FlushRegister,
     FlushTrack, FlushUnlink, FlushUnlock
<1>20. ASSUME NEW x \in Searcher, Search(x) \/ SearchError(x) PROVE SlotTypes'
  BY <1>20, <1>1, <1>10, <1>11, <1>12, <1>13 DEF Search, SearchBegin,
     WorkerSearch, SearchReturn, SearchEnd, SearchReset
<1>21. ASSUME NEW r \in Row, DeleteRow(r) PROVE SlotTypes'
  BY <1>21, <1>1 DEF DeleteRow
<1>22. CASE Vacuum
  BY <1>22, <1>1, <1>14, <1>15, <1>16, <1>17 DEF Vacuum, VacuumBegin,
     VacuumSegments, VacuumEnd
<1> QED
  BY <1>1, <1>18, <1>7, <1>19, <1>20, <1>21, <1>22 DEF vars, Next

\* Types of the index record: the queue stays within its array because
\* enqueue_sealed_memtable waits and handoff_unlink only removes what is
\* there.
LEMMA IndexTypesStep ==
    ASSUME IndInv, [Next]_vars
    PROVE  IndexTypes'
<1>1. CASE UNCHANGED <<indexVars, relVars>>
  BY <1>1 DEF IndInv, TypeOK, IndexTypes
<1>2. ASSUME NEW b \in Backend, TakeFlushed(b) PROVE IndexTypes'
  BY <1>2, EmptySids DEF TakeFlushed, Goto, IndInv, TypeOK, IndexTypes
<1>3. ASSUME NEW b \in Backend, ReleaseFlushed(b) PROVE IndexTypes'
  BY <1>3, EmptySids DEF ReleaseFlushed, ReleaseStatus, Goto, IndInv, TypeOK,
     IndexTypes
<1>4. ASSUME NEW b \in Backend, RotateBegin(b) PROVE IndexTypes'
  BY <1>4 DEF RotateBegin, RotateIf, Goto, IndInv, TypeOK, IndexTypes
<1>5. ASSUME NEW b \in Backend, RotateAlloc(b) PROVE IndexTypes'
  BY <1>5 DEF RotateAlloc, SetMemtable, Goto, IndInv, TypeOK,
     IndexTypes
<1>6. ASSUME NEW b \in Backend, RotateEnqueue(b) PROVE IndexTypes'
  BY <1>6, SizeAssumption DEF RotateEnqueue, Goto, IndInv, TypeOK, IndexTypes,
     InsertTypes, AnySlot, Position
<1>7. ASSUME NEW b \in Backend, RotateInstall(b) PROVE IndexTypes'
  BY <1>7 DEF RotateInstall, Goto, IndInv, TypeOK, IndexTypes, Roles
<1>8. ASSUME NEW b \in Backend, InsertError(b) PROVE IndexTypes'
  <2>1. taken' \in Seq(Nat)
    BY <1>8, EmptySids DEF InsertError, IndInv, TypeOK, IndexTypes
  <2>2. next_segment_id' \in Nat
    BY <1>8 DEF InsertError, SetMemtable, IndInv, TypeOK, IndexTypes
  <2> QED
    BY <1>8, <2>1, <2>2 DEF InsertError, IndInv, TypeOK, IndexTypes
<1>9. CASE FlushTrack
  BY <1>9 DEF FlushTrack, IndInv, TypeOK, IndexTypes, Shape, SlotTypes
<1>10. CASE FlushUnlink
  BY <1>10, SizeAssumption DEF FlushUnlink, IndInv, TypeOK, IndexTypes,
     Position
<1>11. ASSUME NEW b \in Backend, Insert(b) PROVE IndexTypes'
  BY <1>11, <1>1, <1>2, <1>3, <1>4, <1>5, <1>6, <1>7 DEF Insert, InsertBegin,
     Goto, SkipRelease, Reserve, ReserveBelow, ReserveFull, NoGrowing,
     WriteRow, Publish, RotateWait
<1>12. CASE Flush
  BY <1>12, <1>1, <1>9, <1>10 DEF Flush, FlushClaim, FlushWrite, FlushFiles,
     FlushRegister, FlushRelease, FlushUnlock
<1>13. ASSUME NEW x \in Searcher, Search(x) \/ SearchError(x) PROVE IndexTypes'
  BY <1>13, <1>1 DEF Search, SearchBegin, SearchSnapshot, Snapshot,
     WorkerSearch, SearchGrowing, SearchSlot, SearchSealed, SearchReturn,
     SearchEnd, SearchReset, SearchError
<1>14. ASSUME NEW r \in Row, DeleteRow(r) PROVE IndexTypes'
  BY <1>14, <1>1 DEF DeleteRow
<1>15. CASE Vacuum
  BY <1>15, <1>1 DEF Vacuum, VacuumBegin, VacuumPinGrowing, VacuumPin,
     VacuumPinSealed, VacuumPick, VacuumMark, VacuumUnpin, VacuumSegments,
     VacuumEnd
<1> QED
  BY <1>1, <1>11, <1>8, <1>12, <1>13, <1>14, <1>15 DEF vars, Next

\* Types of the segment files, the pool, the status pages and the heap.
LEMMA StoreTypesStep ==
    ASSUME IndInv, [Next]_vars
    PROVE  StoreTypes'
<1>1. CASE UNCHANGED <<segVars, statusVars, heap>>
  BY <1>1 DEF IndInv, TypeOK, StoreTypes
<1>2. ASSUME NEW b \in Backend, InsertBegin(b) PROVE StoreTypes'
  BY <1>2 DEF InsertBegin, Goto, IndInv, TypeOK, StoreTypes
<1>3. ASSUME NEW b \in Backend, ReleaseFlushed(b) PROVE StoreTypes'
  BY <1>3 DEF ReleaseFlushed, ReleaseStatus, Goto, IndInv, TypeOK, StoreTypes
<1>4. ASSUME NEW b \in Backend, WriteRow(b) PROVE StoreTypes'
  BY <1>4 DEF WriteRow, Goto, IndInv, TypeOK, StoreTypes, InsertTypes
<1>5. ASSUME NEW b \in Backend, Publish(b) PROVE StoreTypes'
  BY <1>5 DEF Publish, Goto, IndInv, TypeOK, StoreTypes
<1>6. ASSUME NEW b \in Backend, RotateAlloc(b) PROVE StoreTypes'
  BY <1>6 DEF RotateAlloc, SetMemtable, Goto, IndInv, TypeOK,
     StoreTypes, IndexTypes
<1>7. ASSUME NEW b \in Backend, InsertError(b) PROVE StoreTypes'
  <2>1. status_rows' \subseteq Nat \X AnyRow
    <3>1. CASE UNCHANGED status_rows
      BY <3>1 DEF IndInv, TypeOK, StoreTypes
    <3>2. CASE ipc[b] = "release"
      BY <1>7, <3>2 DEF InsertError, ReleaseStatus, IndInv, TypeOK, StoreTypes
    <3>3. CASE ipc[b] = "write"
      <4>1. memtable_id[islot[b]] \in Nat /\ irow[b] \in AnyRow
        BY <3>3 DEF IndInv, TypeOK, Shape, SlotTypes, InsertTypes
      <4> QED
        BY <1>7, <3>3, <4>1 DEF InsertError, IndInv, TypeOK, StoreTypes
    <3> QED
      BY <1>7, <3>1, <3>2, <3>3 DEF InsertError
  <2>2. status_sids' \subseteq Nat
    BY <1>7 DEF InsertError, ReleaseStatus, IndInv, TypeOK, StoreTypes
  <2> QED
    BY <1>7, <2>1, <2>2 DEF InsertError, IndInv, TypeOK, StoreTypes
<1>8. CASE FlushWrite
  <2>1. /\ fslot \in Slot
        /\ memtable_id[fslot] \in Nat
        /\ Valid(fslot) \subseteq Index
    BY <1>8, ValidIndex DEF FlushWrite, IndInv, TypeOK, SlotTypes, Shape
  <2>2. \A i \in Valid(fslot) : tids[fslot][i] \in AnyRow
    BY <2>1 DEF IndInv, TypeOK, SlotTypes
  <2>3. disk_rows' \subseteq Nat \X AnyRow
    <3>1. \A e \in disk_rows' : \/ e \in disk_rows
                               \/ \E i \in Valid(fslot) :
                                     e = <<memtable_id[fslot], tids[fslot][i]>>
      BY <1>8 DEF FlushWrite, FlushFiles
    <3> QED
      BY <2>1, <2>2, <3>1 DEF IndInv, TypeOK, StoreTypes
  <2> QED
    BY <1>8, <2>1, <2>3 DEF FlushWrite, FlushFiles, IndInv, TypeOK, StoreTypes
<1>9. CASE FlushRegister
  BY <1>9, ZenonT(40) DEF FlushRegister, IndInv, TypeOK, StoreTypes, Shape, SlotTypes
<1>10. ASSUME NEW r \in Row, DeleteRow(r) PROVE StoreTypes'
  BY <1>10 DEF DeleteRow, IndInv, TypeOK, StoreTypes
<1>11. CASE VacuumMark
  BY <1>11 DEF VacuumMark, Valid, IndInv, TypeOK, StoreTypes
<1>12. CASE VacuumSegments
  BY <1>12 DEF VacuumSegments, IndInv, TypeOK, StoreTypes
<1>13. CASE VacuumEnd
  BY <1>13 DEF VacuumEnd, IndInv, TypeOK, StoreTypes
<1>14. ASSUME NEW b \in Backend, Insert(b) PROVE StoreTypes'
  BY <1>14, <1>1, <1>2, <1>3, <1>4, <1>5, <1>6 DEF Insert, TakeFlushed, Goto,
     SkipRelease, Reserve, ReserveBelow, ReserveFull, NoGrowing, RotateBegin,
     RotateIf, RotateWait, RotateEnqueue, RotateInstall
<1>15. CASE Flush
  BY <1>15, <1>1, <1>8, <1>9 DEF Flush, FlushClaim, FlushTrack, FlushUnlink,
     FlushRelease, FlushUnlock
<1>16. ASSUME NEW x \in Searcher, Search(x) \/ SearchError(x) PROVE StoreTypes'
  BY <1>16, <1>1 DEF Search, SearchBegin, SearchSnapshot, Snapshot,
     WorkerSearch, SearchGrowing, SearchSlot, SearchSealed, SearchReturn,
     SearchEnd, SearchReset, SearchError
<1>17. CASE Vacuum
  BY <1>17, <1>1, <1>11, <1>12, <1>13 DEF Vacuum, VacuumBegin,
     VacuumPinGrowing, VacuumPin, VacuumPinSealed, VacuumPick, VacuumUnpin
<1> QED
  BY <1>1, <1>14, <1>7, <1>15, <1>16, <1>10, <1>17 DEF vars, Next

\* Types of the inserters.
LEMMA InsertTypesStep ==
    ASSUME IndInv, [Next]_vars
    PROVE  InsertTypes'
<1>1. CASE UNCHANGED insVars
  BY <1>1 DEF IndInv, TypeOK, InsertTypes
<1>2. ASSUME NEW b \in Backend, InsertBegin(b) PROVE InsertTypes'
  BY <1>2 DEF InsertBegin, Goto, IndInv, TypeOK, InsertTypes, InsertPc, AnyRow
<1>3. ASSUME NEW b \in Backend, TakeFlushed(b) PROVE InsertTypes'
  BY <1>3 DEF TakeFlushed, Goto, IndInv, TypeOK, InsertTypes, InsertPc
<1>4. ASSUME NEW b \in Backend, SkipRelease(b) PROVE InsertTypes'
  BY <1>4 DEF SkipRelease, Goto, IndInv, TypeOK, InsertTypes, InsertPc
<1>5. ASSUME NEW b \in Backend, ReleaseFlushed(b) PROVE InsertTypes'
  BY <1>5 DEF ReleaseFlushed, ReleaseStatus, Goto, IndInv, TypeOK,
     InsertTypes, InsertPc
<1>6. ASSUME NEW b \in Backend, Reserve(b) PROVE InsertTypes'
  BY <1>6 DEF Reserve, ReserveBelow, Goto, IndInv, TypeOK, InsertTypes,
     InsertPc, AnySlot, SlotTypes
<1>7. ASSUME NEW b \in Backend, ReserveFull(b) PROVE InsertTypes'
  BY <1>7 DEF ReserveFull, Goto, IndInv, TypeOK, InsertTypes, InsertPc
<1>8. ASSUME NEW b \in Backend, NoGrowing(b) PROVE InsertTypes'
  BY <1>8 DEF NoGrowing, Goto, IndInv, TypeOK, InsertTypes, InsertPc
<1>9. ASSUME NEW b \in Backend, WriteRow(b) PROVE InsertTypes'
  BY <1>9 DEF WriteRow, Goto, IndInv, TypeOK, InsertTypes, InsertPc
<1>10. ASSUME NEW b \in Backend, Publish(b) PROVE InsertTypes'
  BY <1>10 DEF Publish, Goto, IndInv, TypeOK, InsertTypes, InsertPc
<1>11. ASSUME NEW b \in Backend, RotateBegin(b) PROVE InsertTypes'
  BY <1>11, ZenonT(40) DEF RotateBegin, RotateIf, Goto, IndInv, TypeOK, InsertTypes,
     InsertPc, AnySlot, IndexTypes, NoSlot
<1>12. ASSUME NEW b \in Backend, RotateWait(b) PROVE InsertTypes'
  BY <1>12 DEF RotateWait, Goto, IndInv, TypeOK, InsertTypes, InsertPc
<1>13. ASSUME NEW b \in Backend, RotateAlloc(b) PROVE InsertTypes'
  BY <1>13 DEF RotateAlloc, SetMemtable, Goto, IndInv, TypeOK,
     InsertTypes, InsertPc, AnySlot
<1>14. ASSUME NEW b \in Backend, RotateEnqueue(b) PROVE InsertTypes'
  BY <1>14 DEF RotateEnqueue, Goto, IndInv, TypeOK, InsertTypes, InsertPc
<1>15. ASSUME NEW b \in Backend, RotateInstall(b) PROVE InsertTypes'
  BY <1>15 DEF RotateInstall, Goto, IndInv, TypeOK, InsertTypes, InsertPc
<1>16. ASSUME NEW b \in Backend, InsertError(b) PROVE InsertTypes'
  BY <1>16 DEF InsertError, SetMemtable, ReleaseStatus, Goto, IndInv,
     TypeOK, InsertTypes, InsertPc
<1>17. ASSUME NEW b \in Backend, Insert(b) PROVE InsertTypes'
  BY <1>17, <1>1, <1>2, <1>3, <1>4, <1>5, <1>6, <1>7, <1>8, <1>9, <1>10,
     <1>11, <1>12, <1>13, <1>14, <1>15 DEF Insert
<1>18. CASE Flush
  BY <1>18, <1>1 DEF Flush, FlushClaim, FlushWrite, FlushFiles, FlushRegister,
     FlushTrack, FlushUnlink, FlushRelease, FlushUnlock
<1>19. ASSUME NEW x \in Searcher, Search(x) \/ SearchError(x) PROVE InsertTypes'
  BY <1>19, <1>1 DEF Search, SearchBegin, SearchSnapshot, Snapshot,
     WorkerSearch, SearchGrowing, SearchSlot, SearchSealed, SearchReturn,
     SearchEnd, SearchReset, SearchError
<1>20. ASSUME NEW r \in Row, DeleteRow(r) PROVE InsertTypes'
  BY <1>20, <1>1 DEF DeleteRow
<1>21. CASE Vacuum
  BY <1>21, <1>1 DEF Vacuum, VacuumBegin, VacuumPinGrowing, VacuumPin,
     VacuumPinSealed, VacuumPick, VacuumMark, VacuumUnpin, VacuumSegments,
     VacuumEnd
<1> QED
  BY <1>1, <1>17, <1>16, <1>18, <1>19, <1>20, <1>21 DEF vars, Next

\* Types of the searches.
LEMMA SearchTypesStep ==
    ASSUME IndInv, [Next]_vars
    PROVE  SearchTypes'
<1>1. CASE UNCHANGED searchVars
  BY <1>1 DEF IndInv, TypeOK, SearchTypes
<1>2. ASSUME NEW x \in Searcher, SearchBegin(x) PROVE SearchTypes'
  BY <1>2 DEF SearchBegin, IndInv, TypeOK, SearchTypes, SearchPc
<1>3. ASSUME NEW x \in Searcher, SearchSnapshot(x) PROVE SearchTypes'
  BY <1>3 DEF SearchSnapshot, Snapshot, SnapshotSlots, InQueue, IndInv,
     TypeOK, SearchTypes, SearchPc, AnySlot, SlotTypes
<1>4. ASSUME NEW x \in Searcher, WorkerSearch(x) PROVE SearchTypes'
  BY <1>4 DEF WorkerSearch, IndInv, TypeOK, SearchTypes, SearchPc, StoreTypes
<1>5. ASSUME NEW x \in Searcher, SearchGrowing(x) PROVE SearchTypes'
  BY <1>5, ValidIndex DEF SearchGrowing, SearchSlot, IndInv, TypeOK,
     SearchTypes, SearchPc, Hits, Shape, SlotTypes
<1>6. ASSUME NEW x \in Searcher, SearchSealed(x) PROVE SearchTypes'
  BY <1>6, ValidIndex DEF SearchSealed, SearchSlot, IndInv, TypeOK,
     SearchTypes, SearchPc, Hits, SlotTypes
<1>7. ASSUME NEW x \in Searcher, SearchReturn(x) PROVE SearchTypes'
  BY <1>7 DEF SearchReturn, IndInv, TypeOK, SearchTypes, SearchPc
<1>8. ASSUME NEW x \in Searcher, SearchEnd(x) PROVE SearchTypes'
  BY <1>8 DEF SearchEnd, SearchReset, IndInv, TypeOK, SearchTypes, SearchPc,
     AnySlot
<1>9. ASSUME NEW x \in Searcher, SearchError(x) PROVE SearchTypes'
  BY <1>9 DEF SearchError, SearchReset, IndInv, TypeOK, SearchTypes, SearchPc,
     AnySlot
<1>10. ASSUME NEW b \in Backend, Insert(b) PROVE SearchTypes'
  BY <1>10, <1>1 DEF Insert, InsertBegin, Goto, TakeFlushed, SkipRelease,
     ReleaseFlushed, ReleaseStatus, Reserve, ReserveBelow, ReserveFull,
     NoGrowing, WriteRow, Publish, RotateBegin, RotateIf, RotateWait,
     RotateAlloc, SetMemtable, RotateEnqueue, RotateInstall
<1>11. ASSUME NEW b \in Backend, InsertError(b) PROVE SearchTypes'
  BY <1>11, <1>1 DEF Goto, ReleaseStatus, SetMemtable, InsertError
<1>12. CASE Flush
  BY <1>12, <1>1 DEF Flush, FlushClaim, FlushWrite, FlushFiles, FlushRegister,
     FlushTrack, FlushUnlink, FlushRelease, FlushUnlock
<1>13. ASSUME NEW x \in Searcher, Search(x) \/ SearchError(x) PROVE SearchTypes'
  BY <1>13, <1>1, <1>2, <1>3, <1>4, <1>5, <1>6, <1>7, <1>8, <1>9 DEF Search
<1>14. ASSUME NEW r \in Row, DeleteRow(r) PROVE SearchTypes'
  BY <1>14, <1>1 DEF DeleteRow
<1>15. CASE Vacuum
  BY <1>15, <1>1 DEF Vacuum, VacuumBegin, VacuumPinGrowing, VacuumPin,
     VacuumPinSealed, VacuumPick, VacuumMark, VacuumUnpin, VacuumSegments,
     VacuumEnd
<1> QED
  BY <1>1, <1>10, <1>11, <1>12, <1>13, <1>14, <1>15 DEF vars, Next

\* Types of the flusher, of VACUUM and of the history variables.
LEMMA WorkerTypesStep ==
    ASSUME IndInv, [Next]_vars
    PROVE  WorkerTypes'
<1>1. CASE UNCHANGED <<flushVars, vacVars, histVars>>
  BY <1>1 DEF IndInv, TypeOK, WorkerTypes
<1>2. ASSUME NEW b \in Backend, RotateBegin(b) PROVE WorkerTypes'
  BY <1>2 DEF RotateBegin, RotateIf, Goto, IndInv, TypeOK, WorkerTypes,
     FlushPc, VacuumPc
<1>3. ASSUME NEW b \in Backend, InsertError(b) PROVE WorkerTypes'
  BY <1>3 DEF InsertError, SetMemtable, ReleaseStatus, Goto, IndInv,
     TypeOK, WorkerTypes, FlushPc, VacuumPc, Roles
<1>4. CASE FlushClaim
  BY <1>4 DEF FlushClaim, IndInv, TypeOK, WorkerTypes, FlushPc, VacuumPc,
     QueueInv, AnySlot
<1>5. CASE FlushWrite
  BY <1>5 DEF FlushWrite, FlushFiles, Valid, IndInv, TypeOK, WorkerTypes,
     FlushPc, VacuumPc
<1>6. CASE FlushRegister
  BY <1>6 DEF FlushRegister, IndInv, TypeOK, WorkerTypes, FlushPc, VacuumPc
<1>7. CASE FlushTrack
  BY <1>7 DEF FlushTrack, IndInv, TypeOK, WorkerTypes, FlushPc, VacuumPc
<1>8. CASE FlushUnlink
  BY <1>8 DEF FlushUnlink, IndInv, TypeOK, WorkerTypes, FlushPc, VacuumPc
<1>9. CASE FlushRelease
  BY <1>9 DEF FlushRelease, IndInv, TypeOK, WorkerTypes, FlushPc, VacuumPc
<1>10. CASE FlushUnlock
  BY <1>10 DEF FlushUnlock, IndInv, TypeOK, WorkerTypes, FlushPc, VacuumPc,
     AnySlot
<1>11. ASSUME NEW x \in Searcher, SearchError(x) PROVE WorkerTypes'
  BY <1>11 DEF SearchError, SearchReset, IndInv, TypeOK, WorkerTypes, FlushPc,
     VacuumPc
<1>12. CASE VacuumBegin
  BY <1>12 DEF VacuumBegin, IndInv, TypeOK, WorkerTypes, FlushPc, VacuumPc
<1>13. CASE VacuumPinGrowing
  BY <1>13 DEF VacuumPinGrowing, VacuumPin, IndInv, TypeOK, WorkerTypes,
     FlushPc, VacuumPc, AnySlot, SlotTypes
<1>14. CASE VacuumPinSealed
  BY <1>14 DEF VacuumPinSealed, VacuumPick, VacuumPin, IndInv, TypeOK,
     WorkerTypes, FlushPc, VacuumPc, AnySlot, SlotTypes, QueueInv
<1>15. CASE VacuumMark
  BY <1>15 DEF VacuumMark, Valid, IndInv, TypeOK, WorkerTypes, FlushPc,
     VacuumPc
<1>16. CASE VacuumUnpin
  BY <1>16 DEF VacuumUnpin, IndInv, TypeOK, WorkerTypes, FlushPc, VacuumPc,
     AnySlot
<1>17. CASE VacuumSegments
  BY <1>17 DEF VacuumSegments, IndInv, TypeOK, WorkerTypes, FlushPc, VacuumPc
<1>18. CASE VacuumEnd
  BY <1>18 DEF VacuumEnd, IndInv, TypeOK, WorkerTypes, FlushPc, VacuumPc
<1>19. ASSUME NEW b \in Backend, Insert(b) PROVE WorkerTypes'
  BY <1>19, <1>1, <1>2 DEF Insert, InsertBegin, Goto, TakeFlushed,
     SkipRelease, ReleaseFlushed, ReleaseStatus, Reserve, ReserveBelow,
     ReserveFull, NoGrowing, WriteRow, Publish, RotateWait, RotateAlloc,
     SetMemtable, RotateEnqueue, RotateInstall
<1>20. CASE Flush
  BY <1>20, <1>1, <1>4, <1>5, <1>6, <1>7, <1>8, <1>9, <1>10 DEF Flush
<1>21. ASSUME NEW x \in Searcher, Search(x) \/ SearchError(x) PROVE WorkerTypes'
  BY <1>21, <1>1, <1>11 DEF Search, SearchBegin, SearchSnapshot, Snapshot,
     WorkerSearch, SearchGrowing, SearchSlot, SearchSealed, SearchReturn,
     SearchEnd, SearchReset
<1>22. ASSUME NEW r \in Row, DeleteRow(r) PROVE WorkerTypes'
  BY <1>22, <1>1 DEF DeleteRow
<1>23. CASE Vacuum
  BY <1>23, <1>1, <1>12, <1>13, <1>14, <1>15, <1>16, <1>17, <1>18 DEF Vacuum
<1> QED
  BY <1>1, <1>19, <1>3, <1>20, <1>21, <1>22, <1>23 DEF vars, Next

-----------------------------------------------------------------------------
(* Program counters, the rotation, the queue and the roles of a slot.       *)

\* What the program counters say.
LEMMA ShapeStep ==
    ASSUME IndInv, [Next]_vars
    PROVE  Shape'
<1>1. CASE UNCHANGED <<insVars, growing_memtable_idx, fpc, fslot, vslot, vpc,
                       spc, sgrow, pins>>
  BY <1>1 DEF IndInv, TypeOK, Shape
<1>2. ASSUME NEW b \in Backend, InsertBegin(b) PROVE Shape'
  BY <1>2, SlotAssumption DEF InsertBegin, Goto, IndInv, TypeOK, Shape,
     InsertTypes
<1>3. ASSUME NEW b \in Backend, TakeFlushed(b) PROVE Shape'
  BY <1>3, SlotAssumption DEF TakeFlushed, Goto, IndInv, TypeOK, Shape,
     InsertTypes
<1>4. ASSUME NEW b \in Backend, SkipRelease(b) PROVE Shape'
  BY <1>4, SlotAssumption DEF SkipRelease, Goto, IndInv, TypeOK, Shape,
     InsertTypes
<1>5. ASSUME NEW b \in Backend, ReleaseFlushed(b) PROVE Shape'
  BY <1>5, SlotAssumption DEF ReleaseFlushed, ReleaseStatus, Goto, IndInv,
     TypeOK, Shape, InsertTypes
<1>6. ASSUME NEW b \in Backend, Reserve(b) PROVE Shape'
  BY <1>6, SlotAssumption, SizeAssumption DEF Reserve, ReserveBelow, Goto,
     IndInv, TypeOK, Shape, InsertTypes, SlotTypes, Index
<1>7. ASSUME NEW b \in Backend, ReserveFull(b) PROVE Shape'
  BY <1>7, SlotAssumption DEF ReserveFull, Goto, IndInv, TypeOK, Shape,
     InsertTypes
<1>8. ASSUME NEW b \in Backend, NoGrowing(b) PROVE Shape'
  BY <1>8, SlotAssumption DEF NoGrowing, Goto, IndInv, TypeOK, Shape,
     InsertTypes
<1>9. ASSUME NEW b \in Backend, WriteRow(b) PROVE Shape'
  BY <1>9, SlotAssumption DEF WriteRow, Goto, IndInv, TypeOK, Shape,
     InsertTypes
<1>10. ASSUME NEW b \in Backend, Publish(b) PROVE Shape'
  BY <1>10, SlotAssumption DEF Publish, Goto, IndInv, TypeOK, Shape,
     InsertTypes
<1>11. ASSUME NEW b \in Backend, RotateBegin(b) PROVE Shape'
  BY <1>11, SlotAssumption DEF RotateBegin, RotateIf, Goto, IndInv, TypeOK,
     Shape, InsertTypes
<1>12. ASSUME NEW b \in Backend, RotateWait(b) PROVE Shape'
  BY <1>12, SlotAssumption DEF RotateWait, Goto, IndInv, TypeOK, Shape,
     InsertTypes
<1>13. ASSUME NEW b \in Backend, RotateAlloc(b) PROVE Shape'
  BY <1>13, SlotAssumption DEF RotateAlloc, SetMemtable, Goto,
     IndInv, TypeOK, Shape, InsertTypes
<1>14. ASSUME NEW b \in Backend, RotateEnqueue(b) PROVE Shape'
  BY <1>14, SlotAssumption DEF RotateEnqueue, Goto, IndInv, TypeOK, Shape,
     InsertTypes
<1>15. ASSUME NEW b \in Backend, RotateInstall(b) PROVE Shape'
  BY <1>15, SlotAssumption DEF RotateInstall, Goto, IndInv, TypeOK, Shape,
     InsertTypes, Roles
<1>16. ASSUME NEW b \in Backend, InsertError(b) PROVE Shape'
  BY <1>16, SlotAssumption DEF InsertError, SetMemtable,
     ReleaseStatus, Goto, IndInv, TypeOK, Shape, InsertTypes
<1>17. CASE FlushClaim
  BY <1>17, SlotAssumption DEF FlushClaim, IndInv, TypeOK, Shape, InsertTypes,
     QueueInv
<1>18. CASE FlushWrite
  BY <1>18, SlotAssumption DEF FlushWrite, FlushFiles, Valid, IndInv, TypeOK,
     Shape, InsertTypes
<1>19. CASE FlushRegister
  BY <1>19, SlotAssumption DEF FlushRegister, IndInv, TypeOK, Shape,
     InsertTypes
<1>20. CASE FlushTrack
  BY <1>20, SlotAssumption DEF FlushTrack, IndInv, TypeOK, Shape, InsertTypes
<1>21. CASE FlushUnlink
  BY <1>21, SlotAssumption DEF FlushUnlink, IndInv, TypeOK, Shape, InsertTypes
<1>22. CASE FlushRelease
  BY <1>22, SlotAssumption DEF FlushRelease, IndInv, TypeOK, Shape,
     InsertTypes
<1>23. CASE FlushUnlock
  BY <1>23, SlotAssumption DEF FlushUnlock, IndInv, TypeOK, Shape,
     InsertTypes, NoSlot
<1>24. ASSUME NEW x \in Searcher, SearchBegin(x) PROVE Shape'
  BY <1>24, SlotAssumption DEF SearchBegin, IndInv, TypeOK, Shape,
     InsertTypes, SearchTypes
<1>25. ASSUME NEW x \in Searcher, SearchSnapshot(x) PROVE Shape'
  BY <1>25, SlotAssumption DEF SearchSnapshot, Snapshot, SnapshotSlots,
     InQueue, IndInv, TypeOK, Shape, InsertTypes, SearchTypes
<1>26. ASSUME NEW x \in Searcher, SearchGrowing(x) PROVE Shape'
  BY <1>26, SlotAssumption DEF SearchGrowing, SearchSlot, IndInv, TypeOK,
     Shape, InsertTypes, SearchTypes
<1>27. ASSUME NEW x \in Searcher, SearchSealed(x) PROVE Shape'
  BY <1>27, SlotAssumption DEF SearchSealed, SearchSlot, IndInv, TypeOK,
     Shape, InsertTypes, SearchTypes
<1>28. ASSUME NEW x \in Searcher, SearchReturn(x) PROVE Shape'
  BY <1>28, SlotAssumption DEF SearchReturn, IndInv, TypeOK, Shape,
     InsertTypes, SearchTypes
<1>29. ASSUME NEW x \in Searcher, SearchEnd(x) PROVE Shape'
  BY <1>29, SlotAssumption DEF SearchEnd, SearchReset, IndInv, TypeOK, Shape,
     InsertTypes, SearchTypes
<1>30. ASSUME NEW x \in Searcher, SearchError(x) PROVE Shape'
  BY <1>30, SlotAssumption DEF SearchError, SearchReset, IndInv, TypeOK,
     Shape, InsertTypes, SearchTypes
<1>31. CASE VacuumBegin
  BY <1>31, SlotAssumption DEF VacuumBegin, IndInv, TypeOK, Shape, InsertTypes
<1>32. CASE VacuumPinGrowing
  BY <1>32, SlotAssumption DEF VacuumPinGrowing, VacuumPin, IndInv, TypeOK,
     Shape, InsertTypes
<1>33. CASE VacuumPinSealed
  BY <1>33, SlotAssumption DEF VacuumPinSealed, VacuumPick, VacuumPin, IndInv,
     TypeOK, Shape, InsertTypes, QueueInv
<1>34. CASE VacuumMark
  BY <1>34, SlotAssumption DEF VacuumMark, Valid, IndInv, TypeOK, Shape,
     InsertTypes
<1>35. CASE VacuumUnpin
  BY <1>35, SlotAssumption DEF VacuumUnpin, IndInv, TypeOK, Shape,
     InsertTypes, NoSlot
<1>36. CASE VacuumSegments
  BY <1>36, SlotAssumption DEF VacuumSegments, IndInv, TypeOK, Shape,
     InsertTypes
<1>37. CASE VacuumEnd
  BY <1>37, SlotAssumption DEF VacuumEnd, IndInv, TypeOK, Shape, InsertTypes
<1> QED
  BY <1>1, <1>2, <1>3, <1>4, <1>5, <1>6, <1>7, <1>8, <1>9, <1>10, <1>11,
     <1>12, <1>13, <1>14, <1>15, <1>16, <1>17, <1>18, <1>19, <1>20, <1>21,
     <1>22, <1>23, <1>24, <1>25, <1>26, <1>27, <1>28, <1>29, <1>30, <1>31,
     <1>32, <1>33, <1>34, <1>35, <1>36, <1>37 DEF vars, Next, Insert, Flush,
     Search, Vacuum, WorkerSearch, DeleteRow

\* MT_IDX_ROTATING excludes a second rotation.
LEMMA RotateMutexStep ==
    ASSUME IndInv, [Next]_vars
    PROVE  RotateMutex'
<1>1. CASE UNCHANGED <<ipc, growing_memtable_idx>>
  BY <1>1 DEF IndInv, TypeOK, RotateMutex, Rotating
<1>2. ASSUME NEW b \in Backend, InsertBegin(b) PROVE RotateMutex'
  BY <1>2, SlotAssumption DEF InsertBegin, Goto, IndInv, TypeOK, InsertTypes,
     RotateMutex, Rotating
<1>3. ASSUME NEW b \in Backend, TakeFlushed(b) PROVE RotateMutex'
  BY <1>3, SlotAssumption DEF TakeFlushed, Goto, IndInv, TypeOK, InsertTypes,
     RotateMutex, Rotating
<1>4. ASSUME NEW b \in Backend, SkipRelease(b) PROVE RotateMutex'
  BY <1>4, SlotAssumption DEF SkipRelease, Goto, IndInv, TypeOK, InsertTypes,
     RotateMutex, Rotating
<1>5. ASSUME NEW b \in Backend, ReleaseFlushed(b) PROVE RotateMutex'
  BY <1>5, SlotAssumption DEF ReleaseFlushed, ReleaseStatus, Goto, IndInv,
     TypeOK, InsertTypes, RotateMutex, Rotating
<1>6. ASSUME NEW b \in Backend, Reserve(b) PROVE RotateMutex'
  BY <1>6, SlotAssumption DEF Reserve, ReserveBelow, Goto, IndInv, TypeOK,
     InsertTypes, RotateMutex, Rotating
<1>7. ASSUME NEW b \in Backend, ReserveFull(b) PROVE RotateMutex'
  BY <1>7, SlotAssumption DEF ReserveFull, Goto, IndInv, TypeOK, InsertTypes,
     RotateMutex, Rotating
<1>8. ASSUME NEW b \in Backend, NoGrowing(b) PROVE RotateMutex'
  BY <1>8, SlotAssumption DEF NoGrowing, Goto, IndInv, TypeOK, InsertTypes,
     RotateMutex, Rotating
<1>9. ASSUME NEW b \in Backend, WriteRow(b) PROVE RotateMutex'
  BY <1>9, SlotAssumption DEF WriteRow, Goto, IndInv, TypeOK, InsertTypes,
     RotateMutex, Rotating
<1>10. ASSUME NEW b \in Backend, Publish(b) PROVE RotateMutex'
  BY <1>10, SlotAssumption DEF Publish, Goto, IndInv, TypeOK, InsertTypes,
     RotateMutex, Rotating
<1>11. ASSUME NEW b \in Backend, RotateBegin(b) PROVE RotateMutex'
  BY <1>11, SlotAssumption DEF RotateBegin, RotateIf, Goto, IndInv, TypeOK,
     InsertTypes, RotateMutex, Rotating
<1>12. ASSUME NEW b \in Backend, RotateWait(b) PROVE RotateMutex'
  BY <1>12, SlotAssumption DEF RotateWait, Goto, IndInv, TypeOK, InsertTypes,
     RotateMutex, Rotating
<1>13. ASSUME NEW b \in Backend, RotateAlloc(b) PROVE RotateMutex'
  BY <1>13, SlotAssumption DEF RotateAlloc, SetMemtable, Goto,
     IndInv, TypeOK, InsertTypes, RotateMutex, Rotating
<1>14. ASSUME NEW b \in Backend, RotateEnqueue(b) PROVE RotateMutex'
  BY <1>14, SlotAssumption DEF RotateEnqueue, Goto, IndInv, TypeOK,
     InsertTypes, RotateMutex, Rotating
<1>15. ASSUME NEW b \in Backend, RotateInstall(b) PROVE RotateMutex'
  BY <1>15, SlotAssumption DEF RotateInstall, Goto, IndInv, TypeOK,
     InsertTypes, RotateMutex, Rotating
<1>16. ASSUME NEW b \in Backend, InsertError(b) PROVE RotateMutex'
  BY <1>16, SlotAssumption DEF InsertError, SetMemtable,
     ReleaseStatus, Goto, IndInv, TypeOK, InsertTypes, RotateMutex, Rotating
<1>17. ASSUME NEW b \in Backend, Insert(b) PROVE RotateMutex'
  BY <1>17, <1>1, <1>2, <1>3, <1>4, <1>5, <1>6, <1>7, <1>8, <1>9, <1>10,
     <1>11, <1>12, <1>13, <1>14, <1>15 DEF Insert
<1>18. CASE Flush
  BY <1>18, <1>1 DEF Flush, FlushClaim, FlushWrite, FlushFiles, FlushRegister,
     FlushTrack, FlushUnlink, FlushRelease, FlushUnlock
<1>19. ASSUME NEW x \in Searcher, Search(x) \/ SearchError(x) PROVE RotateMutex'
  BY <1>19, <1>1 DEF Search, SearchBegin, SearchSnapshot, Snapshot,
     WorkerSearch, SearchGrowing, SearchSlot, SearchSealed, SearchReturn,
     SearchEnd, SearchReset, SearchError
<1>20. ASSUME NEW r \in Row, DeleteRow(r) PROVE RotateMutex'
  BY <1>20, <1>1 DEF DeleteRow
<1>21. CASE Vacuum
  BY <1>21, <1>1 DEF Vacuum, VacuumBegin, VacuumPinGrowing, VacuumPin,
     VacuumPinSealed, VacuumPick, VacuumMark, VacuumUnpin, VacuumSegments,
     VacuumEnd
<1> QED
  BY <1>1, <1>17, <1>16, <1>18, <1>19, <1>20, <1>21 DEF vars, Next

\* The queue holds no slot twice, and still holds the one being flushed.
LEMMA QueueInvStep ==
    ASSUME IndInv, [Next]_vars
    PROVE  QueueInv'
<1>1. CASE UNCHANGED <<memtable_idxs, memtable_count, fpc, fslot>>
  BY <1>1 DEF IndInv, TypeOK, QueueInv, InQueue
<1>2. ASSUME NEW b \in Backend, RotateEnqueue(b) PROVE QueueInv'
  <2>1. islot[b] \in Slot /\ ~InQueue(islot[b])
    BY <1>2, EnqueueEffect
  <2>2. memtable_count \in Position /\ memtable_count' = memtable_count + 1
    BY <1>2, SizeAssumption DEF RotateEnqueue, IndInv, TypeOK, IndexTypes, Position
  <2>3. \A p \in Position : memtable_idxs'[p] = IF p = memtable_count
                                                THEN islot[b]
                                                ELSE memtable_idxs[p]
    BY <1>2, <2>2 DEF RotateEnqueue, IndInv, TypeOK, IndexTypes
  <2>4. \A p \in Position : p < memtable_count' =>
           p = memtable_count \/ p < memtable_count
    BY <2>2 DEF Position
  <2>5. \A p \in Position : p < memtable_count => memtable_idxs[p] # islot[b]
    BY <2>1 DEF InQueue
  <2>6. fpc \in {"wait", "written", "registered", "tracked"} => InQueue(fslot)'
    BY <1>2, EnqueueEffect DEF RotateEnqueue, IndInv, QueueInv, Shape
  <2>7. \A p \in Position : p < memtable_count' => memtable_idxs'[p] \in Slot
    BY <2>1, <2>3, <2>4 DEF IndInv, QueueInv
  <2>8. \A p, q \in Position :
           /\ p < memtable_count'
           /\ q < memtable_count'
           /\ memtable_idxs'[p] = memtable_idxs'[q]
           => p = q
    BY <2>3, <2>4, <2>5 DEF IndInv, QueueInv
  <2> QED
    BY <1>2, <2>6, <2>7, <2>8 DEF RotateEnqueue, QueueInv
<1>3. CASE FlushClaim
  BY <1>3 DEF FlushClaim, IndInv, TypeOK, QueueInv, InQueue
<1>4. CASE FlushWrite
  BY <1>4 DEF FlushWrite, FlushFiles, Valid, IndInv, TypeOK, QueueInv, InQueue
<1>5. CASE FlushRegister
  BY <1>5 DEF FlushRegister, IndInv, TypeOK, QueueInv, InQueue
<1>6. CASE FlushTrack
  BY <1>6 DEF FlushTrack, IndInv, TypeOK, QueueInv, InQueue
<1>7. CASE FlushUnlink
  BY <1>7, SizeAssumption DEF FlushUnlink, IndInv, TypeOK, QueueInv, InQueue,
     Position, IndexTypes
<1>8. CASE FlushRelease
  BY <1>8 DEF FlushRelease, IndInv, TypeOK, QueueInv, InQueue
<1>9. CASE FlushUnlock
  BY <1>9 DEF FlushUnlock, IndInv, TypeOK, QueueInv, InQueue
<1>10. ASSUME NEW x \in Searcher, Search(x) \/ SearchError(x)
      PROVE  UNCHANGED <<memtable_idxs, memtable_count, fpc, fslot>>
  BY <1>10 DEF Search, SearchBegin, SearchSnapshot, Snapshot, WorkerSearch,
     SearchGrowing, SearchSealed, SearchSlot, SearchReturn, SearchEnd,
     SearchError, SearchReset
<1>11. ASSUME Vacuum PROVE UNCHANGED <<memtable_idxs, memtable_count, fpc, fslot>>
  BY <1>11 DEF Vacuum, VacuumBegin, VacuumPinGrowing, VacuumPinSealed,
     VacuumPick, VacuumPin, VacuumMark, VacuumUnpin, VacuumSegments, VacuumEnd
<1>12. ASSUME NEW b \in Backend, Insert(b) PROVE QueueInv'
  BY <1>12, <1>1, <1>2 DEF Insert, InsertBegin, Goto, TakeFlushed,
     SkipRelease, ReleaseFlushed, ReleaseStatus, Reserve, ReserveBelow,
     ReserveFull, NoGrowing, WriteRow, Publish, RotateBegin, RotateIf,
     RotateWait, RotateAlloc, SetMemtable, RotateInstall
<1>13. ASSUME NEW b \in Backend, InsertError(b) PROVE QueueInv'
  BY <1>13, <1>1 DEF Goto, ReleaseStatus, SetMemtable, InsertError
<1>14. CASE Flush
  BY <1>14, <1>1, <1>3, <1>4, <1>5, <1>6, <1>7, <1>8, <1>9 DEF Flush
<1>15. ASSUME NEW x \in Searcher, Search(x) \/ SearchError(x) PROVE QueueInv'
  BY <1>15, <1>1, <1>10
<1>16. ASSUME NEW r \in Row, DeleteRow(r) PROVE QueueInv'
  BY <1>16, <1>1 DEF DeleteRow
<1> QED
  BY <1>1, <1>12, <1>13, <1>14, <1>15, <1>16, <1>11 DEF vars, Next

\* Only sealed memtables are on their way to the queue.
LEMMA SealingStep ==
    ASSUME IndInv, [Next]_vars
    PROVE  Sealing'
<1>1. CASE UNCHANGED <<memtable_idxs, memtable_count, ipc, ineed, islot,
                       sealed>>
  BY <1>1 DEF IndInv, TypeOK, Sealing, InQueue, Going
<1>2. ASSUME NEW b \in Backend, InsertBegin(b) PROVE Sealing'
  BY <1>2 DEF InsertBegin, Goto, IndInv, TypeOK, Sealing, InQueue, Going,
     InsertTypes, SlotTypes
<1>3. ASSUME NEW b \in Backend, TakeFlushed(b) PROVE Sealing'
  BY <1>3 DEF TakeFlushed, Goto, IndInv, TypeOK, Sealing, InQueue, Going,
     InsertTypes, SlotTypes
<1>4. ASSUME NEW b \in Backend, SkipRelease(b) PROVE Sealing'
  BY <1>4 DEF SkipRelease, Goto, IndInv, TypeOK, Sealing, InQueue, Going,
     InsertTypes, SlotTypes
<1>5. ASSUME NEW b \in Backend, ReleaseFlushed(b) PROVE Sealing'
  BY <1>5 DEF ReleaseFlushed, ReleaseStatus, Goto, IndInv, TypeOK, Sealing,
     InQueue, Going, InsertTypes, SlotTypes
<1>6. ASSUME NEW b \in Backend, Reserve(b) PROVE Sealing'
  BY <1>6 DEF Reserve, ReserveBelow, Goto, IndInv, TypeOK, Sealing, InQueue,
     Going, InsertTypes, SlotTypes
<1>7. ASSUME NEW b \in Backend, ReserveFull(b) PROVE Sealing'
  BY <1>7 DEF ReserveFull, Goto, IndInv, TypeOK, Sealing, InQueue, Going,
     InsertTypes, SlotTypes
<1>8. ASSUME NEW b \in Backend, NoGrowing(b) PROVE Sealing'
  BY <1>8 DEF NoGrowing, Goto, IndInv, TypeOK, Sealing, InQueue, Going,
     InsertTypes, SlotTypes
<1>9. ASSUME NEW b \in Backend, WriteRow(b) PROVE Sealing'
  BY <1>9 DEF WriteRow, Goto, IndInv, TypeOK, Sealing, InQueue, Going,
     InsertTypes, SlotTypes
<1>10. ASSUME NEW b \in Backend, Publish(b) PROVE Sealing'
  BY <1>10 DEF Publish, Goto, IndInv, TypeOK, Sealing, InQueue, Going,
     InsertTypes, SlotTypes
<1>11. ASSUME NEW b \in Backend, RotateBegin(b) PROVE Sealing'
  BY <1>11 DEF RotateBegin, RotateIf, Goto, IndInv, TypeOK, Sealing, InQueue,
     Going, InsertTypes, SlotTypes
<1>12. ASSUME NEW b \in Backend, RotateWait(b) PROVE Sealing'
  BY <1>12 DEF RotateWait, Goto, IndInv, TypeOK, Sealing, InQueue, Going,
     InsertTypes, SlotTypes
<1>13. ASSUME NEW b \in Backend, RotateAlloc(b) PROVE Sealing'
  BY <1>13, FreeSlot DEF RotateAlloc, SetMemtable, Goto, IndInv,
     TypeOK, Sealing, InQueue, Going, InsertTypes, SlotTypes, Owned, Current
<1>14. ASSUME NEW b \in Backend, RotateEnqueue(b) PROVE Sealing'
  <2>1. \A s \in Slot : InQueue(s)' => InQueue(s) \/ s = islot[b]
    BY <1>14, EnqueueEffect
  <2>2. Going(b, islot[b])
    BY <1>14 DEF RotateEnqueue, IndInv, Shape, Going
  <2>3. \A s \in Slot : \A c \in Backend : Going(c, s)' => Going(c, s)
    BY <1>14 DEF RotateEnqueue, Goto, Going, IndInv, TypeOK, InsertTypes
  <2>4. UNCHANGED sealed
    BY <1>14 DEF RotateEnqueue
  <2> QED
    BY <2>1, <2>2, <2>3, <2>4 DEF IndInv, Sealing
<1>15. ASSUME NEW b \in Backend, RotateInstall(b) PROVE Sealing'
  BY <1>15 DEF RotateInstall, Goto, IndInv, TypeOK, Sealing, InQueue, Going,
     InsertTypes, SlotTypes
<1>16. ASSUME NEW b \in Backend, InsertError(b) PROVE Sealing'
  BY <1>16, FreeSlot DEF InsertError, SetMemtable, ReleaseStatus,
     Goto, IndInv, TypeOK, Sealing, InQueue, Going, InsertTypes, SlotTypes,
     Owned, Current
<1>17. CASE FlushUnlink
  BY <1>17, SizeAssumption DEF FlushUnlink, IndInv, TypeOK, Sealing, InQueue,
     Going, InsertTypes, SlotTypes, Position, IndexTypes
<1>18. ASSUME NEW b \in Backend, Insert(b) PROVE Sealing'
  BY <1>18, <1>1, <1>2, <1>3, <1>4, <1>5, <1>6, <1>7, <1>8, <1>9, <1>10,
     <1>11, <1>12, <1>13, <1>14, <1>15 DEF Insert
<1>19. CASE Flush
  BY <1>19, <1>1, <1>17 DEF Flush, FlushClaim, FlushWrite, FlushFiles,
     FlushRegister, FlushTrack, FlushRelease, FlushUnlock
<1>20. ASSUME NEW x \in Searcher, Search(x) \/ SearchError(x) PROVE Sealing'
  BY <1>20, <1>1 DEF Search, SearchBegin, SearchSnapshot, Snapshot,
     WorkerSearch, SearchGrowing, SearchSlot, SearchSealed, SearchReturn,
     SearchEnd, SearchReset, SearchError
<1>21. ASSUME NEW r \in Row, DeleteRow(r) PROVE Sealing'
  BY <1>21, <1>1 DEF DeleteRow
<1>22. CASE Vacuum
  BY <1>22, <1>1 DEF Vacuum, VacuumBegin, VacuumPinGrowing, VacuumPin,
     VacuumPinSealed, VacuumPick, VacuumMark, VacuumUnpin, VacuumSegments,
     VacuumEnd
<1> QED
  BY <1>1, <1>18, <1>16, <1>19, <1>20, <1>21, <1>22 DEF vars, Next

\* No slot takes on a second owning role: rotations are exclusive, and a slot
\* allocated by register_and_set_memtable had none.
LEMMA RolesStep ==
    ASSUME IndInv, [Next]_vars
    PROVE  Roles'
<1>1. CASE UNCHANGED <<growing_memtable_idx, memtable_idxs, memtable_count,
                       insVars, flushVars, orphans>>
  BY <1>1 DEF IndInv, TypeOK, Roles, InQueue, Going, Coming, Unlinked
<1>2. ASSUME NEW b \in Backend, InsertBegin(b) PROVE Roles'
  BY <1>2, SlotAssumption DEF InsertBegin, Goto, IndInv, TypeOK, Roles,
     InQueue, Going, Coming, Unlinked, InsertTypes
<1>3. ASSUME NEW b \in Backend, TakeFlushed(b) PROVE Roles'
  BY <1>3, SlotAssumption DEF TakeFlushed, Goto, IndInv, TypeOK, Roles,
     InQueue, Going, Coming, Unlinked, InsertTypes
<1>4. ASSUME NEW b \in Backend, SkipRelease(b) PROVE Roles'
  BY <1>4, SlotAssumption DEF SkipRelease, Goto, IndInv, TypeOK, Roles,
     InQueue, Going, Coming, Unlinked, InsertTypes
<1>5. ASSUME NEW b \in Backend, ReleaseFlushed(b) PROVE Roles'
  BY <1>5, SlotAssumption DEF ReleaseFlushed, ReleaseStatus, Goto, IndInv,
     TypeOK, Roles, InQueue, Going, Coming, Unlinked, InsertTypes
<1>6. ASSUME NEW b \in Backend, Reserve(b) PROVE Roles'
  BY <1>6, SlotAssumption DEF Reserve, ReserveBelow, Goto, IndInv, TypeOK,
     Roles, InQueue, Going, Coming, Unlinked, InsertTypes
<1>7. ASSUME NEW b \in Backend, ReserveFull(b) PROVE Roles'
  BY <1>7, SlotAssumption DEF ReserveFull, Goto, IndInv, TypeOK, Roles,
     InQueue, Going, Coming, Unlinked, InsertTypes
<1>8. ASSUME NEW b \in Backend, NoGrowing(b) PROVE Roles'
  BY <1>8, SlotAssumption DEF NoGrowing, Goto, IndInv, TypeOK, Roles, InQueue,
     Going, Coming, Unlinked, InsertTypes
<1>9. ASSUME NEW b \in Backend, WriteRow(b) PROVE Roles'
  BY <1>9, SlotAssumption DEF WriteRow, Goto, IndInv, TypeOK, Roles, InQueue,
     Going, Coming, Unlinked, InsertTypes
<1>10. ASSUME NEW b \in Backend, Publish(b) PROVE Roles'
  BY <1>10, SlotAssumption DEF Publish, Goto, IndInv, TypeOK, Roles, InQueue,
     Going, Coming, Unlinked, InsertTypes
<1>11. ASSUME NEW b \in Backend, RotateBegin(b) PROVE Roles'
  <2>1. CASE UNCHANGED <<growing_memtable_idx, islot, orphans>>
    BY <1>11, <2>1 DEF RotateBegin, RotateIf, Goto, IndInv, TypeOK, InsertTypes,
       Roles, InQueue, Going, Coming, Unlinked
  <2>2. CASE /\ growing_memtable_idx # MT_IDX_ROTATING
             /\ growing_memtable_idx' = MT_IDX_ROTATING
             /\ islot' = [islot EXCEPT ![b] = growing_memtable_idx]
             /\ orphans' = IF ~ineed[b] /\ growing_memtable_idx \in Slot
                           THEN orphans \cup {growing_memtable_idx}
                           ELSE orphans
             /\ Goto(b, "alloc")
    <3>1. \A c \in Backend : ~Rotating(c)
      BY <2>2 DEF IndInv, RotateMutex
    <3>2. ineed[b] => growing_memtable_idx \in Slot
      BY <1>11, <2>2 DEF RotateBegin, RotateIf, IndInv, TypeOK, Shape, IndexTypes
    <3>3. \A s \in Slot : \A c \in Backend :
             /\ Going(c, s)' => c = b /\ ineed[b] /\ s = growing_memtable_idx
             /\ ~Coming(c, s)'
      BY <1>11, <2>2, <3>1 DEF RotateBegin, RotateIf, Goto, Rotating, Going, Coming,
         IndInv, TypeOK, InsertTypes
    <3>4. \A s \in Slot : /\ InQueue(s)' <=> InQueue(s)
                          /\ Unlinked(s)' <=> Unlinked(s)
      BY <1>11 DEF RotateBegin, RotateIf, InQueue, Unlinked
    <3>5. \A c \in Backend : /\ Rotating(c)' => c = b
                             /\ ~(ipc'[c] \in {"enqueue", "install"})
      BY <1>11, <2>2, <3>1 DEF Goto, Rotating, IndInv, TypeOK, InsertTypes
    <3>6. ineed' = ineed /\ islot'[b] = growing_memtable_idx
      BY <1>11, <2>2 DEF RotateBegin, RotateIf, IndInv, TypeOK, InsertTypes
    <3>7. \A c \in Backend : /\ ipc'[c] \in {"alloc", "enqueue"} /\ ineed'[c] =>
                                  islot'[c] \in Slot
                             /\ ipc'[c] \in {"enqueue", "install"} =>
                                  inew'[c] \in Slot
      BY <3>2, <3>5, <3>6 DEF Rotating
    <3>8. growing_memtable_idx' \notin Slot /\ growing_memtable_idx' \notin orphans'
      BY <2>2, SlotAssumption DEF IndInv, TypeOK, WorkerTypes
    <3> QED
      BY <2>2, <3>3, <3>4, <3>7, <3>8 DEF IndInv, Roles
  <2> QED
    BY <1>11, <2>1, <2>2 DEF RotateBegin, RotateIf
<1>12. ASSUME NEW b \in Backend, RotateWait(b) PROVE Roles'
  BY <1>12, SlotAssumption DEF RotateWait, Goto, IndInv, TypeOK, Roles,
     InQueue, Going, Coming, Unlinked, InsertTypes
<1>13. ASSUME NEW b \in Backend, RotateAlloc(b) PROVE Roles'
  BY <1>13, SlotAssumption, FreeSlot DEF RotateAlloc, SetMemtable,
     Goto, IndInv, TypeOK, Roles, InQueue, Going, Coming, Unlinked,
     InsertTypes, Owned, Current, RotateMutex, Rotating
<1>14. ASSUME NEW b \in Backend, RotateEnqueue(b) PROVE Roles'
  <2>1. \A s \in Slot : InQueue(s)' <=> InQueue(s) \/ s = islot[b]
    BY <1>14, EnqueueEffect
  <2>2. \A c \in Backend : Rotating(c) => c = b
    BY <1>14 DEF RotateEnqueue, IndInv, RotateMutex, Rotating
  <2>3. \A s \in Slot : \A c \in Backend :
           /\ ~Going(c, s)'
           /\ Coming(c, s)' => c = b /\ Coming(b, s)
    BY <1>14, <2>2 DEF RotateEnqueue, Goto, Rotating, Going, Coming, IndInv, TypeOK,
       InsertTypes
  <2>4. /\ Going(b, islot[b])
        /\ growing_memtable_idx \notin Slot
        /\ inew[b] \in Slot
    BY <1>14, SlotAssumption DEF RotateEnqueue, IndInv, Shape, Going, RotateMutex,
       Rotating, Roles
  <2>5. /\ UNCHANGED <<growing_memtable_idx, orphans, fpc, fslot, inew, islot>>
        /\ \A c \in Backend : /\ ipc'[c] \notin {"alloc", "enqueue"}
                              /\ ipc'[c] = "install" => c = b
    BY <1>14, <2>2 DEF RotateEnqueue, Goto, Rotating, IndInv, TypeOK, InsertTypes
  <2>6. \A s \in Slot : Unlinked(s)' <=> Unlinked(s)
    BY <2>5 DEF Unlinked
  <2>7. \A s \in Slot : Coming(b, s) => ~InQueue(s) /\ s # islot[b]
    BY <2>4 DEF IndInv, Roles
  <2>8. ~Unlinked(islot[b]) /\ islot[b] \notin orphans
    BY <1>14, <2>4, EnqueueEffect DEF IndInv, Roles
  <2>9. \A s \in Slot : InQueue(s)' =>
           /\ growing_memtable_idx' # s
           /\ ~Unlinked(s)'
           /\ s \notin orphans'
           /\ \A c \in Backend : ~Going(c, s)' /\ ~Coming(c, s)'
    BY <2>1, <2>3, <2>4, <2>5, <2>6, <2>7, <2>8 DEF IndInv, Roles
  <2>10. \A c \in Backend :
            /\ ipc'[c] \in {"alloc", "enqueue"} /\ ineed'[c] => islot'[c] \in Slot
            /\ ipc'[c] \in {"enqueue", "install"} => inew'[c] \in Slot
    <3> TAKE c \in Backend
    <3>1. ~(ipc'[c] \in {"alloc", "enqueue"})
      BY <2>5
    <3>2. ipc'[c] \in {"enqueue", "install"} => inew'[c] \in Slot
      BY <2>4, <2>5
    <3> QED
      BY <3>1, <3>2
  <2>11. \A s \in Slot : \A c \in Backend : Going(c, s)' \/ Coming(c, s)' =>
           ~Unlinked(s)' /\ s \notin orphans'
    BY <2>3, <2>5, <2>6 DEF IndInv, Roles
  <2>12. /\ \A s \in Slot : Unlinked(s)' =>
               growing_memtable_idx' # s /\ s \notin orphans'
         /\ growing_memtable_idx' \notin orphans'
    BY <2>5, <2>6 DEF IndInv, Roles
  <2> QED
    BY <2>3, <2>9, <2>10, <2>11, <2>12 DEF Roles
<1>15. ASSUME NEW b \in Backend, RotateInstall(b) PROVE Roles'
  BY <1>15, SlotAssumption DEF RotateInstall, Goto, IndInv, TypeOK, Roles,
     InQueue, Going, Coming, Unlinked, InsertTypes, RotateMutex, Rotating
<1>16. ASSUME NEW b \in Backend, InsertError(b) PROVE Roles'
  BY <1>16, SlotAssumption, FreeSlot DEF InsertError, SetMemtable,
     Goto, IndInv, TypeOK, Roles, InQueue, Going, Coming, Unlinked,
     InsertTypes, Owned, Current, RotateMutex, Rotating
<1>17. CASE FlushClaim
  BY <1>17, SlotAssumption DEF FlushClaim, IndInv, TypeOK, Roles, InQueue,
     Going, Coming, Unlinked, InsertTypes
<1>18. CASE FlushWrite
  BY <1>18, SlotAssumption DEF FlushWrite, FlushFiles, Valid, IndInv, TypeOK,
     Roles, InQueue, Going, Coming, Unlinked, InsertTypes
<1>19. CASE FlushRegister
  BY <1>19, SlotAssumption DEF FlushRegister, IndInv, TypeOK, Roles, InQueue,
     Going, Coming, Unlinked, InsertTypes
<1>20. CASE FlushTrack
  BY <1>20, SlotAssumption DEF FlushTrack, IndInv, TypeOK, Roles, InQueue,
     Going, Coming, Unlinked, InsertTypes
<1>21. CASE FlushUnlink
  BY <1>21, SlotAssumption, UnlinkEffect DEF FlushUnlink, IndInv, TypeOK,
     Roles, Going, Coming, Unlinked, InsertTypes, QueueInv
<1>22. CASE FlushRelease
  BY <1>22, SlotAssumption DEF FlushRelease, IndInv, TypeOK, Roles, InQueue,
     Going, Coming, Unlinked, InsertTypes
<1>23. CASE FlushUnlock
  BY <1>23, SlotAssumption DEF FlushUnlock, IndInv, TypeOK, Roles, InQueue,
     Going, Coming, Unlinked, InsertTypes
<1>24. ASSUME NEW b \in Backend, Insert(b) PROVE Roles'
  BY <1>24, <1>1, <1>2, <1>3, <1>4, <1>5, <1>6, <1>7, <1>8, <1>9, <1>10,
     <1>11, <1>12, <1>13, <1>14, <1>15 DEF Insert
<1>25. CASE Flush
  BY <1>25, <1>1, <1>17, <1>18, <1>19, <1>20, <1>21, <1>22, <1>23 DEF Flush
<1>26. ASSUME NEW x \in Searcher, Search(x) \/ SearchError(x) PROVE Roles'
  BY <1>26, <1>1 DEF Search, SearchBegin, SearchSnapshot, Snapshot,
     WorkerSearch, SearchGrowing, SearchSlot, SearchSealed, SearchReturn,
     SearchEnd, SearchReset, SearchError
<1>27. ASSUME NEW r \in Row, DeleteRow(r) PROVE Roles'
  BY <1>27, <1>1 DEF DeleteRow
<1>28. CASE Vacuum
  BY <1>28, <1>1 DEF Vacuum, VacuumBegin, VacuumPinGrowing, VacuumPin,
     VacuumPinSealed, VacuumPick, VacuumMark, VacuumUnpin, VacuumSegments,
     VacuumEnd
<1> QED
  BY <1>1, <1>24, <1>16, <1>25, <1>26, <1>27, <1>28 DEF vars, Next

\* A pinned slot is not recycled: its reference count is not zero.
LEMMA PinnedStableStep ==
    ASSUME IndInv, [Next]_vars
    PROVE  PinnedStable'
<1>1. CASE UNCHANGED <<memtable_id, smid, pins, vslot, vmid>>
  BY <1>1 DEF IndInv, TypeOK, PinnedStable
<1>2. ASSUME NEW b \in Backend, RotateAlloc(b) PROVE PinnedStable'
  BY <1>2, FreeSlot DEF RotateAlloc, SetMemtable, Goto, IndInv,
     TypeOK, PinnedStable, SlotTypes, SearchTypes
<1>3. ASSUME NEW b \in Backend, InsertError(b) PROVE PinnedStable'
  BY <1>3, FreeSlot DEF InsertError, SetMemtable, Goto, IndInv,
     TypeOK, PinnedStable, SlotTypes, SearchTypes
<1>4. ASSUME NEW x \in Searcher, SearchSnapshot(x) PROVE PinnedStable'
  BY <1>4 DEF SearchSnapshot, Snapshot, SnapshotSlots, InQueue, IndInv,
     TypeOK, PinnedStable, SearchTypes
<1>5. ASSUME NEW x \in Searcher, SearchGrowing(x) PROVE PinnedStable'
  BY <1>5 DEF SearchGrowing, SearchSlot, IndInv, TypeOK, PinnedStable,
     SearchTypes
<1>6. ASSUME NEW x \in Searcher, SearchSealed(x) PROVE PinnedStable'
  BY <1>6 DEF SearchSealed, SearchSlot, IndInv, TypeOK, PinnedStable,
     SearchTypes
<1>7. ASSUME NEW x \in Searcher, SearchEnd(x) PROVE PinnedStable'
  BY <1>7 DEF SearchEnd, SearchReset, IndInv, TypeOK, PinnedStable,
     SearchTypes
<1>8. ASSUME NEW x \in Searcher, SearchError(x) PROVE PinnedStable'
  BY <1>8 DEF SearchError, SearchReset, IndInv, TypeOK, PinnedStable,
     SearchTypes
<1>9. CASE VacuumPinGrowing
  BY <1>9 DEF VacuumPinGrowing, VacuumPin, IndInv, TypeOK, PinnedStable
<1>10. CASE VacuumPinSealed
  BY <1>10 DEF VacuumPinSealed, VacuumPick, VacuumPin, IndInv, TypeOK,
     PinnedStable
<1>11. CASE VacuumUnpin
  BY <1>11, SlotAssumption DEF VacuumUnpin, IndInv, TypeOK, PinnedStable,
     NoSlot
<1>12. ASSUME NEW b \in Backend, Insert(b) PROVE PinnedStable'
  BY <1>12, <1>1, <1>2 DEF Insert, InsertBegin, Goto, TakeFlushed,
     SkipRelease, ReleaseFlushed, ReleaseStatus, Reserve, ReserveBelow,
     ReserveFull, NoGrowing, WriteRow, Publish, RotateBegin, RotateIf,
     RotateWait, RotateEnqueue, RotateInstall
<1>13. CASE Flush
  BY <1>13, <1>1 DEF Flush, FlushClaim, FlushWrite, FlushFiles, FlushRegister,
     FlushTrack, FlushUnlink, FlushRelease, FlushUnlock
<1>14. ASSUME NEW x \in Searcher, Search(x) \/ SearchError(x) PROVE PinnedStable'
  BY <1>14, <1>1, <1>4, <1>5, <1>6, <1>7, <1>8 DEF Search, SearchBegin,
     WorkerSearch, SearchReturn
<1>15. ASSUME NEW r \in Row, DeleteRow(r) PROVE PinnedStable'
  BY <1>15, <1>1 DEF DeleteRow
<1>16. CASE Vacuum
  BY <1>16, <1>1, <1>9, <1>10, <1>11 DEF Vacuum, VacuumBegin, VacuumMark,
     VacuumSegments, VacuumEnd
<1> QED
  BY <1>1, <1>12, <1>3, <1>13, <1>14, <1>15, <1>16 DEF vars, Next

-----------------------------------------------------------------------------
(* Counting references.                                                     *)

\* A step that moves no reference keeps the counts exact.
LEMMA CountsKept ==
    ASSUME RefCountExact, UNCHANGED <<ref_count, pins, vslot>>,
           \A s \in Slot : Owned(s)' <=> Owned(s)
    PROVE  RefCountExact'
<1>1. \A s \in Slot : Pinners(s)' = Pinners(s)
  BY DEF Pinners
<1> QED
  BY <1>1 DEF RefCountExact, One

\* A search that pins one more slot adds one to its pinners.
LEMMA PinCount ==
    ASSUME SearchTypes, NEW x \in Searcher, NEW s \in Slot, s \notin pins[x],
           s \in pins'[x],
           \A y \in Searcher \ {x} : pins'[y] = pins[y]
    PROVE  Cardinality(Pinners(s)') = Cardinality(Pinners(s)) + 1
<1>1. Pinners(s)' = Pinners(s) \cup {x} /\ x \notin Pinners(s)
  BY DEF Pinners
<1> QED
  BY <1>1, PinnersFinite, FS_AddElement

\* A search that drops a slot takes one away.
LEMMA UnpinCount ==
    ASSUME SearchTypes, NEW x \in Searcher, NEW s \in Slot, s \in pins[x],
           s \notin pins'[x],
           \A y \in Searcher \ {x} : pins'[y] = pins[y]
    PROVE  Cardinality(Pinners(s)') = Cardinality(Pinners(s)) - 1
<1>1. Pinners(s)' = Pinners(s) \ {x} /\ x \in Pinners(s)
  BY DEF Pinners
<1> QED
  BY <1>1, PinnersFinite, FS_RemoveElement, ZenonT(40)

\* The pinners of the other slots stay.
LEMMA SameCount ==
    ASSUME NEW s \in Slot, \A y \in Searcher : s \in pins'[y] <=> s \in pins[y]
    PROVE  Pinners(s)' = Pinners(s)
  BY DEF Pinners

\* Every step that takes on or gives up one of the owning roles, or a pin,
\* changes the reference count by as much.
LEMMA RefCountExactStep ==
    ASSUME IndInv, [Next]_vars
    PROVE  RefCountExact'
<1>1. CASE UNCHANGED <<ref_count, growing_memtable_idx, memtable_idxs,
                       memtable_count, insVars, flushVars, pins, vslot,
                       orphans>>
  BY <1>1, CountsKept DEF IndInv, TypeOK, Owned, Current, InQueue, Going,
     Coming, Unlinked
<1>2. ASSUME NEW b \in Backend, InsertBegin(b) PROVE RefCountExact'
  BY <1>2, CountsKept DEF InsertBegin, Goto, IndInv, TypeOK, InsertTypes,
     Owned, Current, InQueue, Going, Coming, Unlinked
<1>3. ASSUME NEW b \in Backend, TakeFlushed(b) PROVE RefCountExact'
  BY <1>3, CountsKept DEF TakeFlushed, Goto, IndInv, TypeOK, InsertTypes,
     Owned, Current, InQueue, Going, Coming, Unlinked
<1>4. ASSUME NEW b \in Backend, SkipRelease(b) PROVE RefCountExact'
  BY <1>4, CountsKept DEF SkipRelease, Goto, IndInv, TypeOK, InsertTypes,
     Owned, Current, InQueue, Going, Coming, Unlinked
<1>5. ASSUME NEW b \in Backend, ReleaseFlushed(b) PROVE RefCountExact'
  BY <1>5, CountsKept DEF ReleaseFlushed, ReleaseStatus, Goto, IndInv, TypeOK,
     InsertTypes, Owned, Current, InQueue, Going, Coming, Unlinked
<1>6. ASSUME NEW b \in Backend, Reserve(b) PROVE RefCountExact'
  BY <1>6, CountsKept DEF Reserve, ReserveBelow, Goto, IndInv, TypeOK,
     InsertTypes, Owned, Current, InQueue, Going, Coming, Unlinked
<1>7. ASSUME NEW b \in Backend, ReserveFull(b) PROVE RefCountExact'
  BY <1>7, CountsKept DEF ReserveFull, Goto, IndInv, TypeOK, InsertTypes,
     Owned, Current, InQueue, Going, Coming, Unlinked
<1>8. ASSUME NEW b \in Backend, NoGrowing(b) PROVE RefCountExact'
  BY <1>8, CountsKept DEF NoGrowing, Goto, IndInv, TypeOK, InsertTypes, Owned,
     Current, InQueue, Going, Coming, Unlinked
<1>9. ASSUME NEW b \in Backend, WriteRow(b) PROVE RefCountExact'
  BY <1>9, CountsKept DEF WriteRow, Goto, IndInv, TypeOK, InsertTypes, Owned,
     Current, InQueue, Going, Coming, Unlinked
<1>10. ASSUME NEW b \in Backend, Publish(b) PROVE RefCountExact'
  BY <1>10, CountsKept DEF Publish, Goto, IndInv, TypeOK, InsertTypes, Owned,
     Current, InQueue, Going, Coming, Unlinked
<1>11. ASSUME NEW b \in Backend, RotateBegin(b) PROVE RefCountExact'
  <2>1. CASE UNCHANGED <<growing_memtable_idx, islot, orphans>>
    BY <1>11, <2>1, CountsKept DEF RotateBegin, RotateIf, Goto, IndInv, TypeOK,
       InsertTypes, Owned, Current, InQueue, Going, Coming
  <2>2. CASE /\ growing_memtable_idx # MT_IDX_ROTATING
             /\ growing_memtable_idx' = MT_IDX_ROTATING
             /\ islot' = [islot EXCEPT ![b] = growing_memtable_idx]
             /\ orphans' = IF ~ineed[b] /\ growing_memtable_idx \in Slot
                           THEN orphans \cup {growing_memtable_idx}
                           ELSE orphans
             /\ Goto(b, "alloc")
    <3>1. \A c \in Backend : ~Rotating(c)
      BY <2>2 DEF IndInv, RotateMutex
    <3>2. \A s \in Slot : \A c \in Backend :
             /\ Going(c, s)' <=> c = b /\ ineed[b] /\ s = growing_memtable_idx
             /\ ~Going(c, s)
             /\ ~Coming(c, s)'
             /\ ~Coming(c, s)
      BY <1>11, <2>2, <3>1 DEF RotateBegin, RotateIf, Goto, Rotating, Going, Coming,
         IndInv, TypeOK, InsertTypes
    <3>3. \A s \in Slot : InQueue(s)' <=> InQueue(s)
      BY <1>11 DEF RotateBegin, RotateIf, InQueue
    <3>4. UNCHANGED <<fpc, fslot, ref_count, pins, vslot>>
      BY <1>11 DEF RotateBegin, RotateIf
    <3>5. \A s \in Slot : Owned(s)' <=> Owned(s)
      BY <2>2, <3>2, <3>3, <3>4, SlotAssumption DEF Owned, Current
    <3> QED
      BY <3>4, <3>5, CountsKept DEF IndInv
  <2> QED
    BY <1>11, <2>1, <2>2 DEF RotateBegin, RotateIf
<1>12. ASSUME NEW b \in Backend, RotateWait(b) PROVE RefCountExact'
  BY <1>12, CountsKept DEF RotateWait, Goto, IndInv, TypeOK, InsertTypes,
     Owned, Current, InQueue, Going, Coming, Unlinked
<1>13. ASSUME NEW b \in Backend, RotateAlloc(b) PROVE RefCountExact'
  <2>1. PICK s \in Slot : SetMemtable(s) /\ inew' = [inew EXCEPT ![b] = s]
    BY <1>13 DEF RotateAlloc
  <2>2. ~Owned(s) /\ ref_count[s] = 0
    BY <2>1, FreeSlot DEF SetMemtable, IndInv
  <2>3. \A t \in Slot : \A c \in Backend :
           /\ Going(c, t)' <=> Going(c, t)
           /\ Coming(c, t)' <=> c = b /\ t = s
           /\ ~Coming(c, t)
    BY <1>13, <2>1 DEF RotateAlloc, Goto, Going, Coming, IndInv, TypeOK,
       InsertTypes, RotateMutex, Rotating
  <2>4. \A t \in Slot : InQueue(t)' <=> InQueue(t)
    BY <1>13 DEF RotateAlloc, InQueue
  <2>5. UNCHANGED <<growing_memtable_idx, fpc, fslot, pins, vslot, orphans>>
    BY <1>13 DEF RotateAlloc
  <2>6. \A t \in Slot : Owned(t)' <=> Owned(t) \/ t = s
    BY <2>3, <2>4, <2>5 DEF Owned, Current
  <2>7. \A t \in Slot : ref_count'[t] = IF t = s THEN 1 ELSE ref_count[t]
    BY <2>1 DEF SetMemtable, IndInv, TypeOK, SlotTypes
  <2>8. \A t \in Slot : Pinners(t)' = Pinners(t)
    BY <2>5 DEF Pinners
  <2>9. \A t \in Slot : Cardinality(Pinners(t)) \in Nat
    BY PinnersFinite
  <2> QED
    BY <2>2, <2>5, <2>6, <2>7, <2>8, <2>9 DEF IndInv, RefCountExact, One
<1>14. ASSUME NEW b \in Backend, RotateEnqueue(b) PROVE RefCountExact'
  <2>1. \A s \in Slot : InQueue(s)' <=> InQueue(s) \/ s = islot[b]
    BY <1>14, EnqueueEffect
  <2>2. Going(b, islot[b])
    BY <1>14 DEF RotateEnqueue, IndInv, Shape, Going
  <2>3. \A s \in Slot : \A c \in Backend :
           /\ Going(c, s) => s = islot[b]
           /\ ~Going(c, s)'
           /\ Coming(c, s)' <=> Coming(c, s)
    BY <1>14 DEF RotateEnqueue, Goto, Going, Coming, IndInv, TypeOK, InsertTypes,
       RotateMutex, Rotating
  <2>4. UNCHANGED <<growing_memtable_idx, fpc, fslot, ref_count, pins, vslot,
                    orphans>>
    BY <1>14 DEF RotateEnqueue
  <2>5. \A s \in Slot : Owned(s)' <=> Owned(s)
    BY <2>1, <2>2, <2>3, <2>4 DEF Owned, Current
  <2> QED
    BY <2>4, <2>5, CountsKept DEF IndInv
<1>15. ASSUME NEW b \in Backend, RotateInstall(b) PROVE RefCountExact'
  <2>1. \A s \in Slot : \A c \in Backend :
           /\ Coming(c, s) <=> c = b /\ s = inew[b]
           /\ ~Going(c, s)
           /\ ~Coming(c, s)'
           /\ ~Going(c, s)'
    BY <1>15 DEF RotateInstall, Goto, Going, Coming, IndInv, TypeOK, InsertTypes,
       RotateMutex, Rotating
  <2>2. growing_memtable_idx \notin Slot /\ growing_memtable_idx' = inew[b]
    BY <1>15, SlotAssumption DEF RotateInstall, IndInv, RotateMutex, Rotating
  <2>3. \A s \in Slot : InQueue(s)' <=> InQueue(s)
    BY <1>15 DEF RotateInstall, InQueue
  <2>4. UNCHANGED <<fpc, fslot, ref_count, pins, vslot, orphans>>
    BY <1>15 DEF RotateInstall
  <2>5. \A s \in Slot : Owned(s)' <=> Owned(s)
    BY <2>1, <2>2, <2>3, <2>4 DEF Owned, Current
  <2> QED
    BY <2>4, <2>5, CountsKept DEF IndInv
<1>16. ASSUME NEW b \in Backend, InsertError(b) PROVE RefCountExact'
  <2>1. CASE ipc[b] \in {"release", "write"}
    BY <1>16, <2>1, CountsKept DEF InsertError, Goto, IndInv, TypeOK, InsertTypes,
       Owned, Current, InQueue, Going, Coming
  <2>2. CASE ipc[b] = "alloc"
    <3>1. PICK s \in Slot :
             /\ SetMemtable(s)
             /\ orphans' = orphans \cup {s} \cup
                              (IF ineed[b] THEN {islot[b]} ELSE {})
      BY <1>16, <2>2 DEF InsertError
    <3>2. ~Owned(s) /\ ref_count[s] = 0
      BY <3>1, FreeSlot DEF SetMemtable, IndInv
    <3>3. \A t \in Slot : \A c \in Backend :
             /\ Going(c, t) <=> c = b /\ ineed[b] /\ t = islot[b]
             /\ ~Going(c, t)'
             /\ ~Coming(c, t)'
             /\ ~Coming(c, t)
      BY <1>16, <2>2 DEF InsertError, Goto, Going, Coming, IndInv, TypeOK,
         InsertTypes, RotateMutex, Rotating
    <3>4. \A t \in Slot : InQueue(t)' <=> InQueue(t)
      BY <1>16 DEF InsertError, InQueue
    <3>5. UNCHANGED <<growing_memtable_idx, fpc, fslot, pins, vslot>>
      BY <1>16 DEF InsertError
    <3>6. \A t \in Slot : Owned(t)' <=> Owned(t) \/ t = s
      BY <3>1, <3>3, <3>4, <3>5 DEF Owned, Current
    <3>7. \A t \in Slot : ref_count'[t] = IF t = s THEN 1 ELSE ref_count[t]
      BY <3>1 DEF SetMemtable, IndInv, TypeOK, SlotTypes
    <3>8. \A t \in Slot : Pinners(t)' = Pinners(t)
      BY <3>5 DEF Pinners
    <3>9. \A t \in Slot : Cardinality(Pinners(t)) \in Nat
      BY PinnersFinite
    <3> QED
      BY <3>2, <3>5, <3>6, <3>7, <3>8, <3>9 DEF IndInv, RefCountExact, One
  <2> QED
    BY <1>16, <2>1, <2>2 DEF InsertError
<1>17. CASE FlushClaim
  BY <1>17, CountsKept DEF FlushClaim, IndInv, TypeOK, InsertTypes, Owned,
     Current, InQueue, Going, Coming, Unlinked
<1>18. CASE FlushWrite
  BY <1>18, CountsKept DEF FlushWrite, FlushFiles, Valid, IndInv, TypeOK,
     InsertTypes, Owned, Current, InQueue, Going, Coming, Unlinked
<1>19. CASE FlushRegister
  BY <1>19, CountsKept DEF FlushRegister, IndInv, TypeOK, InsertTypes, Owned,
     Current, InQueue, Going, Coming, Unlinked
<1>20. CASE FlushTrack
  BY <1>20, CountsKept DEF FlushTrack, IndInv, TypeOK, InsertTypes, Owned,
     Current, InQueue, Going, Coming, Unlinked
<1>21. CASE FlushUnlink
  <2>1. \A s \in Slot : InQueue(s)' <=> InQueue(s) /\ s # fslot
    BY <1>21, UnlinkEffect
  <2>2. fpc = "tracked" /\ fpc' = "unlinked" /\ InQueue(fslot)
    BY <1>21 DEF FlushUnlink, IndInv, QueueInv
  <2>3. UNCHANGED <<growing_memtable_idx, insVars, fslot, ref_count, pins,
                    vslot, orphans>>
    BY <1>21 DEF FlushUnlink
  <2>4. \A s \in Slot : Owned(s)' <=> Owned(s)
    BY <2>1, <2>2, <2>3 DEF Owned, Current, Going, Coming
  <2> QED
    BY <2>3, <2>4, CountsKept DEF IndInv
<1>22. CASE FlushRelease
  <2>1. fslot \in Slot /\ Unlinked(fslot)
    BY <1>22 DEF FlushRelease, IndInv, Shape, Unlinked
  <2>2. ~Current(fslot) /\ fslot \notin orphans
    BY <2>1 DEF IndInv, Roles, Current
  <2>3. \A s \in Slot : Current(s)' <=> Current(s)
    BY <1>22 DEF FlushRelease, Current, InQueue, Going, Coming
  <2>4. UNCHANGED <<pins, vslot, orphans>> /\ fpc' = "released"
    BY <1>22 DEF FlushRelease
  <2>5. \A s \in Slot : Owned(s)' <=> Owned(s) /\ s # fslot
    BY <2>1, <2>2, <2>3, <2>4 DEF Owned, Unlinked
  <2>6. Owned(fslot)
    BY <2>1 DEF Owned, Unlinked
  <2>7. \A s \in Slot : ref_count'[s] = IF s = fslot THEN ref_count[s] - 1
                                                     ELSE ref_count[s]
    BY <1>22, <2>1 DEF FlushRelease, IndInv, TypeOK, SlotTypes
  <2>8. \A s \in Slot : Pinners(s)' = Pinners(s)
    BY <2>4 DEF Pinners
  <2>9. \A s \in Slot : Cardinality(Pinners(s)) \in Nat
    BY PinnersFinite
  <2> QED
    BY <2>4, <2>5, <2>6, <2>7, <2>8, <2>9 DEF IndInv, RefCountExact, One
<1>23. CASE FlushUnlock
  BY <1>23, CountsKept DEF FlushUnlock, IndInv, TypeOK, InsertTypes, Owned,
     Current, InQueue, Going, Coming, Unlinked
<1>24. ASSUME NEW x \in Searcher, SearchSnapshot(x) PROVE RefCountExact'
  <2>1. pins[x] = {} /\ SnapshotSlots \subseteq Slot
    BY <1>24 DEF SearchSnapshot, Snapshot, SnapshotSlots, IndInv, Shape
  <2>2. /\ pins'[x] = SnapshotSlots
        /\ \A y \in Searcher \ {x} : pins'[y] = pins[y]
    BY <1>24 DEF SearchSnapshot, Snapshot, IndInv, TypeOK, SearchTypes
  <2>3. \A t \in Slot : Owned(t)' <=> Owned(t)
    BY <1>24 DEF SearchSnapshot, Snapshot, Owned, Current, InQueue, Going, Coming
  <2>4. UNCHANGED vslot
    BY <1>24 DEF SearchSnapshot, Snapshot
  <2>5. \A t \in Slot : t \in SnapshotSlots =>
           Cardinality(Pinners(t)') = Cardinality(Pinners(t)) + 1
    BY <2>1, <2>2, PinCount DEF IndInv, TypeOK
  <2>6. \A t \in Slot : t \notin SnapshotSlots => Pinners(t)' = Pinners(t)
    BY <2>1, <2>2, SameCount
  <2>7. \A t \in Slot : Cardinality(Pinners(t)) \in Nat
    BY PinnersFinite
  <2>8. \A t \in Slot : ref_count'[t] = IF t \in SnapshotSlots
                                        THEN ref_count[t] + 1
                                        ELSE ref_count[t]
    BY <1>24 DEF SearchSnapshot, Snapshot
  <2> QED
    BY <2>3, <2>4, <2>5, <2>6, <2>7, <2>8 DEF IndInv, RefCountExact, One
<1>25. ASSUME NEW x \in Searcher, SearchGrowing(x) PROVE RefCountExact'
  <2>1. PICK s \in Slot :
           /\ s \in pins[x]
           /\ ref_count' = [ref_count EXCEPT ![s] = ref_count[s] - 1]
           /\ pins' = [pins EXCEPT ![x] = pins[x] \ {s}]
    BY <1>25 DEF SearchGrowing, SearchSlot, IndInv, TypeOK, Shape, SearchTypes
  <2>2. \A t \in Slot : Owned(t)' <=> Owned(t)
    BY <1>25 DEF SearchGrowing, SearchSlot, Owned, Current, InQueue, Going, Coming
  <2>3. UNCHANGED vslot
    BY <1>25 DEF SearchGrowing, SearchSlot
  <2>4. ASSUME NEW t \in Slot, t # s
        PROVE  Pinners(t)' = Pinners(t)
    BY <2>1, <2>4, SameCount DEF IndInv, TypeOK, SearchTypes
  <2>5. Cardinality(Pinners(s)') = Cardinality(Pinners(s)) - 1
    BY <2>1, UnpinCount DEF IndInv, TypeOK, SearchTypes
  <2>6. \A t \in Slot : Cardinality(Pinners(t)) \in Nat
    BY PinnersFinite
  <2>7. \A t \in Slot : ref_count'[t] = IF t = s THEN ref_count[t] - 1
                                                 ELSE ref_count[t]
    BY <2>1 DEF IndInv, TypeOK, SlotTypes
  <2> QED
    BY <2>2, <2>3, <2>4, <2>5, <2>6, <2>7 DEF IndInv, RefCountExact, One
<1>26. ASSUME NEW x \in Searcher, SearchSealed(x) PROVE RefCountExact'
  <2>1. PICK s \in Slot :
           /\ s \in pins[x]
           /\ ref_count' = [ref_count EXCEPT ![s] = ref_count[s] - 1]
           /\ pins' = [pins EXCEPT ![x] = pins[x] \ {s}]
    BY <1>26 DEF SearchSealed, SearchSlot, IndInv, TypeOK, SearchTypes
  <2>2. \A t \in Slot : Owned(t)' <=> Owned(t)
    BY <1>26 DEF SearchSealed, SearchSlot, Owned, Current, InQueue, Going, Coming
  <2>3. UNCHANGED vslot
    BY <1>26 DEF SearchSealed, SearchSlot
  <2>4. ASSUME NEW t \in Slot, t # s
        PROVE  Pinners(t)' = Pinners(t)
    BY <2>1, <2>4, SameCount DEF IndInv, TypeOK, SearchTypes
  <2>5. Cardinality(Pinners(s)') = Cardinality(Pinners(s)) - 1
    BY <2>1, UnpinCount DEF IndInv, TypeOK, SearchTypes
  <2>6. \A t \in Slot : Cardinality(Pinners(t)) \in Nat
    BY PinnersFinite
  <2>7. \A t \in Slot : ref_count'[t] = IF t = s THEN ref_count[t] - 1
                                                 ELSE ref_count[t]
    BY <2>1 DEF IndInv, TypeOK, SlotTypes
  <2> QED
    BY <2>2, <2>3, <2>4, <2>5, <2>6, <2>7 DEF IndInv, RefCountExact, One
<1>27. ASSUME NEW x \in Searcher, SearchEnd(x) PROVE RefCountExact'
  <2>1. pins' = pins
    BY <1>27 DEF SearchEnd, SearchReset, IndInv, TypeOK, SearchTypes, Shape
  <2> QED
    BY <1>27, <2>1, CountsKept DEF SearchEnd, IndInv, Owned, Current, InQueue, Going,
       Coming
<1>28. ASSUME NEW x \in Searcher, SearchError(x) PROVE RefCountExact'
  <2>1. /\ pins'[x] = {}
        /\ \A y \in Searcher \ {x} : pins'[y] = pins[y]
    BY <1>28 DEF SearchError, SearchReset, IndInv, TypeOK, SearchTypes
  <2>2. \A t \in Slot : Owned(t)' <=> Owned(t)
    BY <1>28 DEF SearchError, Owned, Current, InQueue, Going, Coming
  <2>3. UNCHANGED vslot
    BY <1>28 DEF SearchError
  <2>4. \A t \in Slot : t \in pins[x] =>
           Cardinality(Pinners(t)') = Cardinality(Pinners(t)) - 1
    BY <2>1, UnpinCount DEF IndInv, TypeOK
  <2>5. \A t \in Slot : t \notin pins[x] => Pinners(t)' = Pinners(t)
    BY <2>1, SameCount
  <2>6. \A t \in Slot : Cardinality(Pinners(t)) \in Nat
    BY PinnersFinite
  <2>7. \A t \in Slot : ref_count'[t] = IF t \in pins[x] THEN ref_count[t] - 1
                                                         ELSE ref_count[t]
    BY <1>28 DEF SearchError
  <2> QED
    BY <2>2, <2>3, <2>4, <2>5, <2>6, <2>7 DEF IndInv, RefCountExact, One
<1>29. CASE VacuumPinGrowing
  <2>1. \A t \in Slot : Owned(t)' <=> Owned(t)
    BY <1>29 DEF VacuumPinGrowing, VacuumPin, Owned, Current, InQueue, Going,
       Coming
  <2>2. UNCHANGED pins
    BY <1>29 DEF VacuumPinGrowing, VacuumPin
  <2>3. CASE UNCHANGED <<ref_count, vslot>>
    BY <2>1, <2>2, <2>3, CountsKept DEF IndInv
  <2>4. CASE \E s \in Slot : VacuumPin(s)
    <3>1. PICK s \in Slot : VacuumPin(s)
      BY <2>4
    <3>2. vslot \notin Slot /\ vslot' = s
      BY <1>29, <3>1 DEF VacuumPinGrowing, VacuumPin, IndInv, Shape
    <3>3. \A t \in Slot : Pinners(t)' = Pinners(t)
      BY <2>2 DEF Pinners
    <3>4. \A t \in Slot : Cardinality(Pinners(t)) \in Nat
      BY PinnersFinite
    <3>5. \A t \in Slot : ref_count'[t] = IF t = s THEN ref_count[t] + 1
                                                   ELSE ref_count[t]
      BY <3>1 DEF VacuumPin, IndInv, TypeOK, SlotTypes
    <3> QED
      BY <2>1, <3>2, <3>3, <3>4, <3>5 DEF IndInv, RefCountExact, One
  <2> QED
    BY <1>29, <2>3, <2>4 DEF VacuumPinGrowing, IndInv, TypeOK
<1>30. CASE VacuumPinSealed
  <2>1. \A t \in Slot : Owned(t)' <=> Owned(t)
    BY <1>30 DEF VacuumPinSealed, VacuumPick, VacuumPin, Owned, Current, InQueue, Going,
       Coming
  <2>2. UNCHANGED pins
    BY <1>30 DEF VacuumPinSealed, VacuumPick, VacuumPin
  <2>3. CASE UNCHANGED <<ref_count, vslot>>
    BY <2>1, <2>2, <2>3, CountsKept DEF IndInv
  <2>4. CASE \E s \in Slot : VacuumPin(s)
    <3>1. PICK s \in Slot : VacuumPin(s)
      BY <2>4
    <3>2. vslot \notin Slot /\ vslot' = s
      BY <1>30, <3>1 DEF VacuumPinSealed, VacuumPick, VacuumPin, IndInv, Shape
    <3>3. \A t \in Slot : Pinners(t)' = Pinners(t)
      BY <2>2 DEF Pinners
    <3>4. \A t \in Slot : Cardinality(Pinners(t)) \in Nat
      BY PinnersFinite
    <3>5. \A t \in Slot : ref_count'[t] = IF t = s THEN ref_count[t] + 1
                                                   ELSE ref_count[t]
      BY <3>1 DEF VacuumPin, IndInv, TypeOK, SlotTypes
    <3> QED
      BY <2>1, <3>2, <3>3, <3>4, <3>5 DEF IndInv, RefCountExact, One
  <2> QED
    BY <1>30, <2>3, <2>4 DEF VacuumPinSealed, VacuumPick, IndInv, QueueInv, TypeOK
<1>31. CASE VacuumUnpin
  <2>1. /\ vslot \in Slot
        /\ vslot' \notin Slot
    BY <1>31, SlotAssumption DEF VacuumUnpin, IndInv, Shape, NoSlot
  <2>2. \A t \in Slot : Owned(t)' <=> Owned(t)
    BY <1>31 DEF VacuumUnpin, Owned, Current, InQueue, Going, Coming
  <2>3. \A t \in Slot : Pinners(t)' = Pinners(t)
    BY <1>31 DEF VacuumUnpin, Pinners
  <2>4. \A t \in Slot : Cardinality(Pinners(t)) \in Nat
    BY PinnersFinite
  <2>5. \A t \in Slot : ref_count'[t] = IF t = vslot THEN ref_count[t] - 1
                                                     ELSE ref_count[t]
    BY <1>31 DEF VacuumUnpin, IndInv, TypeOK, SlotTypes
  <2> QED
    BY <2>1, <2>2, <2>3, <2>4, <2>5 DEF IndInv, RefCountExact, One
<1>32. ASSUME NEW b \in Backend, Insert(b) PROVE RefCountExact'
  BY <1>32, <1>1, <1>2, <1>3, <1>4, <1>5, <1>6, <1>7, <1>8, <1>9, <1>10,
     <1>11, <1>12, <1>13, <1>14, <1>15 DEF Insert
<1>33. CASE Flush
  BY <1>33, <1>1, <1>17, <1>18, <1>19, <1>20, <1>21, <1>22, <1>23 DEF Flush
<1>34. ASSUME NEW x \in Searcher, Search(x) \/ SearchError(x) PROVE RefCountExact'
  BY <1>34, <1>1, <1>24, <1>25, <1>26, <1>27, <1>28 DEF Search, SearchBegin,
     WorkerSearch, SearchReturn
<1>35. ASSUME NEW r \in Row, DeleteRow(r) PROVE RefCountExact'
  BY <1>35, <1>1 DEF DeleteRow
<1>36. CASE Vacuum
  BY <1>36, <1>1, <1>29, <1>30, <1>31 DEF Vacuum, VacuumBegin, VacuumMark,
     VacuumSegments, VacuumEnd
<1> QED
  BY <1>1, <1>32, <1>16, <1>33, <1>34, <1>35, <1>36 DEF vars, Next

-----------------------------------------------------------------------------

\* A built index, or one that recovery left without a growing memtable,
\* satisfies the inductive invariant.
LEMMA InitIndInv == Init => IndInv
<1> SUFFICES ASSUME Init PROVE IndInv
  OBVIOUS
<1>1. SlotTypes
  BY DEF Init, SlotTypes, AnyRow
<1>2. IndexTypes
  <2>1. growing_memtable_idx \in Slot \cup {MT_IDX_INVALID, MT_IDX_ROTATING}
    BY DEF Init
  <2>2. memtable_idxs \in [Position -> AnySlot]
    BY DEF Init, AnySlot
  <2>3. memtable_count \in 0 .. MEMTABLE_NUM /\ next_segment_id \in Nat
    BY SizeAssumption DEF Init
  <2>4. flushed_not_released \in Seq(Nat) /\ taken \in Seq(Nat)
    BY EmptySids DEF Init
  <2>5. releasing_in_progress \in BOOLEAN
    BY DEF Init
  <2> QED
    BY <2>1, <2>2, <2>3, <2>4, <2>5 DEF IndexTypes
<1>3. StoreTypes
  BY DEF Init, StoreTypes
<1>4. InsertTypes
  BY DEF Init, InsertTypes, InsertPc, AnyRow, AnySlot
<1>5. SearchTypes
  BY DEF Init, SearchTypes, SearchPc, AnySlot
<1>6. WorkerTypes
  BY SizeAssumption DEF Init, WorkerTypes, FlushPc, VacuumPc, AnySlot
<1>7. Shape
  BY SlotAssumption DEF Init, Shape, NoSlot
<1>8. RotateMutex
  BY DEF Init, RotateMutex, Rotating
<1>9. \A s \in Slot : ~InQueue(s)
  BY SizeAssumption DEF Init, InQueue, Position
<1>10. QueueInv
  BY <1>9, SizeAssumption DEF Init, QueueInv, Position
<1>11. \A s \in Slot : \A b \in Backend : ~Going(b, s) /\ ~Coming(b, s)
  BY DEF Init, Going, Coming
<1>12. Roles
  BY <1>9, <1>11 DEF Init, Roles, Unlinked
<1>13. Sealing
  BY <1>9, <1>11 DEF Sealing
<1>14. \A s \in Slot : Pinners(s) = {}
  BY DEF Init, Pinners
<1>15. \A s \in Slot : Owned(s) <=> growing_memtable_idx = s
  BY <1>9, <1>11 DEF Init, Owned, Current
<1>16. RefCountExact
  <2>1. Cardinality({}) = 0
    BY FS_EmptySet
  <2>2. \A s \in Slot : vslot # s
    BY SlotAssumption DEF Init, NoSlot
  <2>3. \A s \in Slot :
           ref_count[s] = IF growing_memtable_idx = s THEN 1 ELSE 0
    BY DEF Init
  <2> QED
    BY <1>14, <1>15, <2>1, <2>2, <2>3 DEF RefCountExact, One
<1>17. PinnedStable
  BY SlotAssumption DEF Init, PinnedStable, NoSlot
<1> QED
  BY <1>1, <1>2, <1>3, <1>4, <1>5, <1>6, <1>7, <1>8, <1>10, <1>12, <1>13,
     <1>16, <1>17 DEF IndInv, TypeOK

\* Every step of every process, and every ERROR, preserves it.
LEMMA IndInvStep == IndInv /\ [Next]_vars => IndInv'
<1> SUFFICES ASSUME IndInv, [Next]_vars PROVE IndInv'
  OBVIOUS
<1>1. TypeOK'
  BY SlotTypesStep, IndexTypesStep, StoreTypesStep, InsertTypesStep,
     SearchTypesStep, WorkerTypesStep DEF TypeOK
<1> QED
  BY <1>1, ShapeStep, RotateMutexStep, QueueInvStep, RolesStep, SealingStep,
     RefCountExactStep, PinnedStableStep DEF IndInv

\* The inductive invariant holds in every reachable state.
THEOREM IndInvHolds == Spec => []IndInv
  BY InitIndInv, IndInvStep, PTL DEF Spec

\* Types: in particular no unsigned reference count or queue length wraps
\* below zero, and the queue never outgrows memtable_idxs[].
THEOREM TypeCorrect == Spec => []TypeOK
<1>1. IndInv => TypeOK
  BY DEF IndInv
<1> QED
  BY <1>1, IndInvHolds, PTL

\* ref_count is exactly the number of holders: no slot leaks and none is
\* recycled early, whatever inserts, flushes, searches, VACUUMs and ERRORs of
\* searches interleave.
THEOREM RefCountsExact == Spec => []RefCountExact
<1>1. IndInv => RefCountExact
  BY DEF IndInv
<1> QED
  BY <1>1, IndInvHolds, PTL

\* A slot pinned by a search or by VACUUM keeps its memtable; the ERROR that
\* bulk_delete_lsm_index raises when it does not is unreachable.
THEOREM PinsHold == Spec => []PinnedStable
<1>1. IndInv => PinnedStable
  BY DEF IndInv
<1> QED
  BY <1>1, IndInvHolds, PTL

\* The ERRORs of the flusher about an unsealed or missing memtable are
\* unreachable.
THEOREM FlushIsSound == Spec => []FlushSound
<1>1. IndInv => FlushSound
  BY DEF IndInv, QueueInv, Sealing, FlushSound, InQueue
<1> QED
  BY <1>1, IndInvHolds, PTL
=============================================================================
