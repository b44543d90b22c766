------------------------- MODULE MemtablesVacuumProofs -------------------------
(***************************************************************************)
(* VACUUM, for any constants: SweepInv is inductive relative to IndInv and *)
(* WriterInv, so no TID that VACUUM has given back to the heap is offered  *)
(* by a memtable or a segment file.                                        *)
(***************************************************************************)
EXTENDS MemtablesRowProofs

USE DEF slotVars, indexVars, relVars, segVars, statusVars, insVars, flushVars,
        searchVars, vacVars, histVars

-----------------------------------------------------------------------------
(* What a step may do.                                                     *)

\* A step is VACUUM's or leaves its state alone.
VacuumMoves == Vacuum \/ UNCHANGED <<vacVars, unswept>>

\* Every step keeps to it.
LEMMA VacuumOnly ==
    ASSUME IndInv, [Next]_vars
    PROVE  VacuumMoves
<1>1. CASE UNCHANGED <<vacVars, unswept>>
  BY <1>1 DEF VacuumMoves
<1>2. ASSUME NEW b \in Backend, InsertError(b) PROVE VacuumMoves
  BY <1>2 DEF InsertError, VacuumMoves
<1>3. CASE VacuumBegin
  BY <1>3 DEF VacuumMoves, Vacuum
<1>4. CASE VacuumPinGrowing
  BY <1>4 DEF VacuumMoves, Vacuum
<1>5. CASE VacuumPinSealed
  BY <1>5 DEF VacuumMoves, Vacuum
<1>6. CASE VacuumMark
  BY <1>6 DEF VacuumMoves, Vacuum
<1>7. CASE VacuumUnpin
  BY <1>7 DEF VacuumMoves, Vacuum
<1>8. CASE VacuumSegments
  BY <1>8 DEF VacuumMoves, Vacuum
<1>9. CASE VacuumEnd
  BY <1>9 DEF VacuumMoves, Vacuum
<1>10. ASSUME NEW b \in Backend, Insert(b) PROVE VacuumMoves
  BY <1>10, <1>1 DEF Insert, InsertBegin, Goto, TakeFlushed, SkipRelease,
     ReleaseFlushed, ReleaseStatus, Reserve, ReserveBelow, ReserveFull,
     NoGrowing, WriteRow, Publish, RotateBegin, RotateIf, RotateWait,
     RotateAlloc, SetMemtable, RotateEnqueue, RotateInstall
<1>11. CASE Flush
  BY <1>11, <1>1 DEF Flush, FlushClaim, FlushWrite, FlushFiles, FlushRegister,
     FlushTrack, FlushUnlink, FlushRelease, FlushUnlock
<1>12. ASSUME NEW x \in Searcher, Search(x) \/ SearchError(x) PROVE VacuumMoves
  BY <1>12, <1>1 DEF Search, SearchBegin, SearchSnapshot, Snapshot,
     WorkerSearch, SearchGrowing, SearchSlot, SearchSealed, SearchReturn,
     SearchEnd, SearchReset, SearchError
<1>13. ASSUME NEW r \in Row, DeleteRow(r) PROVE VacuumMoves
  BY <1>13, <1>1 DEF DeleteRow
<1>14. CASE Vacuum
  BY <1>14, <1>1, <1>3, <1>4, <1>5, <1>6, <1>7, <1>8, <1>9 DEF Vacuum
<1> QED
  BY <1>1, <1>10, <1>2, <1>11, <1>12, <1>13, <1>14 DEF vars, Next

\* A bit of a bitmap is cleared only when the slot is reset.
BitmapGrows(s) == SetMemtable(s) \/ bitmap[s] \subseteq bitmap'[s]

\* Every step keeps to it.
LEMMA BitmapStep ==
    ASSUME IndInv, [Next]_vars, NEW s \in Slot
    PROVE  BitmapGrows(s)
<1>1. CASE UNCHANGED bitmap
  BY <1>1 DEF BitmapGrows
<1>2. ASSUME NEW b \in Backend, RotateAlloc(b) PROVE BitmapGrows(s)
  <2>1. PICK t \in Slot : SetMemtable(t)
    BY <1>2 DEF RotateAlloc
  <2>2. s # t => bitmap'[s] = bitmap[s]
    BY <2>1 DEF SetMemtable, IndInv, TypeOK, SlotTypes
  <2> QED
    BY <2>1, <2>2 DEF BitmapGrows
<1>3. ASSUME NEW b \in Backend, InsertError(b) PROVE BitmapGrows(s)
  <2>1. ASSUME NEW t \in Slot, SetMemtable(t) PROVE BitmapGrows(s)
    <3>1. s # t => bitmap'[s] = bitmap[s]
      BY <2>1 DEF SetMemtable, IndInv, TypeOK, SlotTypes
    <3> QED
      BY <2>1, <3>1 DEF BitmapGrows
  <2>2. CASE UNCHANGED bitmap
    BY <2>2 DEF BitmapGrows
  <2> QED
    BY <1>3, <2>1, <2>2 DEF InsertError
<1>4. CASE VacuumMark
  BY <1>4 DEF VacuumMark, BitmapGrows, IndInv, TypeOK, SlotTypes
<1>5. ASSUME NEW b \in Backend, Insert(b) PROVE BitmapGrows(s)
  BY <1>5, <1>1, <1>2 DEF Insert, InsertBegin, Goto, TakeFlushed, SkipRelease,
     ReleaseFlushed, ReleaseStatus, Reserve, ReserveBelow, ReserveFull,
     NoGrowing, WriteRow, Publish, RotateBegin, RotateIf, RotateWait,
     RotateEnqueue, RotateInstall
<1>6. CASE Flush
  BY <1>6, <1>1 DEF Flush, FlushClaim, FlushWrite, FlushFiles, FlushRegister,
     FlushTrack, FlushUnlink, FlushRelease, FlushUnlock
<1>7. ASSUME NEW x \in Searcher, Search(x) \/ SearchError(x) PROVE BitmapGrows(s)
  BY <1>7, <1>1 DEF Search, SearchBegin, SearchSnapshot, Snapshot,
     WorkerSearch, SearchGrowing, SearchSlot, SearchSealed, SearchReturn,
     SearchEnd, SearchReset, SearchError
<1>8. ASSUME NEW r \in Row, DeleteRow(r) PROVE BitmapGrows(s)
  BY <1>8, <1>1 DEF DeleteRow
<1>9. CASE Vacuum
  BY <1>9, <1>1, <1>4 DEF Vacuum, VacuumBegin, VacuumPinGrowing, VacuumPin,
     VacuumPinSealed, VacuumPick, VacuumUnpin, VacuumSegments, VacuumEnd
<1> QED
  BY <1>1, <1>5, <1>3, <1>6, <1>7, <1>8, <1>9 DEF vars, Next

\* A memtable leaves the queue only in the flusher's hands.
QueueMoves(s) ==
    InQueue(s) => InQueue(s)' \/ (fpc' = "unlinked" /\ fslot' = s)

\* Every step keeps to it.
LEMMA QueueStep ==
    ASSUME IndInv, [Next]_vars, NEW s \in Slot
    PROVE  QueueMoves(s)
<1>1. CASE UNCHANGED <<memtable_idxs, memtable_count>>
  BY <1>1 DEF QueueMoves, InQueue
<1>2. ASSUME NEW b \in Backend, RotateEnqueue(b) PROVE QueueMoves(s)
  BY <1>2, EnqueueEffect DEF QueueMoves
<1>3. ASSUME NEW b \in Backend, InsertError(b) PROVE QueueMoves(s)
  BY <1>3 DEF InsertError, QueueMoves, InQueue
<1>4. CASE FlushUnlink
  <2>1. InQueue(s)' <=> InQueue(s) /\ s # fslot
    BY <1>4, UnlinkEffect
  <2>2. fpc' = "unlinked" /\ fslot' = fslot
    BY <1>4 DEF FlushUnlink
  <2> QED
    BY <2>1, <2>2 DEF QueueMoves
<1>5. ASSUME NEW b \in Backend, Insert(b) PROVE QueueMoves(s)
  BY <1>5, <1>1, <1>2 DEF Insert, InsertBegin, Goto, TakeFlushed, SkipRelease,
     ReleaseFlushed, ReleaseStatus, Reserve, ReserveBelow, ReserveFull,
     NoGrowing, WriteRow, Publish, RotateBegin, RotateIf, RotateWait,
     RotateAlloc, SetMemtable, RotateInstall
<1>6. CASE Flush
  BY <1>6, <1>1, <1>4 DEF Flush, FlushClaim, FlushWrite, FlushFiles,
     FlushRegister, FlushTrack, FlushRelease, FlushUnlock
<1>7. ASSUME NEW x \in Searcher, Search(x) \/ SearchError(x) PROVE QueueMoves(s)
  BY <1>7, <1>1 DEF Search, SearchBegin, SearchSnapshot, Snapshot,
     WorkerSearch, SearchGrowing, SearchSlot, SearchSealed, SearchReturn,
     SearchEnd, SearchReset, SearchError
<1>8. ASSUME NEW r \in Row, DeleteRow(r) PROVE QueueMoves(s)
  BY <1>8, <1>1 DEF DeleteRow
<1>9. CASE Vacuum
  BY <1>9, <1>1 DEF Vacuum, VacuumBegin, VacuumPinGrowing, VacuumPin,
     VacuumPinSealed, VacuumPick, VacuumMark, VacuumUnpin, VacuumSegments,
     VacuumEnd
<1> QED
  BY <1>1, <1>5, <1>3, <1>6, <1>7, <1>8, <1>9 DEF vars, Next

\* Dead rows stay dead, and gone ones gone, but for the end of a VACUUM.
HeapFinal(r) ==
    /\ heap[r] = "dead" => heap'[r] = "dead" \/ VacuumEnd
    /\ heap'[r] = "gone" => heap[r] = "gone" \/ (VacuumEnd /\ r \in doomed)

\* Every step keeps to it.
LEMMA FinalStep ==
    ASSUME IndInv, InsertRows, [Next]_vars, NEW r \in Row
    PROVE  HeapFinal(r)
<1>1. CASE UNCHANGED heap
  BY <1>1 DEF HeapFinal
<1>2. ASSUME NEW b \in Backend, InsertBegin(b) PROVE HeapFinal(r)
  BY <1>2 DEF InsertBegin, Goto, IndInv, TypeOK, StoreTypes, HeapFinal
<1>3. ASSUME NEW b \in Backend, Publish(b) PROVE HeapFinal(r)
  BY <1>3 DEF Publish, Goto, IndInv, TypeOK, StoreTypes, HeapFinal, InsertRows
<1>4. ASSUME NEW b \in Backend, InsertError(b) PROVE HeapFinal(r)
  <2>1. heap' = [heap EXCEPT ![irow[b]] = "dead"]
    BY <1>4 DEF InsertError
  <2> QED
    BY <2>1 DEF IndInv, TypeOK, StoreTypes, HeapFinal
<1>5. ASSUME NEW q \in Row, DeleteRow(q) PROVE HeapFinal(r)
  BY <1>5 DEF DeleteRow, IndInv, TypeOK, StoreTypes, HeapFinal
<1>6. CASE VacuumEnd
  <2>1. heap'[r] = IF r \in doomed THEN "gone" ELSE heap[r]
    BY <1>6 DEF VacuumEnd
  <2> QED
    BY <1>6, <2>1 DEF HeapFinal
<1>7. ASSUME NEW b \in Backend, Insert(b) PROVE HeapFinal(r)
  BY <1>7, <1>1, <1>2, <1>3 DEF Insert, TakeFlushed, Goto, SkipRelease,
     ReleaseFlushed, ReleaseStatus, Reserve, ReserveBelow, ReserveFull,
     NoGrowing, WriteRow, RotateBegin, RotateIf, RotateWait, RotateAlloc,
     SetMemtable, RotateEnqueue, RotateInstall
<1>8. CASE Flush
  BY <1>8, <1>1 DEF Flush, FlushClaim, FlushWrite, FlushFiles, FlushRegister,
     FlushTrack, FlushUnlink, FlushRelease, FlushUnlock
<1>9. ASSUME NEW x \in Searcher, Search(x) \/ SearchError(x) PROVE HeapFinal(r)
  BY <1>9, <1>1 DEF Search, SearchBegin, SearchSnapshot, Snapshot,
     WorkerSearch, SearchGrowing, SearchSlot, SearchSealed, SearchReturn,
     SearchEnd, SearchReset, SearchError
<1>10. CASE Vacuum
  BY <1>10, <1>1, <1>6 DEF Vacuum, VacuumBegin, VacuumPinGrowing, VacuumPin,
     VacuumPinSealed, VacuumPick, VacuumMark, VacuumUnpin, VacuumSegments
<1> QED
  BY <1>1, <1>7, <1>4, <1>8, <1>9, <1>5, <1>10 DEF vars, Next

-----------------------------------------------------------------------------
(* InsertRows and Newest.                                                  *)

\* The first two parts of InsertRows, on their own.
RowsOwned ==
    /\ \A b \in Backend : ipc[b] # "idle" =>
          irow[b] \in Row /\ heap[irow[b]] = "inserting"
    /\ \A b, c \in Backend :
          ipc[b] # "idle" /\ ipc[c] # "idle" /\ irow[b] = irow[c] => b = c

\* No two inserters have the same row, and nothing happens to a row meanwhile.
LEMMA RowsOwnedStep ==
    ASSUME IndInv, RowsOwned, doomed \subseteq {r \in Row : heap[r] = "dead"},
           [Next]_vars
    PROVE  RowsOwned'
<1>1. CASE UNCHANGED <<ipc, irow, heap>>
  BY <1>1 DEF RowsOwned
<1>2. ASSUME NEW b \in Backend, InsertBegin(b) PROVE RowsOwned'
  <2>1. PICK r \in Row : /\ heap[r] = "new"
                         /\ heap' = [heap EXCEPT ![r] = "inserting"]
                         /\ irow' = [irow EXCEPT ![b] = r]
    BY <1>2 DEF InsertBegin
  <2>2. ipc' = [ipc EXCEPT ![b] = "start"]
    BY <1>2 DEF InsertBegin, Goto
  <2> QED
    BY <2>1, <2>2 DEF IndInv, TypeOK, InsertTypes, StoreTypes, RowsOwned
<1>3. ASSUME NEW b \in Backend, TakeFlushed(b) PROVE RowsOwned'
  BY <1>3 DEF TakeFlushed, Goto, IndInv, TypeOK, InsertTypes, StoreTypes,
     RowsOwned
<1>4. ASSUME NEW b \in Backend, SkipRelease(b) PROVE RowsOwned'
  BY <1>4 DEF SkipRelease, Goto, IndInv, TypeOK, InsertTypes, StoreTypes,
     RowsOwned
<1>5. ASSUME NEW b \in Backend, ReleaseFlushed(b) PROVE RowsOwned'
  BY <1>5 DEF ReleaseFlushed, ReleaseStatus, Goto, IndInv, TypeOK, InsertTypes,
     StoreTypes, RowsOwned
<1>6. ASSUME NEW b \in Backend, Reserve(b) PROVE RowsOwned'
  BY <1>6 DEF Reserve, ReserveBelow, Goto, IndInv, TypeOK, InsertTypes,
     StoreTypes, RowsOwned
<1>7. ASSUME NEW b \in Backend, ReserveFull(b) PROVE RowsOwned'
  BY <1>7 DEF ReserveFull, Goto, IndInv, TypeOK, InsertTypes, StoreTypes,
     RowsOwned
<1>8. ASSUME NEW b \in Backend, NoGrowing(b) PROVE RowsOwned'
  BY <1>8 DEF NoGrowing, Goto, IndInv, TypeOK, InsertTypes, StoreTypes,
     RowsOwned
<1>9. ASSUME NEW b \in Backend, WriteRow(b) PROVE RowsOwned'
  BY <1>9 DEF WriteRow, Goto, IndInv, TypeOK, InsertTypes, StoreTypes,
     RowsOwned
<1>10. ASSUME NEW b \in Backend, Publish(b) PROVE RowsOwned'
  BY <1>10 DEF Publish, Goto, IndInv, TypeOK, InsertTypes, StoreTypes,
     RowsOwned
<1>11. ASSUME NEW b \in Backend, RotateBegin(b) PROVE RowsOwned'
  BY <1>11 DEF RotateBegin, RotateIf, Goto, IndInv, TypeOK, InsertTypes,
     StoreTypes, RowsOwned
<1>12. ASSUME NEW b \in Backend, RotateWait(b) PROVE RowsOwned'
  BY <1>12 DEF RotateWait, Goto, IndInv, TypeOK, InsertTypes, StoreTypes,
     RowsOwned
<1>13. ASSUME NEW b \in Backend, RotateAlloc(b) PROVE RowsOwned'
  BY <1>13 DEF RotateAlloc, SetMemtable, Goto, IndInv, TypeOK, InsertTypes,
     StoreTypes, RowsOwned
<1>14. ASSUME NEW b \in Backend, RotateEnqueue(b) PROVE RowsOwned'
  BY <1>14 DEF RotateEnqueue, Goto, IndInv, TypeOK, InsertTypes, StoreTypes,
     RowsOwned
<1>15. ASSUME NEW b \in Backend, RotateInstall(b) PROVE RowsOwned'
  BY <1>15 DEF RotateInstall, Goto, IndInv, TypeOK, InsertTypes, StoreTypes,
     RowsOwned
<1>16. ASSUME NEW b \in Backend, InsertError(b) PROVE RowsOwned'
  <2>1. /\ heap' = [heap EXCEPT ![irow[b]] = "dead"]
        /\ ipc' = [ipc EXCEPT ![b] = "idle"]
        /\ irow' = irow
    BY <1>16 DEF InsertError, Goto
  <2>2. ipc[b] # "idle"
    BY <1>16 DEF InsertError
  <2> QED
    BY <2>1, <2>2 DEF IndInv, TypeOK, InsertTypes, StoreTypes, RowsOwned
<1>17. ASSUME NEW r \in Row, DeleteRow(r) PROVE RowsOwned'
  BY <1>17 DEF DeleteRow, IndInv, TypeOK, InsertTypes, StoreTypes, RowsOwned
<1>18. CASE VacuumEnd
  <2>1. \A r \in Row : heap[r] = "inserting" => heap'[r] = "inserting"
    BY <1>18 DEF VacuumEnd
  <2>2. UNCHANGED <<ipc, irow>>
    BY <1>18 DEF VacuumEnd
  <2> QED
    BY <2>1, <2>2 DEF RowsOwned
<1>19. ASSUME NEW b \in Backend, Insert(b) PROVE RowsOwned'
  BY <1>19, <1>1, <1>2, <1>3, <1>4, <1>5, <1>6, <1>7, <1>8, <1>9, <1>10,
     <1>11, <1>12, <1>13, <1>14, <1>15 DEF Insert
<1>20. CASE Flush
  BY <1>20, <1>1 DEF Flush, FlushClaim, FlushWrite, FlushFiles, FlushRegister,
     FlushTrack, FlushUnlink, FlushRelease, FlushUnlock
<1>21. ASSUME NEW x \in Searcher, Search(x) \/ SearchError(x) PROVE RowsOwned'
  BY <1>21, <1>1 DEF Search, SearchBegin, SearchSnapshot, Snapshot,
     WorkerSearch, SearchGrowing, SearchSlot, SearchSealed, SearchReturn,
     SearchEnd, SearchReset, SearchError
<1>22. CASE Vacuum
  BY <1>22, <1>1, <1>18 DEF Vacuum, VacuumBegin, VacuumPinGrowing, VacuumPin,
     VacuumPinSealed, VacuumPick, VacuumMark, VacuumUnpin, VacuumSegments
<1> QED
  BY <1>1, <1>19, <1>16, <1>20, <1>21, <1>17, <1>22 DEF vars, Next

\* The row of an inserter is in its slot when it is about to publish.
LEMMA WrittenStep ==
    ASSUME IndInv, WriterInv, InsertRows, [Next]_vars, NEW b \in Backend,
           ipc'[b] = "publish"
    PROVE  tids'[islot'[b]][iidx'[b]] = irow'[b]
<1>1. ~Reserves(b)
  BY DEF Reserves
<1>2. /\ ipc[b] \in {"write", "publish"} /\ islot'[b] = islot[b]
      /\ iidx'[b] = iidx[b] /\ irow'[b] = irow[b]
  BY <1>1, WriterStep DEF WriterMoves
<1>3. CASE ipc[b] = "publish"
  <2>1. PICK s \in Slot : islot[b] = s
    BY <1>3 DEF IndInv, Shape
  <2>2. iidx[b] \in Valid(s) /\ ~Unwritten(s, iidx[b])
    BY <1>3, <2>1 DEF WriterInv, WriterSafe, Unwritten
  <2>3. tids'[s][iidx[b]] = tids[s][iidx[b]]
    BY <2>2, TidsKept
  <2> QED
    BY <1>2, <1>3, <2>1, <2>3 DEF InsertRows
<1>4. CASE ipc[b] # "publish"
  BY <1>1, <1>2, <1>4, WriterStep DEF WriterMoves
<1> QED
  BY <1>3, <1>4

\* Rows in the hands of inserters.
LEMMA InsertRowsStep ==
    ASSUME IndInv, WriterInv, InsertRows, Sweeping, [Next]_vars
    PROVE  InsertRows'
<1>1. RowsOwned'
  BY RowsOwnedStep DEF InsertRows, RowsOwned, Sweeping
<1> QED
  BY <1>1, WrittenStep DEF InsertRows, RowsOwned

\* MT_IDX_ROTATING keeps everybody else from taking an id between
\* allocate_new_growing_memtable and the installation of the new memtable.
LEMMA NewestStep ==
    ASSUME IndInv, Newest, [Next]_vars
    PROVE  Newest'
<1>1. CASE UNCHANGED <<growing_memtable_idx, memtable_id, next_segment_id, ipc, inew>>
  BY <1>1 DEF Newest, Coming
<1>2. ASSUME NEW b \in Backend, InsertBegin(b) PROVE Newest'
  BY <1>2 DEF InsertBegin, Goto, IndInv, TypeOK, InsertTypes, Newest, Coming
<1>3. ASSUME NEW b \in Backend, TakeFlushed(b) PROVE Newest'
  BY <1>3 DEF TakeFlushed, Goto, IndInv, TypeOK, InsertTypes, Newest, Coming
<1>4. ASSUME NEW b \in Backend, SkipRelease(b) PROVE Newest'
  BY <1>4 DEF SkipRelease, Goto, IndInv, TypeOK, InsertTypes, Newest, Coming
<1>5. ASSUME NEW b \in Backend, ReleaseFlushed(b) PROVE Newest'
  BY <1>5 DEF ReleaseFlushed, ReleaseStatus, Goto, IndInv, TypeOK, InsertTypes,
     Newest, Coming
<1>6. ASSUME NEW b \in Backend, Reserve(b) PROVE Newest'
  BY <1>6 DEF Reserve, ReserveBelow, Goto, IndInv, TypeOK, InsertTypes, Newest,
     Coming
<1>7. ASSUME NEW b \in Backend, ReserveFull(b) PROVE Newest'
  BY <1>7 DEF ReserveFull, Goto, IndInv, TypeOK, InsertTypes, Newest, Coming
<1>8. ASSUME NEW b \in Backend, NoGrowing(b) PROVE Newest'
  BY <1>8 DEF NoGrowing, Goto, IndInv, TypeOK, InsertTypes, Newest, Coming
<1>9. ASSUME NEW b \in Backend, WriteRow(b) PROVE Newest'
  BY <1>9 DEF WriteRow, Goto, IndInv, TypeOK, InsertTypes, Newest, Coming
<1>10. ASSUME NEW b \in Backend, Publish(b) PROVE Newest'
  BY <1>10 DEF Publish, Goto, IndInv, TypeOK, InsertTypes, Newest, Coming
<1>11. ASSUME NEW b \in Backend, RotateBegin(b) PROVE Newest'
  BY <1>11, SlotAssumption DEF RotateBegin, RotateIf, Goto, IndInv, TypeOK,
     InsertTypes, Newest, Coming
<1>12. ASSUME NEW b \in Backend, RotateWait(b) PROVE Newest'
  BY <1>12 DEF RotateWait, Goto, IndInv, TypeOK, InsertTypes, Newest, Coming
<1>13. ASSUME NEW b \in Backend, RotateAlloc(b) PROVE Newest'
  <2>1. PICK t \in Slot : SetMemtable(t) /\ inew' = [inew EXCEPT ![b] = t]
    BY <1>13 DEF RotateAlloc
  <2>2. growing_memtable_idx' \notin Slot /\ \A c \in Backend \ {b} : ~Rotating(c)
    BY <1>13, SlotAssumption DEF RotateAlloc, IndInv, RotateMutex, Rotating
  <2>3. \A c \in Backend, s \in Slot : Coming(c, s)' => s = t
    BY <1>13, <2>1, <2>2 DEF RotateAlloc, Goto, Rotating, Coming, IndInv,
       TypeOK, InsertTypes
  <2>4. memtable_id'[t] = next_segment_id' - 1
    BY <2>1 DEF SetMemtable, IndInv, TypeOK, SlotTypes, IndexTypes
  <2> QED
    BY <2>2, <2>3, <2>4 DEF Newest
<1>14. ASSUME NEW b \in Backend, RotateEnqueue(b) PROVE Newest'
  BY <1>14 DEF RotateEnqueue, Goto, IndInv, TypeOK, InsertTypes, Newest, Coming
<1>15. ASSUME NEW b \in Backend, RotateInstall(b) PROVE Newest'
  BY <1>15 DEF RotateInstall, Goto, IndInv, TypeOK, InsertTypes, Newest, Coming
<1>16. ASSUME NEW b \in Backend, InsertError(b) PROVE Newest'
  <2>1. ipc' = [ipc EXCEPT ![b] = "idle"] /\ UNCHANGED <<growing_memtable_idx, inew>>
    BY <1>16 DEF InsertError, Goto
  <2>2. CASE UNCHANGED <<memtable_id, next_segment_id>>
    BY <2>1, <2>2 DEF IndInv, TypeOK, InsertTypes, Newest, Coming
  <2>3. CASE ipc[b] = "alloc"
    <3>1. growing_memtable_idx \notin Slot /\ \A c \in Backend \ {b} : ~Rotating(c)
      BY <2>3, SlotAssumption DEF IndInv, RotateMutex, Rotating
    <3>2. \A c \in Backend, s \in Slot : ~Coming(c, s)'
      BY <2>1, <3>1 DEF Rotating, Coming, IndInv, TypeOK, InsertTypes
    <3> QED
      BY <2>1, <3>1, <3>2 DEF Newest
  <2> QED
    BY <1>16, <2>2, <2>3 DEF InsertError
<1>17. ASSUME NEW b \in Backend, Insert(b) PROVE Newest'
  BY <1>17, <1>1, <1>2, <1>3, <1>4, <1>5, <1>6, <1>7, <1>8, <1>9, <1>10,
     <1>11, <1>12, <1>13, <1>14, <1>15 DEF Insert
<1>18. CASE Flush
  BY <1>18, <1>1 DEF Flush, FlushClaim, FlushWrite, FlushFiles, FlushRegister,
     FlushTrack, FlushUnlink, FlushRelease, FlushUnlock
<1>19. ASSUME NEW x \in Searcher, Search(x) \/ SearchError(x) PROVE Newest'
  BY <1>19, <1>1 DEF Search, SearchBegin, SearchSnapshot, Snapshot,
     WorkerSearch, SearchGrowing, SearchSlot, SearchSealed, SearchReturn,
     SearchEnd, SearchReset, SearchError
<1>20. ASSUME NEW r \in Row, DeleteRow(r) PROVE Newest'
  BY <1>20, <1>1 DEF DeleteRow
<1>21. CASE Vacuum
  BY <1>21, <1>1 DEF Vacuum, VacuumBegin, VacuumPinGrowing, VacuumPin,
     VacuumPinSealed, VacuumPick, VacuumMark, VacuumUnpin, VacuumSegments,
     VacuumEnd
<1> QED
  BY <1>1, <1>17, <1>16, <1>18, <1>19, <1>20, <1>21 DEF vars, Next

-----------------------------------------------------------------------------
(* The sweep.                                                              *)

\* What a memtable offers it has offered before, unless it is the row of an
\* inserter that has just published it.
LEMMA OfferStep ==
    ASSUME IndInv, WriterInv, InsertRows, [Next]_vars, NEW s \in Slot,
           NEW r \in Row, Offers(s, r)', heap[r] # "inserting"
    PROVE  /\ Offers(s, r)
           /\ memtable_id'[s] = memtable_id[s]
           /\ \E i \in ready[s] \ bitmap'[s] : tids[s][i] = r
<1>1. Current(s)'
  BY DEF Offers
<1>2. PICK i \in ready'[s] : i \notin bitmap'[s] /\ tids'[s][i] = r
  BY DEF Offers
<1>3. ~SetMemtable(s)
  BY <1>2 DEF SetMemtable, IndInv, TypeOK, SlotTypes
<1>4. Current(s)
  BY <1>1, <1>3, OwnershipStep DEF OwnStep
<1>5. i \in ready[s]
  <2> SUFFICES ASSUME NEW b \in Backend, Publish(b), islot[b] = s, iidx[b] = i
               PROVE  FALSE
    BY <1>2, <1>3, SlotStep DEF SlotMoves
  <2>1. tids'[s][i] = irow[b] /\ ipc[b] = "publish"
    BY DEF Publish, InsertRows
  <2> QED
    BY <1>2, <2>1 DEF InsertRows
<1>6. tids[s][i] = r
  BY <1>2, <1>3, <1>5, ReadyKept
<1>7. i \notin bitmap[s]
  BY <1>2, <1>3, BitmapStep DEF BitmapGrows
<1>8. memtable_id'[s] = memtable_id[s]
  BY <1>3, SlotStep DEF SlotMoves
<1> QED
  BY <1>2, <1>4, <1>5, <1>6, <1>7, <1>8 DEF Offers

\* What a segment has it had before, or the memtable being flushed offered it.
LEMMA DiskOffer ==
    ASSUME IndInv, [Next]_vars, NEW e \in disk_rows', e \notin disk_rows
    PROVE  /\ fslot \in Slot /\ e[1] = memtable_id[fslot] /\ Offers(fslot, e[2])
           /\ UNCHANGED <<vacVars, unswept>>
<1>1. PICK i \in ready[fslot] \ bitmap[fslot] :
         /\ fslot \in Slot /\ InQueue(fslot)
         /\ e = <<memtable_id[fslot], tids[fslot][i]>>
         /\ UNCHANGED <<vacVars, unswept>>
  BY DiskStep DEF DiskGrows
<1>2. Current(fslot)
  BY <1>1 DEF Current
<1> QED
  BY <1>1, <1>2 DEF Offers

\* The order of VACUUM's steps.
LEMMA SweepOrderStep ==
    ASSUME IndInv, WriterInv, Newest, SweepOrder, [Next]_vars
    PROVE  SweepOrder'
<1>0. /\ next_segment_id \in Nat /\ next_segment_id' \in Nat
      /\ next_segment_id' >= next_segment_id
      /\ vgrow \in Nat /\ \A s \in Slot : memtable_id[s] \in Nat
  BY IdsStep, SMTT(40) DEF IdsMove, SetMemtable, IndInv, TypeOK, SlotTypes,
     IndexTypes, WorkerTypes
<1>1. ASSUME vgrow' = vgrow, PastGrowing, NEW s \in Slot, Current(s)', memtable_id'[s] < vgrow
      PROVE  InQueue(s)'
  <2>1. ~SetMemtable(s)
    BY <1>0, <1>1, SetFresh DEF SweepOrder, WriterInv
  <2>2. Current(s) /\ memtable_id'[s] = memtable_id[s]
    BY <1>1, <2>1, OwnershipStep, SlotStep DEF OwnStep, SlotMoves
  <2>3. InQueue(s)
    BY <1>1, <2>2 DEF SweepOrder
  <2>4. ~(fpc' = "unlinked" /\ fslot' = s)
    BY <1>1, RolesStep DEF Roles, Current, Unlinked
  <2> QED
    BY <2>3, <2>4, QueueStep DEF QueueMoves
<1>2. CASE UNCHANGED <<vacVars, unswept>>
  BY <1>0, <1>1, <1>2 DEF SweepOrder, PastGrowing
<1>3. CASE VacuumBegin
  BY <1>0, <1>3 DEF VacuumBegin, SweepOrder, PastGrowing, WriterInv, FreshIds
<1>4. CASE VacuumPinGrowing
  <2>1. CASE growing_memtable_idx \in Slot
    <3>1. \A b \in Backend : ~Rotating(b)
      BY <2>1, SlotAssumption DEF IndInv, RotateMutex
    <3>2. PICK g \in Slot : growing_memtable_idx = g
      BY <2>1
    <3>3. /\ vgrow' = memtable_id[g] /\ vmid' = memtable_id[g] /\ vpc' = "mark"
          /\ vids' = vids
          /\ UNCHANGED <<memtable_id, next_segment_id, growing_memtable_idx,
                         memtable_idxs, memtable_count, ipc, ineed, inew, islot>>
      BY <1>4, <3>2 DEF VacuumPinGrowing, VacuumPin
    <3>4. memtable_id[g] < next_segment_id
      BY DEF WriterInv, FreshIds
    <3>5. ASSUME NEW s \in Slot, Current(s)', memtable_id'[s] < vgrow' PROVE InQueue(s)'
      <4>1. Current(s) /\ s # g
        BY <1>0, <3>3, <3>5 DEF Current, InQueue, Going, Coming
      <4>2. InQueue(s)
        BY <3>1, <3>2, <4>1 DEF Current, Rotating, Going, Coming
      <4> QED
        BY <3>3, <4>2 DEF InQueue
    <3> QED
      BY <3>3, <3>4, <3>5 DEF SweepOrder, PastGrowing
  <2>2. CASE growing_memtable_idx \notin Slot
    <3>1. vpc' = "pick" /\ vgrow' = vgrow /\ vgrow = 0 /\ UNCHANGED <<memtable_id, next_segment_id>>
      BY <1>4, <2>2 DEF VacuumPinGrowing, SweepOrder
    <3> QED
      BY <1>0, <3>1 DEF SweepOrder, PastGrowing
  <2> QED
    BY <2>1, <2>2
<1>5. CASE VacuumPinSealed
  <2>1. /\ vpc = "pick" /\ vpc' \in {"mark", "segments"}
        /\ UNCHANGED <<vgrow, vids, next_segment_id>>
    BY <1>5 DEF VacuumPinSealed, VacuumPick, VacuumPin
  <2> QED
    BY <1>0, <1>1, <2>1 DEF SweepOrder, PastGrowing
<1>6. CASE VacuumMark
  <2>1. /\ vpc = "mark" /\ vpc' = "unpin"
        /\ UNCHANGED <<vgrow, vids, vmid, next_segment_id>>
    BY <1>6 DEF VacuumMark
  <2> QED
    BY <1>0, <1>1, <2>1 DEF SweepOrder, PastGrowing
<1>7. CASE VacuumUnpin
  <2>1. /\ vpc = "unpin" /\ vpc' = "pick" /\ vids' = vids \cup {vmid}
        /\ UNCHANGED <<vgrow, next_segment_id>>
    BY <1>7 DEF VacuumUnpin
  <2> QED
    BY <1>0, <1>1, <2>1 DEF SweepOrder, PastGrowing
<1>8. CASE VacuumSegments
  <2>1. /\ vpc = "segments" /\ vpc' = "done"
        /\ UNCHANGED <<vgrow, vids, next_segment_id>>
    BY <1>8 DEF VacuumSegments
  <2> QED
    BY <1>0, <1>1, <2>1 DEF SweepOrder, PastGrowing
<1>9. CASE VacuumEnd
  <2>1. vpc' = "idle" /\ vgrow' = 0 /\ UNCHANGED next_segment_id
    BY <1>9 DEF VacuumEnd
  <2> QED
    BY <1>0, <2>1 DEF SweepOrder, PastGrowing, WriterInv, FreshIds
<1> QED
  BY <1>2, <1>3, <1>4, <1>5, <1>6, <1>7, <1>8, <1>9, VacuumOnly DEF VacuumMoves, Vacuum

\* The claim of Sweeping about one row.
Clean(r) ==
    /\ vgrow > 0
    /\ \A e \in disk_rows : e[2] = r =>
          e[1] <= vgrow /\ e[1] \notin Swept /\ vpc # "done"
    /\ \A s \in Slot : Offers(s, r) =>
          /\ memtable_id[s] <= vgrow
          /\ memtable_id[s] \notin Swept
          /\ vpc \notin {"segments", "done"}

\* A step that leaves VACUUM's state alone, or is one of its moves within
\* step 2, keeps the claim.
LEMMA CleanKept ==
    ASSUME IndInv, WriterInv, InsertRows, [Next]_vars, NEW r \in Row,
           heap[r] = "dead", Clean(r), vgrow' = vgrow, Swept' \subseteq Swept,
           vpc' \in {"segments", "done"} => vpc' = vpc
    PROVE  Clean(r)'
<1>1. ASSUME NEW s \in Slot, Offers(s, r)'
      PROVE  /\ memtable_id'[s] <= vgrow
             /\ memtable_id'[s] \notin Swept
             /\ vpc \notin {"segments", "done"}
  BY <1>1, OfferStep DEF Clean
<1>2. ASSUME NEW e \in disk_rows', e[2] = r
      PROVE  e[1] <= vgrow /\ e[1] \notin Swept /\ vpc # "done"
  BY <1>2, DiskOffer DEF Clean
<1> QED
  BY <1>1, <1>2 DEF Clean

\* Each step of VACUUM does its part.
LEMMA SweepingStep ==
    ASSUME IndInv, WriterInv, SweepInv, [Next]_vars
    PROVE  Sweeping'
<1>0. InsertRows /\ DiskSound /\ Newest /\ SweepOrder /\ Sweeping
  BY DEF SweepInv
<1>1. doomed' \subseteq {r \in Row : heap'[r] = "dead"} /\ (vpc' = "idle" => doomed' = {})
  <2>1. CASE VacuumBegin
    BY <2>1 DEF VacuumBegin
  <2>2. CASE VacuumEnd
    BY <2>2 DEF VacuumEnd
  <2>3. CASE ~VacuumBegin /\ ~VacuumEnd
    <3>1. doomed' = doomed /\ (vpc' = "idle" => vpc = "idle")
      BY <2>3, VacuumOnly DEF VacuumMoves, Vacuum, VacuumPinGrowing, VacuumPin, VacuumPinSealed, VacuumPick, VacuumMark, VacuumUnpin, VacuumSegments
    <3>2. \A r \in doomed : heap'[r] = "dead"
      BY <1>0, <2>3, FinalStep DEF HeapFinal, Sweeping
    <3> QED
      BY <1>0, <3>1, <3>2 DEF Sweeping
  <2> QED
    BY <2>1, <2>2, <2>3
<1> SUFFICES ASSUME PastGrowing', NEW r \in doomed', r \notin unswept'
             PROVE  Clean(r)'
  BY <1>1 DEF Sweeping, Clean
<1>2. ASSUME doomed' = doomed
      PROVE  r \in Row /\ heap[r] = "dead" /\ (PastGrowing /\ r \notin unswept => Clean(r))
  BY <1>0, <1>2 DEF Sweeping, Clean
<1>3. CASE UNCHANGED <<vacVars, unswept>>
  <2>1. Swept' = Swept /\ (PastGrowing <=> PastGrowing')
    BY <1>3 DEF Swept, PastGrowing
  <2> QED
    BY <1>0, <1>2, <1>3, <2>1, CleanKept
<1>4. CASE VacuumBegin \/ VacuumEnd
  BY <1>4 DEF VacuumBegin, VacuumEnd, PastGrowing
<1>5. CASE VacuumPinGrowing
  <2>1. growing_memtable_idx \in Slot
    BY <1>5 DEF VacuumPinGrowing
  <2>2. PICK g \in Slot : growing_memtable_idx = g
    BY <2>1
  <2>3. /\ vgrow' = memtable_id[g] /\ vpc' = "mark" /\ vids' = {}
        /\ UNCHANGED <<memtable_id, disk_rows>>
    BY <1>0, <1>5, <2>2 DEF VacuumPinGrowing, VacuumPin, SweepOrder
  <2>4. /\ memtable_id[g] = next_segment_id - 1 /\ next_segment_id \in Nat
        /\ memtable_id[g] > 0
    BY <1>0, <2>2, GrowingFresh DEF Newest, IndInv, TypeOK, IndexTypes, WriterInv, FreshIds
  <2>5. \A s \in Slot : memtable_id[s] <= memtable_id[g]
    BY <2>4 DEF WriterInv, FreshIds, IndInv, TypeOK, SlotTypes
  <2>6. \A e \in disk_rows : e[1] <= memtable_id[g]
    BY <1>0, <2>4 DEF DiskSound, WriterInv, FreshIds
  <2>7. Swept' = {}
    BY <2>3 DEF Swept
  <2> QED
    BY <2>3, <2>4, <2>5, <2>6, <2>7 DEF Clean
<1>6. CASE VacuumPinSealed
  <2>1. /\ vpc = "pick" /\ vpc' \in {"mark", "segments"}
        /\ UNCHANGED <<vgrow, vids, doomed, unswept, memtable_id, disk_rows, ready,
                       bitmap, tids>>
    BY <1>6 DEF VacuumPinSealed, VacuumPick, VacuumPin
  <2>2. Swept' = vids /\ Swept = vids
    BY <2>1 DEF Swept
  <2>3. Clean(r) /\ r \in Row /\ heap[r] = "dead"
    BY <1>2, <2>1 DEF PastGrowing
  <2>4. CASE vpc' = "mark"
    BY <1>0, <2>1, <2>2, <2>3, <2>4, CleanKept
  <2>5. CASE vpc' = "segments"
    <3>1. \A p \in Position : p < memtable_count =>
             memtable_id[memtable_idxs[p]] \notin (0 .. vgrow - 1) \ vids
      BY <1>6, <2>5 DEF VacuumPinSealed, VacuumPick, VacuumPin
    <3>2. ASSUME NEW s \in Slot, Offers(s, r) PROVE FALSE
      <4>1. /\ memtable_id[s] \in Nat /\ memtable_id[s] <= vgrow
            /\ memtable_id[s] \notin vids /\ vgrow \in Nat
        BY <2>2, <2>3, <3>2 DEF Clean, IndInv, TypeOK, SlotTypes, WorkerTypes
      <4>2. vgrow \in vids
        BY <1>0, <2>1, <2>3 DEF SweepOrder, Clean
      <4>3. memtable_id[s] < vgrow /\ memtable_id[s] \in (0 .. vgrow - 1) \ vids
        BY <4>1, <4>2
      <4>4. InQueue(s)
        BY <1>0, <2>1, <3>2, <4>3 DEF SweepOrder, PastGrowing, Offers
      <4> QED
        BY <3>1, <4>3, <4>4 DEF InQueue
    <3>3. \A s \in Slot : ~Offers(s, r)'
      BY <1>0, <2>3, <3>2, OfferStep
    <3>4. \A e \in disk_rows : e[2] = r => e[1] <= vgrow /\ e[1] \notin vids
      BY <2>2, <2>3 DEF Clean
    <3> QED
      BY <2>1, <2>2, <2>3, <2>5, <3>3, <3>4 DEF Clean
  <2> QED
    BY <2>1, <2>4, <2>5
<1>7. CASE VacuumMark
  <2>1. /\ vpc = "mark" /\ vpc' = "unpin" /\ memtable_id[vslot] = vmid
        /\ UNCHANGED <<vgrow, vids, vmid, doomed, unswept, memtable_id, ready, tids>>
    BY <1>7 DEF VacuumMark
  <2>2. Swept = vids /\ Swept' = vids \cup {vmid} /\ vslot \in Slot
    BY <2>1 DEF Swept, IndInv, Shape
  <2>3. Clean(r) /\ r \in Row /\ heap[r] = "dead" /\ r \in doomed
    BY <1>2, <2>1 DEF PastGrowing
  <2>4. \A i \in ready[vslot] : tids[vslot][i] = r => i \in bitmap'[vslot]
    <3>1. ready[vslot] \subseteq Valid(vslot)
      BY <2>2 DEF WriterInv, ReadyValid
    <3>2. bitmap'[vslot] = bitmap[vslot] \cup
             {i \in Valid(vslot) : /\ vmid = vgrow => i \in ready[vslot]
                                   /\ tids[vslot][i] \in doomed}
      BY <1>7, <2>2 DEF VacuumMark, IndInv, TypeOK, SlotTypes
    <3> QED
      BY <2>3, <3>1, <3>2
  <2>5. ASSUME NEW s \in Slot, Offers(s, r)'
        PROVE  memtable_id[s] <= vgrow /\ memtable_id[s] \notin vids \cup {vmid}
    <3>1. Offers(s, r) /\ \E i \in ready[s] \ bitmap'[s] : tids[s][i] = r
      BY <1>0, <2>3, <2>5, OfferStep
    <3>2. s # vslot
      BY <2>4, <3>1
    <3>3. memtable_id[s] > 0
      BY <3>1 DEF Offers, Owned, WriterInv, FreshIds
    <3>4. memtable_id[s] # vmid
      BY <2>1, <2>2, <3>2, <3>3 DEF WriterInv, FreshIds
    <3> QED
      BY <2>2, <2>3, <3>1, <3>4 DEF Clean
  <2>6. ASSUME NEW e \in disk_rows', e[2] = r
        PROVE  e[1] <= vgrow /\ e[1] \notin vids \cup {vmid}
    <3>1. e \in disk_rows
      BY <1>7, <2>6 DEF VacuumMark
    <3>2. e[1] <= vgrow /\ e[1] \notin vids
      BY <2>2, <2>3, <2>6, <3>1 DEF Clean
    <3>3. ASSUME e[1] = vmid PROVE FALSE
      <4>1. e = <<memtable_id[vslot], r>> /\ r \in AnyRow /\ vmid \in disk_sids
        BY <1>0, <2>1, <2>3, <2>6, <3>1, <3>3 DEF IndInv, TypeOK, StoreTypes, AnyRow, DiskSound
      <4>2. PICK i \in ready[vslot] : tids[vslot][i] = r
        BY <1>0, <2>2, <3>1, <4>1 DEF DiskSound
      <4>3. i \in Valid(vslot)
        BY <2>2 DEF WriterInv, ReadyValid
      <4> DEFINE hit == {j \in Valid(vslot) : /\ vmid = vgrow => j \in ready[vslot]
                                              /\ tids[vslot][j] \in doomed}
                 marked == {tids[vslot][j] : j \in Valid(vslot) \cap
                                                     (bitmap[vslot] \cup hit)}
      <4>4. i \in hit /\ r \in marked
        BY <2>3, <4>2, <4>3
      <4>5. disk_rows' = {d \in disk_rows : d[1] # vmid \/ d[2] \notin marked}
        BY <1>7, <4>1, <4>4 DEF VacuumMark
      <4> QED
        BY <2>6, <3>3, <4>4, <4>5
    <3> QED
      BY <3>2, <3>3
  <2> QED
    BY <2>1, <2>2, <2>3, <2>5, <2>6 DEF Clean
<1>8. CASE VacuumUnpin
  <2>1. /\ vpc = "unpin" /\ vpc' = "pick" /\ vids' = vids \cup {vmid}
        /\ UNCHANGED <<vgrow, doomed, unswept>>
    BY <1>8 DEF VacuumUnpin
  <2>2. Swept' = Swept
    BY <2>1 DEF Swept
  <2> QED
    BY <1>0, <1>2, <2>1, <2>2, CleanKept DEF PastGrowing
<1>9. CASE VacuumSegments
  <2>1. /\ vpc = "segments" /\ vpc' = "done"
        /\ UNCHANGED <<vgrow, vids, doomed, unswept, memtable_id>>
        /\ disk_rows' = {e \in disk_rows : e[1] \in vids \/ e[2] \notin doomed}
    BY <1>9 DEF VacuumSegments
  <2>2. Clean(r) /\ r \in Row /\ heap[r] = "dead" /\ r \in doomed
    BY <1>2, <2>1 DEF PastGrowing
  <2>3. \A s \in Slot : ~Offers(s, r)'
    BY <1>0, <2>1, <2>2, OfferStep DEF Clean
  <2>4. \A e \in disk_rows' : e[2] # r
    BY <2>1, <2>2 DEF Clean, Swept
  <2> QED
    BY <2>1, <2>2, <2>3, <2>4 DEF Clean
<1> QED
  BY <1>3, <1>4, <1>5, <1>6, <1>7, <1>8, <1>9, VacuumOnly DEF VacuumMoves, Vacuum

\* And what is gone stays gone.
LEMMA VacuumSweepsStep ==
    ASSUME IndInv, WriterInv, SweepInv, [Next]_vars
    PROVE  VacuumSweeps'
<1>0. InsertRows /\ Sweeping /\ VacuumSweeps
  BY DEF SweepInv
<1>1. unswept \subseteq unswept'
  BY VacuumOnly DEF VacuumMoves, Vacuum, VacuumBegin, VacuumPinGrowing,
     VacuumPinSealed, VacuumPick, VacuumMark, VacuumUnpin, VacuumSegments, VacuumEnd
<1> SUFFICES ASSUME NEW r \in Row, r \notin unswept', heap'[r] = "gone"
             PROVE  (\A e \in disk_rows' : e[2] # r) /\ \A s \in Slot : ~Offers(s, r)'
  BY DEF VacuumSweeps, Offers
<1>2. CASE heap[r] = "gone"
  <2>1. (\A e \in disk_rows : e[2] # r) /\ \A s \in Slot : ~Offers(s, r)
    BY <1>0, <1>1, <1>2 DEF VacuumSweeps, Offers
  <2>2. \A e \in disk_rows' : e[2] # r
    BY <2>1, DiskOffer
  <2> QED
    BY <1>0, <1>2, <2>1, <2>2, OfferStep
<1>3. CASE VacuumEnd /\ r \in doomed
  <2>1. vpc = "done" /\ UNCHANGED disk_rows
    BY <1>3 DEF VacuumEnd
  <2>2. heap[r] = "dead" /\ Clean(r)
    BY <1>0, <1>1, <1>3, <2>1 DEF Sweeping, PastGrowing, Clean
  <2> QED
    BY <1>0, <2>1, <2>2, OfferStep DEF Clean
<1> QED
  BY <1>0, <1>2, <1>3, FinalStep DEF HeapFinal

\* Initially there are no rows.
LEMMA InitSweepInv == Init => SweepInv
<1> SUFFICES ASSUME Init PROVE SweepInv
  OBVIOUS
<1>1. InsertRows /\ DiskSound
  BY DEF Init, InsertRows, DiskSound
<1>2. Newest
  BY SlotAssumption DEF Init, Newest, Coming
<1>3. SweepOrder
  BY DEF Init, SweepOrder, PastGrowing
<1>4. Sweeping
  BY DEF Init, Sweeping, PastGrowing
<1>5. VacuumSweeps
  BY DEF Init, VacuumSweeps
<1> QED
  BY <1>1, <1>2, <1>3, <1>4, <1>5 DEF SweepInv

\* Every step preserves it.
LEMMA SweepInvStep == IndInv /\ WriterInv /\ SweepInv /\ [Next]_vars => SweepInv'
<1> SUFFICES ASSUME IndInv, WriterInv, SweepInv, [Next]_vars PROVE SweepInv'
  OBVIOUS
<1>1. InsertRows'
  BY InsertRowsStep DEF SweepInv
<1>2. DiskSound'
  BY DiskSoundStep DEF SweepInv
<1>3. Newest'
  BY NewestStep DEF SweepInv
<1>4. SweepOrder'
  BY SweepOrderStep DEF SweepInv
<1> QED
  BY <1>1, <1>2, <1>3, <1>4, SweepingStep, VacuumSweepsStep DEF SweepInv

\* The invariant of the sweep holds in every reachable state.
THEOREM SweepInvHolds == Spec => []SweepInv
  BY IndInvHolds, WriterInvHolds, InitSweepInv, SweepInvStep, PTL DEF Spec

\* bulk_delete_lsm_index: when VACUUM lets the heap reuse a TID, neither a
\* memtable nor a segment file offers it any more, whatever was rotated,
\* flushed or inserted while it went from the growing memtable over the sealed
\* ones to the segments, if only it found a growing memtable to start from.
THEOREM VacuumComplete == Spec => []VacuumSweeps
<1>1. SweepInv => VacuumSweeps
  BY DEF SweepInv
<1> QED
  BY <1>1, SweepInvHolds, PTL
===============================================================================
