-------------------------- MODULE MemtablesRowProofs --------------------------
(***************************************************************************)
(* Proofs about what Memtables does with ids and rows, on top of IndInv:   *)
(* WriterInv is inductive relative to IndInv, so WriterSafe holds for any  *)
(* constants; DurableInv is inductive as long as there is no VACUUM and    *)
(* ReachInv as long as there are no ERRORs and a growing memtable from the *)
(* start either, so then no committed row is ever lost, out of reach or    *)
(* missed by a search.                                                     *)
(***************************************************************************)
EXTENDS MemtablesProofs

USE DEF slotVars, indexVars, relVars, segVars, statusVars, insVars, flushVars,
        searchVars, vacVars, histVars

-----------------------------------------------------------------------------
(* How slots come into use and go out of it.                               *)

\* What a step may do to the index's use of slot s: only
\* register_and_set_memtable brings a slot into use, only the flusher's
\* release_memtable_slot takes one out, and a memtable enters the index with
\* an entry in the status pages.
OwnStep(s) ==
    /\ Current(s)' => \/ Current(s)
                      \/ SetMemtable(s) /\ next_segment_id \in status_sids'
    /\ Owned(s)' => Owned(s) \/ SetMemtable(s)
    /\ Owned(s) => \/ Owned(s)'
                   \/ fslot = s /\ fpc = "unlinked" /\ fpc' = "released"

\* Every step keeps to it.
LEMMA OwnershipStep ==
    ASSUME IndInv, [Next]_vars, NEW s \in Slot
    PROVE  OwnStep(s)
<1>1. CASE UNCHANGED <<growing_memtable_idx, memtable_idxs, memtable_count, insVars,
                       flushVars, orphans>>
  BY <1>1 DEF OwnStep, Owned, Current, InQueue, Going, Coming
<1>2. ASSUME NEW b \in Backend, InsertBegin(b) PROVE OwnStep(s)
  BY <1>2, SlotAssumption DEF InsertBegin, Goto, IndInv, TypeOK, InsertTypes,
     OwnStep, Owned, Current, InQueue, Going, Coming
<1>3. ASSUME NEW b \in Backend, TakeFlushed(b) PROVE OwnStep(s)
  BY <1>3, SlotAssumption DEF TakeFlushed, Goto, IndInv, TypeOK, InsertTypes,
     OwnStep, Owned, Current, InQueue, Going, Coming
<1>4. ASSUME NEW b \in Backend, SkipRelease(b) PROVE OwnStep(s)
  BY <1>4, SlotAssumption DEF SkipRelease, Goto, IndInv, TypeOK, InsertTypes,
     OwnStep, Owned, Current, InQueue, Going, Coming
<1>5. ASSUME NEW b \in Backend, ReleaseFlushed(b) PROVE OwnStep(s)
  BY <1>5, SlotAssumption DEF ReleaseFlushed, ReleaseStatus, Goto, IndInv,
     TypeOK, InsertTypes, OwnStep, Owned, Current, InQueue, Going, Coming
<1>6. ASSUME NEW b \in Backend, Reserve(b) PROVE OwnStep(s)
  BY <1>6, SlotAssumption DEF Reserve, ReserveBelow, Goto, IndInv, TypeOK,
     InsertTypes, OwnStep, Owned, Current, InQueue, Going, Coming
<1>7. ASSUME NEW b \in Backend, ReserveFull(b) PROVE OwnStep(s)
  BY <1>7, SlotAssumption DEF ReserveFull, Goto, IndInv, TypeOK, InsertTypes,
     OwnStep, Owned, Current, InQueue, Going, Coming
<1>8. ASSUME NEW b \in Backend, NoGrowing(b) PROVE OwnStep(s)
  BY <1>8, SlotAssumption DEF NoGrowing, Goto, IndInv, TypeOK, InsertTypes,
     OwnStep, Owned, Current, InQueue, Going, Coming
<1>9. ASSUME NEW b \in Backend, WriteRow(b) PROVE OwnStep(s)
  BY <1>9, SlotAssumption DEF WriteRow, Goto, IndInv, TypeOK, InsertTypes,
     OwnStep, Owned, Current, InQueue, Going, Coming
<1>10. ASSUME NEW b \in Backend, Publish(b) PROVE OwnStep(s)
  BY <1>10, SlotAssumption DEF Publish, Goto, IndInv, TypeOK, InsertTypes,
     OwnStep, Owned, Current, InQueue, Going, Coming
<1>11. ASSUME NEW b \in Backend, RotateBegin(b) PROVE OwnStep(s)
  <2>1. CASE UNCHANGED <<growing_memtable_idx, islot, orphans>>
    BY <1>11, <2>1 DEF RotateBegin, RotateIf, Goto, IndInv, TypeOK,
       InsertTypes, OwnStep, Owned, Current, InQueue, Going, Coming
  <2>2. CASE /\ growing_memtable_idx # MT_IDX_ROTATING
             /\ growing_memtable_idx' = MT_IDX_ROTATING
             /\ islot' = [islot EXCEPT ![b] = growing_memtable_idx]
             /\ orphans' = IF ~ineed[b] /\ growing_memtable_idx \in Slot
                           THEN orphans \cup {growing_memtable_idx}
                           ELSE orphans
             /\ Goto(b, "alloc")
    <3>1. \A c \in Backend : ~Rotating(c)
      BY <2>2 DEF IndInv, RotateMutex
    <3>2. \A c \in Backend : ~Going(c, s) /\ ~Coming(c, s)
      BY <3>1 DEF Rotating, Going, Coming
    <3>3. \A c \in Backend :
             /\ Going(c, s)' <=> c = b /\ ineed[b] /\ s = growing_memtable_idx
             /\ ~Coming(c, s)'
      BY <1>11, <2>2, <3>1 DEF RotateBegin, RotateIf, Goto, Rotating, Going,
         Coming, IndInv, TypeOK, InsertTypes
    <3>4. /\ InQueue(s)' <=> InQueue(s)
          /\ UNCHANGED <<fpc, fslot>>
          /\ growing_memtable_idx' # s
      BY <1>11, <2>2, SlotAssumption DEF RotateBegin, RotateIf, InQueue
    <3>5. s \in orphans' <=> s \in orphans \/ (~ineed[b] /\ s = growing_memtable_idx)
      BY <2>2
    <3>6. ineed[b] \in BOOLEAN
      BY DEF IndInv, TypeOK, InsertTypes
    <3> QED
      BY <3>2, <3>3, <3>4, <3>5, <3>6 DEF OwnStep, Owned, Current
  <2> QED
    BY <1>11, <2>1, <2>2 DEF RotateBegin, RotateIf
<1>12. ASSUME NEW b \in Backend, RotateWait(b) PROVE OwnStep(s)
  BY <1>12, SlotAssumption DEF RotateWait, Goto, IndInv, TypeOK, InsertTypes,
     OwnStep, Owned, Current, InQueue, Going, Coming
<1>13. ASSUME NEW b \in Backend, RotateAlloc(b) PROVE OwnStep(s)
  <2>1. PICK t \in Slot : SetMemtable(t) /\ inew' = [inew EXCEPT ![b] = t]
    BY <1>13 DEF RotateAlloc
  <2>2. /\ UNCHANGED <<growing_memtable_idx, memtable_idxs, memtable_count, fpc,
                       fslot, orphans>>
        /\ next_segment_id \in status_sids'
    BY <1>13 DEF RotateAlloc
  <2>3. \A c \in Backend : Going(c, s)' <=> Going(c, s)
    BY <1>13 DEF RotateAlloc, Goto, Going, IndInv, TypeOK, InsertTypes, Shape
  <2>4. \A c \in Backend : /\ Coming(c, s)' => Coming(c, s) \/ s = t
                           /\ Coming(c, s) => Coming(c, s)'
    BY <1>13, <2>1 DEF RotateAlloc, Goto, Coming, IndInv, TypeOK, InsertTypes
  <2> QED
    BY <2>1, <2>2, <2>3, <2>4 DEF OwnStep, Owned, Current, InQueue
<1>14. ASSUME NEW b \in Backend, RotateEnqueue(b) PROVE OwnStep(s)
  <2>1. InQueue(s)' <=> InQueue(s) \/ s = islot[b]
    BY <1>14, EnqueueEffect
  <2>2. Going(b, islot[b])
    BY <1>14 DEF RotateEnqueue, IndInv, Shape, Going
  <2>3. \A c \in Backend : /\ Going(c, s)' => Going(c, s)
                           /\ Going(c, s) => Going(c, s)' \/ s = islot[b]
                           /\ Coming(c, s)' <=> Coming(c, s)
    BY <1>14 DEF RotateEnqueue, Goto, Going, Coming, IndInv, TypeOK,
       InsertTypes
  <2>4. UNCHANGED <<growing_memtable_idx, fpc, fslot, orphans>>
    BY <1>14 DEF RotateEnqueue
  <2> QED
    BY <2>1, <2>2, <2>3, <2>4 DEF OwnStep, Owned, Current
<1>15. ASSUME NEW b \in Backend, RotateInstall(b) PROVE OwnStep(s)
  BY <1>15, SlotAssumption DEF RotateInstall, Goto, IndInv, TypeOK,
     InsertTypes, OwnStep, Owned, Current, InQueue, Going, Coming, Roles,
     RotateMutex, Rotating
<1>16. ASSUME NEW b \in Backend, InsertError(b) PROVE OwnStep(s)
  <2>1. CASE UNCHANGED orphans /\ ipc[b] \in {"release", "write"}
    BY <1>16, <2>1 DEF InsertError, SetMemtable, ReleaseStatus, Goto, IndInv,
       TypeOK, InsertTypes, OwnStep, Owned, Current, InQueue, Going, Coming
  <2>2. CASE ipc[b] = "alloc"
    BY <1>16, <2>2 DEF InsertError, SetMemtable, ReleaseStatus, Goto, IndInv,
       TypeOK, InsertTypes, OwnStep, Owned, Current, InQueue, Going, Coming,
       Shape
  <2> QED
    BY <1>16, <2>1, <2>2 DEF InsertError
<1>17. CASE FlushClaim
  BY <1>17, SlotAssumption DEF FlushClaim, IndInv, TypeOK, InsertTypes,
     OwnStep, Owned, Current, InQueue, Going, Coming
<1>18. CASE FlushWrite
  BY <1>18, SlotAssumption DEF FlushWrite, FlushFiles, IndInv, TypeOK,
     InsertTypes, OwnStep, Owned, Current, InQueue, Going, Coming
<1>19. CASE FlushRegister
  BY <1>19, SlotAssumption DEF FlushRegister, IndInv, TypeOK, InsertTypes,
     OwnStep, Owned, Current, InQueue, Going, Coming
<1>20. CASE FlushTrack
  BY <1>20, SlotAssumption DEF FlushTrack, IndInv, TypeOK, InsertTypes,
     OwnStep, Owned, Current, InQueue, Going, Coming
<1>21. CASE FlushUnlink
  <2>1. InQueue(s)' <=> InQueue(s) /\ s # fslot
    BY <1>21, UnlinkEffect
  <2> QED
    BY <1>21, <2>1 DEF FlushUnlink, OwnStep, Owned, Current, Going, Coming,
       IndInv, QueueInv, Shape
<1>22. CASE FlushRelease
  BY <1>22, SlotAssumption DEF FlushRelease, IndInv, TypeOK, InsertTypes,
     OwnStep, Owned, Current, InQueue, Going, Coming
<1>23. CASE FlushUnlock
  BY <1>23, SlotAssumption DEF FlushUnlock, IndInv, TypeOK, InsertTypes,
     OwnStep, Owned, Current, InQueue, Going, Coming
<1>24. ASSUME NEW b \in Backend, Insert(b) PROVE OwnStep(s)
  BY <1>24, <1>1, <1>2, <1>3, <1>4, <1>5, <1>6, <1>7, <1>8, <1>9, <1>10,
     <1>11, <1>12, <1>13, <1>14, <1>15 DEF Insert
<1>25. CASE Flush
  BY <1>25, <1>1, <1>17, <1>18, <1>19, <1>20, <1>21, <1>22, <1>23 DEF Flush
<1>26. ASSUME NEW x \in Searcher, Search(x) \/ SearchError(x) PROVE OwnStep(s)
  BY <1>26, <1>1 DEF Search, SearchBegin, SearchSnapshot, Snapshot,
     WorkerSearch, SearchGrowing, SearchSlot, SearchSealed, SearchReturn,
     SearchEnd, SearchReset, SearchError
<1>27. ASSUME NEW r \in Row, DeleteRow(r) PROVE OwnStep(s)
  BY <1>27, <1>1 DEF DeleteRow
<1>28. CASE Vacuum
  BY <1>28, <1>1 DEF Vacuum, VacuumBegin, VacuumPinGrowing, VacuumPin,
     VacuumPinSealed, VacuumPick, VacuumMark, VacuumUnpin, VacuumSegments,
     VacuumEnd
<1> QED
  BY <1>1, <1>24, <1>16, <1>25, <1>26, <1>27, <1>28 DEF vars, Next

-----------------------------------------------------------------------------
(* What a step may do to ids, slots, writers and stores.                   *)

\* While the flusher works on a memtable it is in use.
LEMMA FlusherOwns ==
    ASSUME IndInv, fpc \in {"wait", "written", "registered", "tracked", "unlinked"}
    PROVE  fslot \in Slot /\ Owned(fslot)
  BY DEF IndInv, Shape, QueueInv, Owned, Current

\* Ids change only where register_and_set_memtable gives out the next one.
\* Nothing is stored or flushed in that step.
IdsMove ==
    \/ UNCHANGED <<memtable_id, next_segment_id>>
    \/ /\ \E t \in Slot : SetMemtable(t)
       /\ UNCHANGED <<disk_sids, disk_rows, pool_sids, pool_rows, status_rows,
                      flushed_not_released, fpc, fslot, growing_memtable_idx>>

\* Every step keeps to it.
LEMMA IdsStep ==
    ASSUME IndInv, [Next]_vars
    PROVE  IdsMove
<1>1. CASE UNCHANGED <<memtable_id, next_segment_id>>
  BY <1>1 DEF IdsMove
<1>2. ASSUME NEW b \in Backend, RotateAlloc(b) PROVE IdsMove
  BY <1>2 DEF RotateAlloc, IdsMove
<1>3. ASSUME NEW b \in Backend, InsertError(b) PROVE IdsMove
  BY <1>3 DEF InsertError, IdsMove
<1>4. ASSUME NEW b \in Backend, Insert(b) PROVE IdsMove
  BY <1>4, <1>1, <1>2 DEF Insert, InsertBegin, Goto, TakeFlushed, SkipRelease,
     ReleaseFlushed, ReleaseStatus, Reserve, ReserveBelow, ReserveFull,
     NoGrowing, WriteRow, Publish, RotateBegin, RotateIf, RotateWait,
     RotateEnqueue, RotateInstall
<1>5. CASE Flush
  BY <1>5, <1>1 DEF Flush, FlushClaim, FlushWrite, FlushFiles, FlushRegister,
     FlushTrack, FlushUnlink, FlushRelease, FlushUnlock
<1>6. ASSUME NEW x \in Searcher, Search(x) \/ SearchError(x) PROVE IdsMove
  BY <1>6, <1>1 DEF Search, SearchBegin, SearchSnapshot, Snapshot,
     WorkerSearch, SearchGrowing, SearchSlot, SearchSealed, SearchReturn,
     SearchEnd, SearchReset, SearchError
<1>7. ASSUME NEW r \in Row, DeleteRow(r) PROVE IdsMove
  BY <1>7, <1>1 DEF DeleteRow
<1>8. CASE Vacuum
  BY <1>8, <1>1 DEF Vacuum, VacuumBegin, VacuumPinGrowing, VacuumPin,
     VacuumPinSealed, VacuumPick, VacuumMark, VacuumUnpin, VacuumSegments,
     VacuumEnd
<1> QED
  BY <1>1, <1>4, <1>3, <1>5, <1>6, <1>7, <1>8 DEF vars, Next

\* Segments come from the flusher's memtable only.
StoreGrows ==
    /\ \A m \in disk_sids' : \/ m \in disk_sids
                             \/ /\ fpc = "wait" /\ fpc' = "written"
                                /\ ready[fslot] = Valid(fslot)
                                /\ m = memtable_id[fslot]
    /\ \A m \in pool_sids' : \/ m \in pool_sids
                             \/ fpc = "written" /\ m = memtable_id[fslot]
    /\ disk_sids \subseteq disk_sids'
    /\ pool_sids \subseteq pool_sids'

\* The stores: a segment is written from the flusher's memtable while it is in
\* the queue, loaded into the pool after that, and never removed.
LEMMA StoreStep ==
    ASSUME IndInv, [Next]_vars
    PROVE  StoreGrows
<1>1. CASE UNCHANGED <<disk_sids, pool_sids>>
  BY <1>1 DEF StoreGrows
<1>2. ASSUME NEW b \in Backend, InsertError(b) PROVE StoreGrows
  BY <1>2 DEF InsertError, StoreGrows
<1>3. CASE FlushWrite
  BY <1>3 DEF FlushWrite, FlushFiles, StoreGrows
<1>4. CASE FlushRegister
  BY <1>4 DEF FlushRegister, StoreGrows
<1>5. CASE VacuumMark
  BY <1>5 DEF VacuumMark, StoreGrows
<1>6. CASE VacuumSegments
  BY <1>6 DEF VacuumSegments, StoreGrows
<1>7. ASSUME NEW b \in Backend, Insert(b) PROVE StoreGrows
  BY <1>7, <1>1 DEF Insert, InsertBegin, Goto, TakeFlushed, SkipRelease,
     ReleaseFlushed, ReleaseStatus, Reserve, ReserveBelow, ReserveFull,
     NoGrowing, WriteRow, Publish, RotateBegin, RotateIf, RotateWait,
     RotateAlloc, SetMemtable, RotateEnqueue, RotateInstall
<1>8. CASE Flush
  BY <1>8, <1>1, <1>3, <1>4 DEF Flush, FlushClaim, FlushTrack, FlushUnlink,
     FlushRelease, FlushUnlock
<1>9. ASSUME NEW x \in Searcher, Search(x) \/ SearchError(x) PROVE StoreGrows
  BY <1>9, <1>1 DEF Search, SearchBegin, SearchSnapshot, Snapshot,
     WorkerSearch, SearchGrowing, SearchSlot, SearchSealed, SearchReturn,
     SearchEnd, SearchReset, SearchError
<1>10. ASSUME NEW r \in Row, DeleteRow(r) PROVE StoreGrows
  BY <1>10, <1>1 DEF DeleteRow
<1>11. CASE Vacuum
  BY <1>11, <1>1, <1>5, <1>6 DEF Vacuum, VacuumBegin, VacuumPinGrowing,
     VacuumPin, VacuumPinSealed, VacuumPick, VacuumUnpin, VacuumEnd
<1> QED
  BY <1>1, <1>7, <1>2, <1>8, <1>9, <1>10, <1>11 DEF vars, Next

\* An entry of a status page is the row of an inserter that has just written it
\* to its slot.
LogGrows ==
    \A e \in status_rows' :
        \/ e \in status_rows
        \/ \E b \in Backend : /\ ipc[b] = "write" /\ ipc'[b] # "write"
                              /\ e = <<memtable_id[islot[b]], irow[b]>>
                              /\ tids'[islot[b]][iidx[b]] = irow[b]

\* Every step keeps to it.
LEMMA LogStep ==
    ASSUME IndInv, [Next]_vars
    PROVE  LogGrows
<1>1. CASE UNCHANGED status_rows
  BY <1>1 DEF LogGrows
<1>2. ASSUME NEW b \in Backend, ReleaseFlushed(b) PROVE LogGrows
  BY <1>2 DEF ReleaseFlushed, ReleaseStatus, Goto, LogGrows
<1>3. ASSUME NEW b \in Backend, WriteRow(b) PROVE LogGrows
  <2>1. ipc[b] = "write" /\ ipc'[b] # "write"
    BY <1>3 DEF WriteRow, Goto, IndInv, TypeOK, InsertTypes
  <2>2. tids'[islot[b]][iidx[b]] = irow[b]
    BY <1>3 DEF WriteRow, IndInv, TypeOK, SlotTypes, Shape
  <2>3. status_rows' = status_rows \cup {<<memtable_id[islot[b]], irow[b]>>}
    BY <1>3 DEF WriteRow
  <2> QED
    BY <2>1, <2>2, <2>3 DEF LogGrows
<1>4. ASSUME NEW b \in Backend, InsertError(b) PROVE LogGrows
  <2>1. CASE ipc[b] = "write"
    <3>1. ipc'[b] # "write"
      BY <1>4 DEF InsertError, Goto, IndInv, TypeOK, InsertTypes
    <3>2. tids'[islot[b]][iidx[b]] = irow[b]
      BY <1>4, <2>1 DEF InsertError, IndInv, TypeOK, SlotTypes, Shape
    <3>3. status_rows' \subseteq
             status_rows \cup {<<memtable_id[islot[b]], irow[b]>>}
      BY <1>4, <2>1 DEF InsertError
    <3> QED
      BY <2>1, <3>1, <3>2, <3>3 DEF LogGrows
  <2>2. CASE ipc[b] # "write"
    <3>1. status_rows' \subseteq status_rows
      BY <1>4, <2>2 DEF InsertError, ReleaseStatus
    <3> QED
      BY <3>1 DEF LogGrows
  <2> QED
    BY <2>1, <2>2
<1>5. CASE VacuumMark
  BY <1>5 DEF VacuumMark, LogGrows
<1>6. ASSUME NEW b \in Backend, Insert(b) PROVE LogGrows
  BY <1>6, <1>1, <1>2, <1>3 DEF Insert, InsertBegin, Goto, TakeFlushed,
     SkipRelease, Reserve, ReserveBelow, ReserveFull, NoGrowing, Publish,
     RotateBegin, RotateIf, RotateWait, RotateAlloc, SetMemtable,
     RotateEnqueue, RotateInstall
<1>7. CASE Flush
  BY <1>7, <1>1 DEF Flush, FlushClaim, FlushWrite, FlushFiles, FlushRegister,
     FlushTrack, FlushUnlink, FlushRelease, FlushUnlock
<1>8. ASSUME NEW x \in Searcher, Search(x) \/ SearchError(x) PROVE LogGrows
  BY <1>8, <1>1 DEF Search, SearchBegin, SearchSnapshot, Snapshot,
     WorkerSearch, SearchGrowing, SearchSlot, SearchSealed, SearchReturn,
     SearchEnd, SearchReset, SearchError
<1>9. ASSUME NEW r \in Row, DeleteRow(r) PROVE LogGrows
  BY <1>9, <1>1 DEF DeleteRow
<1>10. CASE Vacuum
  BY <1>10, <1>1, <1>5 DEF Vacuum, VacuumBegin, VacuumPinGrowing, VacuumPin,
     VacuumPinSealed, VacuumPick, VacuumUnpin, VacuumSegments, VacuumEnd
<1> QED
  BY <1>1, <1>6, <1>4, <1>7, <1>8, <1>9, <1>10 DEF vars, Next

\* An inserter that has a slot after a step had it before, at the same stage or
\* the one before, or has just reserved it.
Reserves(b) ==
    LET g == growing_memtable_idx IN
    /\ g \in Slot
    /\ current_size[g] < Capacity
    /\ current_size'[g] = current_size[g] + 1
    /\ ipc[b] = "loop" /\ ipc'[b] = "write"
    /\ \A c \in Backend \ {b} : ipc'[c] = ipc[c]
    /\ islot'[b] = g
    /\ iidx'[b] = current_size[g]
    /\ UNCHANGED <<memtable_id, ready, tids, disk_sids, disk_rows, status_sids,
                   status_rows>>

WriterMoves(b) ==
    ipc'[b] \in {"write", "publish"} =>
        \/ Reserves(b)
        \/ /\ ipc[b] \in {"write", "publish"}
           /\ ipc[b] = "publish" => ipc'[b] = "publish"
           /\ ipc'[b] = "publish" => 
                 \/ ipc[b] = "publish"
                 \/ /\ tids'[islot[b]][iidx[b]] = irow[b]
                    /\ <<memtable_id[islot[b]], irow[b]>> \in status_rows'
           /\ islot'[b] = islot[b]
           /\ iidx'[b] = iidx[b]
           /\ irow'[b] = irow[b]

\* Every step keeps to it.
LEMMA WriterStep ==
    ASSUME IndInv, [Next]_vars, NEW c \in Backend
    PROVE  WriterMoves(c)
<1>1. CASE UNCHANGED insVars
  BY <1>1 DEF WriterMoves
<1>2. ASSUME NEW b \in Backend, InsertBegin(b) PROVE WriterMoves(c)
  BY <1>2 DEF InsertBegin, Goto, IndInv, TypeOK, InsertTypes, WriterMoves
<1>3. ASSUME NEW b \in Backend, TakeFlushed(b) PROVE WriterMoves(c)
  BY <1>3 DEF TakeFlushed, Goto, IndInv, TypeOK, InsertTypes, WriterMoves
<1>4. ASSUME NEW b \in Backend, SkipRelease(b) PROVE WriterMoves(c)
  BY <1>4 DEF SkipRelease, Goto, IndInv, TypeOK, InsertTypes, WriterMoves
<1>5. ASSUME NEW b \in Backend, ReleaseFlushed(b) PROVE WriterMoves(c)
  BY <1>5 DEF ReleaseFlushed, ReleaseStatus, Goto, IndInv, TypeOK, InsertTypes,
     WriterMoves
<1>6. ASSUME NEW b \in Backend, Reserve(b) PROVE WriterMoves(c)
  BY <1>6 DEF Reserve, ReserveBelow, Goto, IndInv, TypeOK, InsertTypes,
     WriterMoves, Reserves, SlotTypes
<1>7. ASSUME NEW b \in Backend, ReserveFull(b) PROVE WriterMoves(c)
  BY <1>7 DEF ReserveFull, Goto, IndInv, TypeOK, InsertTypes, WriterMoves
<1>8. ASSUME NEW b \in Backend, NoGrowing(b) PROVE WriterMoves(c)
  BY <1>8 DEF NoGrowing, Goto, IndInv, TypeOK, InsertTypes, WriterMoves
<1>9. ASSUME NEW b \in Backend, WriteRow(b) PROVE WriterMoves(c)
  BY <1>9 DEF WriteRow, Goto, IndInv, TypeOK, InsertTypes, WriterMoves, Shape,
     SlotTypes
<1>10. ASSUME NEW b \in Backend, Publish(b) PROVE WriterMoves(c)
  BY <1>10 DEF Publish, Goto, IndInv, TypeOK, InsertTypes, WriterMoves
<1>11. ASSUME NEW b \in Backend, RotateBegin(b) PROVE WriterMoves(c)
  BY <1>11 DEF RotateBegin, RotateIf, Goto, IndInv, TypeOK, InsertTypes,
     WriterMoves
<1>12. ASSUME NEW b \in Backend, RotateWait(b) PROVE WriterMoves(c)
  BY <1>12 DEF RotateWait, Goto, IndInv, TypeOK, InsertTypes, WriterMoves
<1>13. ASSUME NEW b \in Backend, RotateAlloc(b) PROVE WriterMoves(c)
  BY <1>13 DEF RotateAlloc, SetMemtable, Goto, IndInv, TypeOK, InsertTypes,
     WriterMoves
<1>14. ASSUME NEW b \in Backend, RotateEnqueue(b) PROVE WriterMoves(c)
  BY <1>14 DEF RotateEnqueue, Goto, IndInv, TypeOK, InsertTypes, WriterMoves
<1>15. ASSUME NEW b \in Backend, RotateInstall(b) PROVE WriterMoves(c)
  BY <1>15 DEF RotateInstall, Goto, IndInv, TypeOK, InsertTypes, WriterMoves
<1>16. ASSUME NEW b \in Backend, InsertError(b) PROVE WriterMoves(c)
  BY <1>16 DEF InsertError, SetMemtable, ReleaseStatus, Goto, IndInv, TypeOK,
     InsertTypes, WriterMoves
<1>17. ASSUME NEW b \in Backend, Insert(b) PROVE WriterMoves(c)
  BY <1>17, <1>1, <1>2, <1>3, <1>4, <1>5, <1>6, <1>7, <1>8, <1>9, <1>10,
     <1>11, <1>12, <1>13, <1>14, <1>15 DEF Insert
<1>18. CASE Flush
  BY <1>18, <1>1 DEF Flush, FlushClaim, FlushWrite, FlushFiles, FlushRegister,
     FlushTrack, FlushUnlink, FlushRelease, FlushUnlock
<1>19. ASSUME NEW x \in Searcher, Search(x) \/ SearchError(x) PROVE WriterMoves(c)
  BY <1>19, <1>1 DEF Search, SearchBegin, SearchSnapshot, Snapshot,
     WorkerSearch, SearchGrowing, SearchSlot, SearchSealed, SearchReturn,
     SearchEnd, SearchReset, SearchError
<1>20. ASSUME NEW r \in Row, DeleteRow(r) PROVE WriterMoves(c)
  BY <1>20, <1>1 DEF DeleteRow
<1>21. CASE Vacuum
  BY <1>21, <1>1 DEF Vacuum, VacuumBegin, VacuumPinGrowing, VacuumPin,
     VacuumPinSealed, VacuumPick, VacuumMark, VacuumUnpin, VacuumSegments,
     VacuumEnd
<1> QED
  BY <1>1, <1>17, <1>16, <1>18, <1>19, <1>20, <1>21 DEF vars, Next

\* A slot is reset, or keeps its id and what has been handed out and published
\* in it; only a publisher adds to what is published.
SlotMoves(s) ==
    \/ SetMemtable(s)
    \/ /\ memtable_id'[s] = memtable_id[s]
       /\ current_size'[s] >= current_size[s]
       /\ Valid(s) \subseteq Valid(s)'
       /\ ready[s] \subseteq ready'[s]
       /\ \A i \in ready'[s] :
             i \in ready[s] \/ \E b \in Backend : /\ Publish(b)
                                                  /\ islot[b] = s
                                                  /\ iidx[b] = i

\* current_size only grows, and with it the slots handed out.
LEMMA ValidGrows ==
    ASSUME SlotTypes, NEW s \in Slot, current_size'[s] \in Nat,
           current_size'[s] >= current_size[s]
    PROVE  Valid(s) \subseteq Valid(s)'
  BY SizeAssumption DEF Valid, MinOf, SlotTypes

\* register_and_set_memtable touches one slot.
LEMMA SetMoves ==
    ASSUME IndInv, NEW t \in Slot, SetMemtable(t), NEW s \in Slot
    PROVE  SlotMoves(s)
<1>1. CASE s = t
  BY <1>1 DEF SlotMoves
<1>2. CASE s # t
  <2>1. /\ memtable_id'[s] = memtable_id[s]
        /\ current_size'[s] = current_size[s]
        /\ ready'[s] = ready[s]
    BY <1>2 DEF SetMemtable, IndInv, TypeOK, SlotTypes
  <2> QED
    BY <2>1 DEF SlotMoves, Valid, IndInv, TypeOK, SlotTypes
<1> QED
  BY <1>1, <1>2

\* Every step keeps to it.
LEMMA SlotStep ==
    ASSUME IndInv, [Next]_vars, NEW s \in Slot
    PROVE  SlotMoves(s)
<1>1. CASE UNCHANGED <<memtable_id, current_size, ready>>
  BY <1>1 DEF IndInv, TypeOK, SlotTypes, SlotMoves, Valid
<1>2. ASSUME NEW b \in Backend, Reserve(b) PROVE SlotMoves(s)
  BY <1>2, ValidGrows DEF Reserve, ReserveBelow, Goto, IndInv, TypeOK,
     SlotTypes, SlotMoves
<1>3. ASSUME NEW b \in Backend, ReserveFull(b) PROVE SlotMoves(s)
  BY <1>3, ValidGrows, SMTT(40) DEF ReserveFull, Goto, IndInv, TypeOK, SlotTypes,
     SlotMoves
<1>4. ASSUME NEW b \in Backend, Publish(b) PROVE SlotMoves(s)
  <2>1. UNCHANGED <<memtable_id, current_size>> /\ Valid(s)' = Valid(s)
    BY <1>4 DEF Publish, Valid
  <2>2. ready'[s] = IF s = islot[b] THEN ready[s] \cup {iidx[b]} ELSE ready[s]
    BY <1>4 DEF Publish, IndInv, TypeOK, SlotTypes
  <2> QED
    BY <1>4, <2>1, <2>2 DEF IndInv, TypeOK, SlotTypes, SlotMoves
<1>5. ASSUME NEW b \in Backend, RotateAlloc(b) PROVE SlotMoves(s)
  BY <1>5, SetMoves DEF RotateAlloc
<1>6. ASSUME NEW b \in Backend, InsertError(b) PROVE SlotMoves(s)
  <2>1. CASE \E t \in Slot : SetMemtable(t)
    BY <2>1, SetMoves
  <2>2. CASE UNCHANGED <<memtable_id, current_size, ready>>
    BY <2>2 DEF IndInv, TypeOK, SlotTypes, SlotMoves, Valid
  <2> QED
    BY <1>6, <2>1, <2>2 DEF InsertError
<1>7. ASSUME NEW b \in Backend, Insert(b) PROVE SlotMoves(s)
  BY <1>7, <1>1, <1>2, <1>3, <1>4, <1>5 DEF Insert, InsertBegin, Goto,
     TakeFlushed, SkipRelease, ReleaseFlushed, ReleaseStatus, NoGrowing,
     WriteRow, RotateBegin, RotateIf, RotateWait, RotateEnqueue, RotateInstall
<1>8. CASE Flush
  BY <1>8, <1>1 DEF Flush, FlushClaim, FlushWrite, FlushFiles, FlushRegister,
     FlushTrack, FlushUnlink, FlushRelease, FlushUnlock
<1>9. ASSUME NEW x \in Searcher, Search(x) \/ SearchError(x) PROVE SlotMoves(s)
  BY <1>9, <1>1 DEF Search, SearchBegin, SearchSnapshot, Snapshot,
     WorkerSearch, SearchGrowing, SearchSlot, SearchSealed, SearchReturn,
     SearchEnd, SearchReset, SearchError
<1>10. ASSUME NEW r \in Row, DeleteRow(r) PROVE SlotMoves(s)
  BY <1>10, <1>1 DEF DeleteRow
<1>11. CASE Vacuum
  BY <1>11, <1>1 DEF Vacuum, VacuumBegin, VacuumPinGrowing, VacuumPin,
     VacuumPinSealed, VacuumPick, VacuumMark, VacuumUnpin, VacuumSegments,
     VacuumEnd
<1> QED
  BY <1>1, <1>7, <1>6, <1>8, <1>9, <1>10, <1>11 DEF vars, Next

\* tids changes only where an inserter writes its row.
TidsMove(s, i) ==
    \/ tids'[s][i] = tids[s][i]
    \/ \E b \in Backend : /\ ipc[b] = "write" /\ islot[b] = s /\ iidx[b] = i

\* Every step keeps to it.
LEMMA TidsStep ==
    ASSUME IndInv, [Next]_vars, NEW s \in Slot, NEW i \in Index
    PROVE  TidsMove(s, i)
<1>1. CASE UNCHANGED tids
  BY <1>1 DEF TidsMove
<1>2. ASSUME NEW b \in Backend, WriteRow(b) PROVE TidsMove(s, i)
  BY <1>2 DEF WriteRow, Goto, IndInv, TypeOK, SlotTypes, Shape, TidsMove
<1>3. ASSUME NEW b \in Backend, RotateAlloc(b) PROVE TidsMove(s, i)
  BY <1>3 DEF RotateAlloc, SetMemtable, Goto, TidsMove
<1>4. ASSUME NEW b \in Backend, InsertError(b) PROVE TidsMove(s, i)
  <2>1. CASE ipc[b] = "write"
    BY <1>4, <2>1 DEF InsertError, IndInv, TypeOK, SlotTypes, Shape, TidsMove
  <2>2. CASE ipc[b] # "write"
    BY <1>4, <2>2 DEF InsertError, SetMemtable, TidsMove
  <2> QED
    BY <2>1, <2>2
<1>5. ASSUME NEW b \in Backend, Insert(b) PROVE TidsMove(s, i)
  BY <1>5, <1>1, <1>2, <1>3 DEF Insert, InsertBegin, Goto, TakeFlushed,
     SkipRelease, ReleaseFlushed, ReleaseStatus, Reserve, ReserveBelow,
     ReserveFull, NoGrowing, Publish, RotateBegin, RotateIf, RotateWait,
     RotateEnqueue, RotateInstall
<1>6. CASE Flush
  BY <1>6, <1>1 DEF Flush, FlushClaim, FlushWrite, FlushFiles, FlushRegister,
     FlushTrack, FlushUnlink, FlushRelease, FlushUnlock
<1>7. ASSUME NEW x \in Searcher, Search(x) \/ SearchError(x) PROVE TidsMove(s, i)
  BY <1>7, <1>1 DEF Search, SearchBegin, SearchSnapshot, Snapshot,
     WorkerSearch, SearchGrowing, SearchSlot, SearchSealed, SearchReturn,
     SearchEnd, SearchReset, SearchError
<1>8. ASSUME NEW r \in Row, DeleteRow(r) PROVE TidsMove(s, i)
  BY <1>8, <1>1 DEF DeleteRow
<1>9. CASE Vacuum
  BY <1>9, <1>1 DEF Vacuum, VacuumBegin, VacuumPinGrowing, VacuumPin,
     VacuumPinSealed, VacuumPick, VacuumMark, VacuumUnpin, VacuumSegments,
     VacuumEnd
<1> QED
  BY <1>1, <1>5, <1>4, <1>6, <1>7, <1>8, <1>9 DEF vars, Next

\* A row becomes live when its inserter publishes it.
HeapMove(r) ==
    heap'[r] = "live" => \/ heap[r] = "live"
                         \/ \E b \in Backend : Publish(b) /\ irow[b] = r

\* Every step keeps to it.
LEMMA HeapStep ==
    ASSUME IndInv, [Next]_vars, NEW r \in Row
    PROVE  HeapMove(r)
<1>1. CASE UNCHANGED heap
  BY <1>1 DEF HeapMove
<1>2. ASSUME NEW b \in Backend, InsertBegin(b) PROVE HeapMove(r)
  BY <1>2 DEF InsertBegin, Goto, IndInv, TypeOK, StoreTypes, HeapMove
<1>3. ASSUME NEW b \in Backend, Publish(b) PROVE HeapMove(r)
  <2>1. heap'[r] = heap[r] \/ irow[b] = r
    BY <1>3 DEF Publish, IndInv, TypeOK, StoreTypes
  <2> QED
    BY <1>3, <2>1 DEF HeapMove
<1>4. ASSUME NEW b \in Backend, InsertError(b) PROVE HeapMove(r)
  <2>1. heap'[r] \in {heap[r], "dead"}
    BY <1>4 DEF InsertError, IndInv, TypeOK, StoreTypes
  <2> QED
    BY <2>1 DEF HeapMove
<1>5. ASSUME NEW q \in Row, DeleteRow(q) PROVE HeapMove(r)
  BY <1>5 DEF DeleteRow, IndInv, TypeOK, StoreTypes, HeapMove
<1>6. CASE VacuumEnd
  BY <1>6 DEF VacuumEnd, IndInv, TypeOK, StoreTypes, HeapMove
<1>7. ASSUME NEW b \in Backend, Insert(b) PROVE HeapMove(r)
  BY <1>7, <1>1, <1>2, <1>3 DEF Insert, TakeFlushed, Goto, SkipRelease,
     ReleaseFlushed, ReleaseStatus, Reserve, ReserveBelow, ReserveFull,
     NoGrowing, WriteRow, RotateBegin, RotateIf, RotateWait, RotateAlloc,
     SetMemtable, RotateEnqueue, RotateInstall
<1>8. CASE Flush
  BY <1>8, <1>1 DEF Flush, FlushClaim, FlushWrite, FlushFiles, FlushRegister,
     FlushTrack, FlushUnlink, FlushRelease, FlushUnlock
<1>9. ASSUME NEW x \in Searcher, Search(x) \/ SearchError(x) PROVE HeapMove(r)
  BY <1>9, <1>1 DEF Search, SearchBegin, SearchSnapshot, Snapshot,
     WorkerSearch, SearchGrowing, SearchSlot, SearchSealed, SearchReturn,
     SearchEnd, SearchReset, SearchError
<1>10. CASE Vacuum
  BY <1>10, <1>1, <1>6 DEF Vacuum, VacuumBegin, VacuumPinGrowing, VacuumPin,
     VacuumPinSealed, VacuumPick, VacuumMark, VacuumUnpin, VacuumSegments
<1> QED
  BY <1>1, <1>7, <1>4, <1>8, <1>9, <1>5, <1>10 DEF vars, Next

-----------------------------------------------------------------------------
(* WriterInv.                                                              *)

\* An id given out is new, and goes to a slot nobody used.
LEMMA SetFresh ==
    ASSUME IndInv, FreshIds, NEW t \in Slot, SetMemtable(t)
    PROVE  /\ ~Owned(t) /\ ~FlushHolds(t)
           /\ next_segment_id \in Nat /\ next_segment_id > 0
           /\ next_segment_id' = next_segment_id + 1
           /\ memtable_id'[t] = next_segment_id
           /\ \A s \in Slot \ {t} : memtable_id'[s] = memtable_id[s]
<1>1. ~Owned(t)
  BY FreeSlot DEF IndInv, SetMemtable
<1>2. ~FlushHolds(t)
  BY <1>1, FlusherOwns DEF FlushHolds
<1>3. /\ next_segment_id \in Nat /\ next_segment_id > 0
      /\ next_segment_id' = next_segment_id + 1
      /\ memtable_id'[t] = next_segment_id
      /\ \A s \in Slot \ {t} : memtable_id'[s] = memtable_id[s]
  BY DEF SetMemtable, IndInv, TypeOK, SlotTypes, IndexTypes, FreshIds
<1> QED
  BY <1>1, <1>2, <1>3

\* The slots and the stores never see an id twice.
LEMMA FreshIdsStep ==
    ASSUME IndInv, FreshIds, [Next]_vars
    PROVE  FreshIds'
<1>0. /\ next_segment_id \in Nat
      /\ \A s \in Slot : memtable_id[s] \in Nat
  BY DEF IndInv, TypeOK, SlotTypes, IndexTypes
<1>1. \A b \in Backend : ipc[b] = "write" => memtable_id[islot[b]] < next_segment_id
  BY DEF IndInv, Shape, FreshIds
<1>2. CASE UNCHANGED <<memtable_id, next_segment_id>>
  <2>1. \A s \in Slot : Owned(s)' => Owned(s)
    <3> SUFFICES ASSUME NEW s \in Slot, Owned(s)' PROVE Owned(s)
      OBVIOUS
    <3>1. Owned(s) \/ SetMemtable(s)
      BY OwnershipStep DEF OwnStep
    <3>2. ~SetMemtable(s)
      BY <1>0, <1>2 DEF SetMemtable
    <3> QED
      BY <3>1, <3>2
  <2>2. \A m \in disk_sids' \cup pool_sids' : m \in 1 .. next_segment_id - 1
    <3>1. fpc \in {"wait", "written"} => memtable_id[fslot] \in 1 .. next_segment_id - 1
      BY <1>0, FlusherOwns DEF FreshIds
    <3> QED
      BY <3>1, StoreStep DEF StoreGrows, FreshIds
  <2>3. \A e \in status_rows' : e[1] < next_segment_id
    BY <1>1, LogStep DEF LogGrows, FreshIds
  <2> QED
    BY <1>2, <2>1, <2>2, <2>3 DEF FreshIds
<1>3. ASSUME NEW t \in Slot, SetMemtable(t),
             UNCHANGED <<disk_sids, pool_sids, status_rows>>
      PROVE  FreshIds'
  <2>1. /\ next_segment_id' = next_segment_id + 1
        /\ memtable_id'[t] = next_segment_id
        /\ next_segment_id > 0
        /\ \A s \in Slot \ {t} : memtable_id'[s] = memtable_id[s]
    BY <1>3, SetFresh
  <2>2. \A s \in Slot \ {t} : Owned(s)' => Owned(s)
    <3> SUFFICES ASSUME NEW s \in Slot \ {t}, Owned(s)' PROVE Owned(s)
      OBVIOUS
    <3>1. Owned(s) \/ SetMemtable(s)
      BY OwnershipStep DEF OwnStep
    <3>2. ~SetMemtable(s)
      BY <1>0, <2>1 DEF SetMemtable, IndInv, TypeOK, SlotTypes, FreshIds
    <3> QED
      BY <3>1, <3>2
  <2>3. \A s \in Slot : memtable_id'[s] < next_segment_id'
    BY <1>0, <2>1 DEF FreshIds
  <2>4. \A s \in Slot : Owned(s)' => memtable_id'[s] > 0
    BY <1>0, <2>1, <2>2 DEF FreshIds
  <2>5. \A s, u \in Slot :
           memtable_id'[s] = memtable_id'[u] /\ memtable_id'[s] > 0 => s = u
    BY <1>0, <2>1 DEF FreshIds
  <2>6. \A m \in disk_sids' \cup pool_sids' : m \in 1 .. next_segment_id' - 1
    BY <1>0, <1>3, <2>1 DEF FreshIds
  <2>7. \A e \in status_rows' : e[1] < next_segment_id'
    <3>1. \A e \in status_rows : e[1] \in Nat
      BY DEF IndInv, TypeOK, StoreTypes
    <3> QED
      BY <1>0, <1>3, <2>1, <3>1 DEF FreshIds
  <2> QED
    BY <1>0, <2>1, <2>3, <2>4, <2>5, <2>6, <2>7 DEF FreshIds
<1> QED
  BY <1>2, <1>3, IdsStep DEF IdsMove

\* A published slot was handed out: by its writer, who still had it.
LEMMA ReadyValidStep ==
    ASSUME IndInv, WriterInv, [Next]_vars
    PROVE  ReadyValid'
<1> SUFFICES ASSUME NEW s \in Slot PROVE ready'[s] \subseteq Valid(s)'
  BY DEF ReadyValid
<1>1. CASE SetMemtable(s)
  BY <1>1 DEF SetMemtable, IndInv, TypeOK, SlotTypes
<1>2. CASE ~SetMemtable(s)
  <2>1. ready[s] \subseteq Valid(s) /\ Valid(s) \subseteq Valid(s)'
    BY <1>2, SlotStep DEF SlotMoves, WriterInv, ReadyValid
  <2>2. \A b \in Backend : Publish(b) /\ islot[b] = s => iidx[b] \in Valid(s)
    BY DEF Publish, WriterInv, WriterSafe
  <2> QED
    BY <1>2, <2>1, <2>2, SlotStep DEF SlotMoves
<1> QED
  BY <1>1, <1>2

\* Only the flusher moves its program counter and adds to the disk.
FlushMoves == UNCHANGED <<disk_sids, fpc, fslot>> \/ Flush

\* Every step keeps to it.
LEMMA FlushOnly ==
    ASSUME IndInv, [Next]_vars
    PROVE  FlushMoves
<1>1. CASE UNCHANGED <<disk_sids, fpc, fslot>>
  BY <1>1 DEF FlushMoves
<1>2. ASSUME NEW b \in Backend, InsertError(b) PROVE FlushMoves
  BY <1>2 DEF InsertError, FlushMoves
<1>3. CASE VacuumMark
  BY <1>3 DEF VacuumMark, FlushMoves
<1>4. CASE VacuumSegments
  BY <1>4 DEF VacuumSegments, FlushMoves
<1>5. CASE FlushClaim
  BY <1>5 DEF FlushMoves, Flush
<1>6. CASE FlushWrite
  BY <1>6 DEF FlushMoves, Flush
<1>7. CASE FlushRegister
  BY <1>7 DEF FlushMoves, Flush
<1>8. CASE FlushTrack
  BY <1>8 DEF FlushMoves, Flush
<1>9. CASE FlushUnlink
  BY <1>9 DEF FlushMoves, Flush
<1>10. CASE FlushRelease
  BY <1>10 DEF FlushMoves, Flush
<1>11. CASE FlushUnlock
  BY <1>11 DEF FlushMoves, Flush
<1>12. ASSUME NEW b \in Backend, Insert(b) PROVE FlushMoves
  BY <1>12, <1>1 DEF Insert, InsertBegin, Goto, TakeFlushed, SkipRelease,
     ReleaseFlushed, ReleaseStatus, Reserve, ReserveBelow, ReserveFull,
     NoGrowing, WriteRow, Publish, RotateBegin, RotateIf, RotateWait,
     RotateAlloc, SetMemtable, RotateEnqueue, RotateInstall
<1>13. CASE Flush
  BY <1>13, <1>1, <1>5, <1>6, <1>7, <1>8, <1>9, <1>10, <1>11 DEF Flush
<1>14. ASSUME NEW x \in Searcher, Search(x) \/ SearchError(x) PROVE FlushMoves
  BY <1>14, <1>1 DEF Search, SearchBegin, SearchSnapshot, Snapshot,
     WorkerSearch, SearchGrowing, SearchSlot, SearchSealed, SearchReturn,
     SearchEnd, SearchReset, SearchError
<1>15. ASSUME NEW r \in Row, DeleteRow(r) PROVE FlushMoves
  BY <1>15, <1>1 DEF DeleteRow
<1>16. CASE Vacuum
  BY <1>16, <1>1, <1>3, <1>4 DEF Vacuum, VacuumBegin, VacuumPinGrowing,
     VacuumPin, VacuumPinSealed, VacuumPick, VacuumUnpin, VacuumEnd
<1> QED
  BY <1>1, <1>12, <1>2, <1>13, <1>14, <1>15, <1>16 DEF vars, Next

\* The flusher keeps hold of a memtable from the moment its segment is on disk
\* until it gives the slot back.
LEMMA OnDiskStep ==
    ASSUME IndInv, FreshIds, OnDisk, [Next]_vars
    PROVE  OnDisk'
<1>1. CASE /\ \E t \in Slot : SetMemtable(t)
           /\ UNCHANGED <<disk_sids, fpc, fslot>>
  <2>1. PICK t \in Slot : SetMemtable(t)
    BY <1>1
  <2>2. /\ memtable_id'[t] \notin disk_sids'
        /\ ~FlushHolds(t)
        /\ \A s \in Slot \ {t} : memtable_id'[s] = memtable_id[s]
    BY <1>1, <2>1, SetFresh DEF FreshIds
  <2>3. \A s \in Slot \ {t} : Owned(s)' => Owned(s)
    <3> SUFFICES ASSUME NEW s \in Slot \ {t}, Owned(s)' PROVE Owned(s)
      OBVIOUS
    <3>1. Owned(s) \/ SetMemtable(s)
      BY OwnershipStep DEF OwnStep
    <3>2. ~SetMemtable(s)
      BY <2>2 DEF SetMemtable, IndInv, TypeOK, SlotTypes, IndexTypes, FreshIds
    <3> QED
      BY <3>1, <3>2
  <2> QED
    BY <1>1, <2>2, <2>3 DEF OnDisk, FlushHolds
<1>2. CASE UNCHANGED <<memtable_id, next_segment_id>>
  <2>1. \A s \in Slot : Owned(s)' => Owned(s)
    <3> SUFFICES ASSUME NEW s \in Slot, Owned(s)' PROVE Owned(s)
      OBVIOUS
    <3>1. Owned(s) \/ SetMemtable(s)
      BY OwnershipStep DEF OwnStep
    <3>2. ~SetMemtable(s)
      BY <1>2 DEF SetMemtable, IndInv, TypeOK, IndexTypes
    <3> QED
      BY <3>1, <3>2
  <2>2. CASE UNCHANGED <<disk_sids, fpc, fslot>>
    BY <1>2, <2>1, <2>2 DEF OnDisk, FlushHolds
  <2>3. CASE FlushClaim
    BY <1>2, <2>1, <2>3 DEF FlushClaim, OnDisk, FlushHolds
  <2>4. CASE FlushWrite
    <3>1. fslot \in Slot /\ Owned(fslot) /\ memtable_id[fslot] > 0
      BY <2>4, FlusherOwns DEF FlushWrite, FreshIds
    <3>2. \A s \in Slot : memtable_id[s] = memtable_id[fslot] => s = fslot
      BY <3>1 DEF FreshIds
    <3>3. /\ disk_sids' = disk_sids \cup {memtable_id[fslot]}
          /\ fslot' = fslot /\ fpc = "wait" /\ fpc' = "written"
      BY <2>4 DEF FlushWrite, FlushFiles
    <3> QED
      BY <1>2, <2>1, <3>1, <3>2, <3>3 DEF OnDisk, FlushHolds
  <2>5. CASE FlushRegister \/ FlushTrack \/ FlushUnlink
    BY <1>2, <2>1, <2>5 DEF FlushRegister, FlushTrack, FlushUnlink, OnDisk, FlushHolds
  <2>6. CASE FlushRelease
    <3>1. ~Owned(fslot)'
      BY <2>6 DEF FlushRelease, IndInv, Shape, Roles, Unlinked, Owned, Current,
         InQueue, Going, Coming
    <3>2. UNCHANGED <<disk_sids, fslot>> /\ fpc' = "released"
      BY <2>6 DEF FlushRelease
    <3> QED
      BY <1>2, <2>1, <3>1, <3>2 DEF OnDisk, FlushHolds
  <2>7. CASE FlushUnlock
    BY <1>2, <2>1, <2>7 DEF FlushUnlock, OnDisk, FlushHolds
  <2> QED
    BY <2>2, <2>3, <2>4, <2>5, <2>6, <2>7, FlushOnly DEF FlushMoves, Flush
<1> QED
  BY <1>1, <1>2, IdsStep DEF IdsMove

\* Sids leave the status pages only when their segment is on disk.
LEMMA StatusKept ==
    ASSUME IndInv, Registered, [Next]_vars
    PROVE  \A m \in status_sids : m \in status_sids' \/ m \in disk_sids
<1>1. CASE status_sids \subseteq status_sids'
  BY <1>1
<1>2. ASSUME NEW n \in 0 .. Len(taken), ReleaseStatus(n)
      PROVE  \A m \in status_sids : m \in status_sids' \/ m \in disk_sids
  <2>1. \A k \in 1 .. n : taken[k] \in disk_sids
    BY <1>2 DEF Registered, Released, IndInv, TypeOK, IndexTypes
  <2> QED
    BY <1>2, <2>1 DEF ReleaseStatus
<1>3. ASSUME NEW b \in Backend, ReleaseFlushed(b)
      PROVE  \A m \in status_sids : m \in status_sids' \/ m \in disk_sids
  <2>1. Len(taken) \in 0 .. Len(taken)
    BY DEF IndInv, TypeOK, IndexTypes
  <2> QED
    BY <1>2, <1>3, <2>1 DEF ReleaseFlushed
<1>4. ASSUME NEW b \in Backend, InsertError(b)
      PROVE  \A m \in status_sids : m \in status_sids' \/ m \in disk_sids
  <2>1. CASE \E n \in 0 .. Len(taken) - 1 : ReleaseStatus(n)
    <3>1. 0 .. Len(taken) - 1 \subseteq 0 .. Len(taken)
      BY DEF IndInv, TypeOK, IndexTypes
    <3> QED
      BY <1>2, <2>1, <3>1
  <2>2. CASE UNCHANGED status_sids
    BY <2>2
  <2> QED
    BY <1>4, <2>1, <2>2 DEF InsertError
<1>5. ASSUME NEW b \in Backend, Insert(b) PROVE \A m \in status_sids : m \in status_sids' \/ m \in disk_sids
  BY <1>5, <1>1, <1>3 DEF Insert, InsertBegin, Goto, TakeFlushed, SkipRelease,
     Reserve, ReserveBelow, ReserveFull, NoGrowing, WriteRow, Publish,
     RotateBegin, RotateIf, RotateWait, RotateAlloc, SetMemtable,
     RotateEnqueue, RotateInstall
<1>6. CASE Flush
  BY <1>6, <1>1 DEF Flush, FlushClaim, FlushWrite, FlushFiles, FlushRegister,
     FlushTrack, FlushUnlink, FlushRelease, FlushUnlock
<1>7. ASSUME NEW x \in Searcher, Search(x) \/ SearchError(x) PROVE \A m \in status_sids : m \in status_sids' \/ m \in disk_sids
  BY <1>7, <1>1 DEF Search, SearchBegin, SearchSnapshot, Snapshot,
     WorkerSearch, SearchGrowing, SearchSlot, SearchSealed, SearchReturn,
     SearchEnd, SearchReset, SearchError
<1>8. ASSUME NEW r \in Row, DeleteRow(r) PROVE \A m \in status_sids : m \in status_sids' \/ m \in disk_sids
  BY <1>8, <1>1 DEF DeleteRow
<1>9. CASE Vacuum
  BY <1>9, <1>1 DEF Vacuum, VacuumBegin, VacuumPinGrowing, VacuumPin,
     VacuumPinSealed, VacuumPick, VacuumMark, VacuumUnpin, VacuumSegments,
     VacuumEnd
<1> QED
  BY <1>1, <1>5, <1>4, <1>6, <1>7, <1>8, <1>9 DEF vars, Next

\* What is to be released is on disk: the flusher lists a memtable after it has
\* written its segment.
ReleasedGrows ==
    \A m \in Released' : m \in Released \/ (FlushHolds(fslot) /\ m = memtable_id[fslot])

\* Every step keeps to it.
LEMMA ReleasedStep ==
    ASSUME IndInv, [Next]_vars
    PROVE  ReleasedGrows
<1>1. CASE UNCHANGED <<flushed_not_released, taken>>
  BY <1>1 DEF ReleasedGrows, Released
<1>2. ASSUME NEW b \in Backend, TakeFlushed(b) PROVE ReleasedGrows
  BY <1>2 DEF TakeFlushed, Goto, ReleasedGrows, Released
<1>3. ASSUME NEW b \in Backend, ReleaseFlushed(b) PROVE ReleasedGrows
  BY <1>3 DEF ReleaseFlushed, ReleaseStatus, Goto, ReleasedGrows, Released
<1>4. ASSUME NEW b \in Backend, InsertError(b) PROVE ReleasedGrows
  <2>1. UNCHANGED flushed_not_released
    BY <1>4 DEF InsertError
  <2>2. taken' = <<>> \/ taken' = taken
    BY <1>4 DEF InsertError
  <2>3. Released' \subseteq Released
    BY <2>1, <2>2 DEF Released
  <2> QED
    BY <2>3 DEF ReleasedGrows
<1>5. CASE FlushTrack
  <2>1. UNCHANGED taken
    BY <1>5 DEF FlushTrack
  <2>2. FlushHolds(fslot)
    BY <1>5 DEF FlushTrack, FlushHolds
  <2>3. CASE UNCHANGED flushed_not_released
    BY <2>1, <2>3 DEF ReleasedGrows, Released
  <2>4. CASE flushed_not_released' = Append(flushed_not_released, memtable_id[fslot])
    <3>1. flushed_not_released \in Seq(Nat) /\ memtable_id[fslot] \in Nat
      BY <1>5 DEF FlushTrack, IndInv, TypeOK, IndexTypes, SlotTypes, Shape
    <3>2. \A k \in DOMAIN flushed_not_released' :
             \/ k \in DOMAIN flushed_not_released /\
                flushed_not_released'[k] = flushed_not_released[k]
             \/ flushed_not_released'[k] = memtable_id[fslot]
      BY <2>4, <3>1
    <3>3. ASSUME NEW m \in Released' PROVE m \in Released \/ m = memtable_id[fslot]
      BY <2>1, <3>2, <3>3 DEF Released
    <3> QED
      BY <2>2, <3>3 DEF ReleasedGrows
  <2> QED
    BY <1>5, <2>3, <2>4 DEF FlushTrack
<1>6. ASSUME NEW b \in Backend, Insert(b) PROVE ReleasedGrows
  BY <1>6, <1>1, <1>2, <1>3 DEF Insert, InsertBegin, Goto, SkipRelease,
     Reserve, ReserveBelow, ReserveFull, NoGrowing, WriteRow, Publish,
     RotateBegin, RotateIf, RotateWait, RotateAlloc, SetMemtable,
     RotateEnqueue, RotateInstall
<1>7. CASE Flush
  BY <1>7, <1>1, <1>5 DEF Flush, FlushClaim, FlushWrite, FlushFiles,
     FlushRegister, FlushUnlink, FlushRelease, FlushUnlock
<1>8. ASSUME NEW x \in Searcher, Search(x) \/ SearchError(x) PROVE ReleasedGrows
  BY <1>8, <1>1 DEF Search, SearchBegin, SearchSnapshot, Snapshot,
     WorkerSearch, SearchGrowing, SearchSlot, SearchSealed, SearchReturn,
     SearchEnd, SearchReset, SearchError
<1>9. ASSUME NEW r \in Row, DeleteRow(r) PROVE ReleasedGrows
  BY <1>9, <1>1 DEF DeleteRow
<1>10. CASE Vacuum
  BY <1>10, <1>1 DEF Vacuum, VacuumBegin, VacuumPinGrowing, VacuumPin,
     VacuumPinSealed, VacuumPick, VacuumMark, VacuumUnpin, VacuumSegments,
     VacuumEnd
<1> QED
  BY <1>1, <1>6, <1>4, <1>7, <1>8, <1>9, <1>10 DEF vars, Next

\* A current memtable is registered until its segment is on disk.
LEMMA RegisteredStep ==
    ASSUME IndInv, WriterInv, [Next]_vars
    PROVE  Registered'
<1>1. disk_sids \subseteq disk_sids'
  BY StoreStep DEF StoreGrows
<1>2. Released' \subseteq disk_sids'
  <2>1. FlushHolds(fslot) => memtable_id[fslot] \in disk_sids
    BY FlusherOwns DEF WriterInv, OnDisk, FlushHolds
  <2> QED
    BY <1>1, <2>1, ReleasedStep DEF ReleasedGrows, WriterInv, Registered
<1>3. ASSUME NEW s \in Slot, Current(s)'
      PROVE  memtable_id'[s] \in status_sids' \cup disk_sids'
  <2>1. CASE SetMemtable(s) /\ next_segment_id \in status_sids'
    BY <2>1, SetFresh DEF WriterInv
  <2>2. CASE Current(s)
    <3>1. ~SetMemtable(s)
      BY <2>2, FreeSlot DEF SetMemtable, IndInv, Owned
    <3>2. memtable_id'[s] = memtable_id[s]
      BY <3>1, SlotStep DEF SlotMoves
    <3> QED
      BY <1>1, <2>2, <3>2, StatusKept DEF WriterInv, Registered
  <2> QED
    BY <1>3, <2>1, <2>2, OwnershipStep DEF OwnStep
<1> QED
  BY <1>2, <1>3 DEF Registered

\* The memtable of an inserter keeps its id and its place on the status pages,
\* and is not flushed: wait_for_publish waits for this very inserter.
LEMMA WriterKept ==
    ASSUME IndInv, WriterInv, [Next]_vars, NEW b \in Backend,
           ipc[b] \in {"write", "publish"}, NEW s \in Slot, islot[b] = s
    PROVE  /\ ~SetMemtable(s)
           /\ memtable_id'[s] = memtable_id[s]
           /\ memtable_id[s] \in status_sids' \ disk_sids'
           /\ Owned(s)'
           /\ iidx[b] \in Valid(s)' /\ iidx[b] \in 0 .. current_size[s] - 1
<1>1. /\ Owned(s)
      /\ iidx[b] \in Valid(s) \ ready[s]
      /\ memtable_id[s] \in status_sids /\ memtable_id[s] \notin disk_sids
  BY DEF IndInv, Shape, WriterInv, WriterOwned, WriterSafe
<1>2. ~SetMemtable(s)
  BY <1>1, FreeSlot DEF SetMemtable, IndInv
<1>3. memtable_id'[s] = memtable_id[s] /\ Valid(s) \subseteq Valid(s)'
  BY <1>1, <1>2, SlotStep DEF SlotMoves
<1>4. memtable_id[s] \in status_sids'
  BY <1>1, StatusKept DEF WriterInv
<1>5. memtable_id[s] \notin disk_sids'
  <2> SUFFICES ASSUME fpc = "wait", ready[fslot] = Valid(fslot),
                      memtable_id[s] = memtable_id[fslot]
               PROVE  FALSE
    BY <1>1, StoreStep DEF StoreGrows
  <2>1. fslot \in Slot /\ memtable_id[s] > 0
    BY <1>1, FlusherOwns DEF WriterInv, FreshIds
  <2>2. fslot = s
    BY <1>1, <2>1 DEF WriterInv, FreshIds
  <2> QED
    BY <1>1, <2>2
<1>6. Owned(s)'
  <2>1. ~(fslot = s /\ fpc = "unlinked")
    BY <1>1 DEF WriterInv, OnDisk, FlushHolds
  <2> QED
    BY <1>1, <2>1, OwnershipStep DEF OwnStep
<1>7. iidx[b] \in 0 .. current_size[s] - 1
  BY <1>1, SizeAssumption DEF Valid, MinOf, IndInv, TypeOK, SlotTypes
<1> QED
  BY <1>1, <1>2, <1>3, <1>4, <1>5, <1>6, <1>7

\* The growing memtable is in use, registered and not on disk.
LEMMA GrowingFresh ==
    ASSUME IndInv, WriterInv, NEW g \in Slot, growing_memtable_idx = g
    PROVE  Owned(g) /\ memtable_id[g] \in status_sids \ disk_sids
<1>1. Current(g) /\ Owned(g)
  BY DEF Owned, Current
<1>2. ~FlushHolds(g)
  BY DEF FlushHolds, IndInv, QueueInv, Roles, Unlinked
<1> QED
  BY <1>1, <1>2 DEF WriterInv, OnDisk, Registered

\* Reserving takes the next index of the growing memtable.
LEMMA ReserveFresh ==
    ASSUME IndInv, WriterInv, [Next]_vars, NEW b \in Backend, Reserves(b),
           NEW g \in Slot, growing_memtable_idx = g
    PROVE  /\ Owned(g)' /\ memtable_id'[g] \in status_sids' \ disk_sids'
           /\ current_size[g] \in Valid(g)' \ ready'[g]
<1>1. /\ current_size[g] \in Nat /\ current_size[g] < Capacity
      /\ current_size'[g] = current_size[g] + 1
      /\ UNCHANGED <<memtable_id, ready, status_sids, disk_sids>>
  BY DEF Reserves, IndInv, TypeOK, SlotTypes
<1>2. Owned(g) /\ memtable_id[g] \in status_sids \ disk_sids
  BY <1>1, GrowingFresh
<1>3. Owned(g)'
  <2>1. ~(fslot = g /\ fpc = "unlinked")
    BY <1>1 DEF IndInv, Roles, Unlinked
  <2> QED
    BY <1>1, <1>2, <2>1, OwnershipStep DEF OwnStep
<1>4. current_size[g] \in Valid(g)'
  BY <1>1, SizeAssumption DEF Valid, MinOf
<1>5. current_size[g] \notin ready[g]
  <2>1. current_size[g] \notin Valid(g)
    BY <1>1, SizeAssumption DEF Valid, MinOf
  <2> QED
    BY <1>1, <2>1 DEF WriterInv, ReadyValid
<1> QED
  BY <1>1, <1>2, <1>3, <1>4, <1>5

\* Inserters write to memtables in use.
LEMMA WriterOwnedStep ==
    ASSUME IndInv, WriterInv, [Next]_vars
    PROVE  WriterOwned'
<1> SUFFICES ASSUME NEW b \in Backend, NEW s \in Slot,
                    ipc'[b] \in {"write", "publish"}, islot'[b] = s
             PROVE  Owned(s)'
  BY DEF WriterOwned
<1>1. CASE Reserves(b)
  BY <1>1, ReserveFresh DEF Reserves
<1>2. CASE ipc[b] \in {"write", "publish"} /\ islot[b] = s
  BY <1>2, WriterKept
<1> QED
  BY <1>1, <1>2, WriterStep DEF WriterMoves

\* No step takes its slot from an inserter, and none gives it to another.
LEMMA WriterSafeStep ==
    ASSUME IndInv, WriterInv, [Next]_vars
    PROVE  WriterSafe'
<1>1. ASSUME NEW b \in Backend, NEW s \in Slot,
             ipc'[b] \in {"write", "publish"}, islot'[b] = s
      PROVE  /\ iidx'[b] \in Valid(s)' \ ready'[s]
             /\ memtable_id'[s] \in status_sids' \ disk_sids'
  <2>1. CASE Reserves(b)
    BY <1>1, <2>1, ReserveFresh DEF Reserves
  <2>2. CASE /\ ipc[b] \in {"write", "publish"}
             /\ ipc[b] = "publish" => ipc'[b] = "publish"
             /\ islot[b] = s
             /\ iidx'[b] = iidx[b]
    <3>1. iidx[b] \notin ready[s]
      BY <2>2 DEF WriterInv, WriterSafe
    <3>2. ASSUME NEW c \in Backend, Publish(c), islot[c] = s, iidx[c] = iidx[b]
          PROVE  FALSE
      <4>1. c # b
        BY <1>1, <3>2 DEF Publish, Goto, IndInv, TypeOK, InsertTypes
      <4> QED
        BY <2>2, <3>2, <4>1 DEF Publish, WriterInv, WriterSafe
    <3>3. ~SetMemtable(s)
      BY <2>2, WriterKept
    <3>4. iidx[b] \notin ready'[s]
      BY <3>1, <3>2, <3>3, SlotStep DEF SlotMoves
    <3> QED
      BY <2>2, <3>4, WriterKept
  <2> QED
    BY <1>1, <2>1, <2>2, WriterStep DEF WriterMoves
<1>2. ASSUME NEW b \in Backend, NEW c \in Backend \ {b}, NEW s \in Slot,
             ipc'[b] \in {"write", "publish"}, ipc'[c] \in {"write", "publish"},
             islot'[b] = s, islot'[c] = s, iidx'[c] = iidx'[b]
      PROVE  FALSE
  <2>1. ASSUME NEW d \in Backend, NEW e \in Backend, d # e, Reserves(d),
               islot'[d] = s, islot'[e] = s, iidx'[e] = iidx'[d],
               ipc[e] \in {"write", "publish"}, islot'[e] = islot[e],
               iidx'[e] = iidx[e]
        PROVE  FALSE
    <3>1. iidx[e] \in 0 .. current_size[s] - 1
      BY <2>1, WriterKept
    <3>2. iidx'[d] = current_size[s] /\ current_size[s] \in Nat
      BY <2>1 DEF Reserves, IndInv, TypeOK, SlotTypes
    <3>3. iidx[e] = current_size[s]
      BY <2>1, <3>2
    <3> QED
      BY <3>1, <3>2, <3>3
  <2>2. ~(Reserves(b) /\ Reserves(c))
    BY <1>2 DEF Reserves
  <2>3. ~(/\ ipc[b] \in {"write", "publish"} /\ islot'[b] = islot[b]
          /\ iidx'[b] = iidx[b]
          /\ ipc[c] \in {"write", "publish"} /\ islot'[c] = islot[c]
          /\ iidx'[c] = iidx[c])
    BY <1>2 DEF WriterInv, WriterSafe
  <2> QED
    BY <1>2, <2>1, <2>2, <2>3, WriterStep DEF WriterMoves
<1>3. \A b \in Backend : ipc'[b] \in {"write", "publish"} => islot'[b] \in Slot
  BY ShapeStep DEF Shape
<1>4. ASSUME NEW b \in Backend, ipc'[b] \in {"write", "publish"}
      PROVE  /\ iidx'[b] \in (0 .. MinOf(current_size'[islot'[b]], Capacity) - 1)
                                \ ready'[islot'[b]]
             /\ memtable_id'[islot'[b]] \in status_sids' \ disk_sids'
  BY <1>1, <1>3, <1>4 DEF Valid
<1>5. ASSUME NEW b \in Backend, ipc'[b] \in {"write", "publish"},
             NEW c \in Backend \ {b}, ipc'[c] \in {"write", "publish"}
      PROVE  <<islot'[c], iidx'[c]>> # <<islot'[b], iidx'[b]>>
  BY <1>2, <1>3, <1>5
<1> QED
  BY <1>4, <1>5 DEF WriterSafe, Valid

\* Initially nobody writes and nothing is on disk.
LEMMA InitWriterInv == Init => WriterInv
<1> SUFFICES ASSUME Init PROVE WriterInv
  OBVIOUS
<1>1. FreshIds
  <2>1. \A s \in Slot : Owned(s) => growing_memtable_idx = s
    BY SizeAssumption, SlotAssumption DEF Init, Owned, Current, InQueue, Position, Going, Coming
  <2>2. \A s \in Slot : memtable_id[s] = IF s = growing_memtable_idx THEN 1 ELSE 0
    BY DEF Init
  <2>3. growing_memtable_idx \in Slot => next_segment_id = 2
    BY SlotAssumption DEF Init
  <2>4. next_segment_id \in {1, 2}
    BY DEF Init
  <2>5. disk_sids = {} /\ pool_sids = {} /\ status_rows = {}
    BY DEF Init
  <2> QED
    BY <2>1, <2>2, <2>3, <2>4, <2>5 DEF FreshIds
<1>2. ReadyValid
  BY DEF Init, ReadyValid
<1>3. OnDisk
  BY DEF Init, OnDisk, FlushHolds
<1>4. Registered
  <2>1. Released = {}
    BY DEF Init, Released
  <2>2. \A s \in Slot : Current(s) => growing_memtable_idx = s
    BY SizeAssumption DEF Init, Current, InQueue, Position, Going, Coming
  <2>3. \A s \in Slot : growing_memtable_idx = s => memtable_id[s] \in status_sids
    BY SlotAssumption DEF Init
  <2> QED
    BY <2>1, <2>2, <2>3 DEF Registered
<1>5. WriterOwned /\ WriterSafe
  BY DEF Init, WriterOwned, WriterSafe
<1> QED
  BY <1>1, <1>2, <1>3, <1>4, <1>5 DEF WriterInv

\* Every step preserves it.
LEMMA WriterInvStep == IndInv /\ WriterInv /\ [Next]_vars => WriterInv'
<1> SUFFICES ASSUME IndInv, WriterInv, [Next]_vars PROVE WriterInv'
  OBVIOUS
<1>1. FreshIds'
  BY FreshIdsStep DEF WriterInv
<1>2. OnDisk'
  BY OnDiskStep DEF WriterInv
<1> QED
  BY <1>1, <1>2, ReadyValidStep, RegisteredStep, WriterOwnedStep, WriterSafeStep
     DEF WriterInv

\* Ids are given out once, a memtable in use is on disk only in the flusher's
\* hands, and only what is on disk leaves the status pages: in every reachable
\* state, whatever inserts, rotations, flushes, VACUUMs and ERRORs interleave.
THEOREM WriterInvHolds == Spec => []WriterInv
  BY IndInvHolds, InitWriterInv, WriterInvStep, PTL DEF Spec

\* reserve_slot, the status page and publish_slot_release: an inserter that has
\* reserved a slot keeps it to itself, and its memtable stays registered and
\* is not flushed, until it has published, although it holds no lock and no
\* reference in between.
THEOREM InsertersSafe == Spec => []WriterSafe
<1>1. WriterInv => WriterSafe
  BY DEF WriterInv
<1> QED
  BY <1>1, WriterInvHolds, PTL

-----------------------------------------------------------------------------
(* Segments hold what was published in their memtables.                    *)

\* A published slot, or one whose row is on the page, is not written again.
LEMMA TidsKept ==
    ASSUME IndInv, WriterInv, [Next]_vars, NEW s \in Slot, NEW i \in Valid(s),
           ~Unwritten(s, i)
    PROVE  /\ i \in Index
           /\ tids'[s][i] = tids[s][i]
           /\ ~SetMemtable(s) => ~Unwritten(s, i)'
<1>1. i \in Index /\ i \in 0 .. current_size[s] - 1
  <2>1. i \in Index
    BY ValidIndex DEF IndInv, TypeOK
  <2>2. i \in 0 .. current_size[s] - 1
    BY SizeAssumption DEF IndInv, TypeOK, SlotTypes, Valid, MinOf
  <2> QED
    BY <2>1, <2>2
<1>2. tids'[s][i] = tids[s][i]
  BY <1>1, TidsStep DEF TidsMove, Unwritten
<1>3. ASSUME NEW b \in Backend, ipc'[b] = "write", islot'[b] = s, iidx'[b] = i
      PROVE  FALSE
  <2>1. ~Reserves(b)
    <3>1. current_size[s] \in Nat
      BY DEF IndInv, TypeOK, SlotTypes
    <3>2. Reserves(b) => i = current_size[s]
      BY <1>3 DEF Reserves
    <3> QED
      BY <1>1, <3>1, <3>2
  <2>2. ipc[b] = "write" /\ islot[b] = s /\ iidx[b] = i
    BY <1>3, <2>1, WriterStep DEF WriterMoves
  <2> QED
    BY <2>2 DEF Unwritten
<1> QED
  BY <1>1, <1>2, <1>3 DEF Unwritten

\* A published entry of a memtable in use stays as it is; on disk it is final.
LEMMA ReadyKept ==
    ASSUME IndInv, WriterInv, [Next]_vars, NEW s \in Slot, ~SetMemtable(s),
           NEW i \in ready[s]
    PROVE  i \in ready'[s] /\ tids'[s][i] = tids[s][i]
<1>1. i \in Valid(s) /\ i \in Index
  BY ValidIndex DEF WriterInv, ReadyValid, IndInv, TypeOK
<1>2. ~Unwritten(s, i)
  BY DEF Unwritten, WriterInv, WriterSafe
<1>3. tids'[s][i] = tids[s][i]
  BY <1>1, <1>2, TidsKept
<1> QED
  BY <1>3, SlotStep DEF SlotMoves

\* Nobody publishes in a memtable whose segment is on disk.
LEMMA DiskFinal ==
    ASSUME IndInv, WriterInv, [Next]_vars, NEW s \in Slot, ~SetMemtable(s),
           memtable_id[s] \in disk_sids'
    PROVE  ready'[s] = ready[s] /\ memtable_id'[s] = memtable_id[s]
<1>1. ASSUME NEW b \in Backend, Publish(b), islot[b] = s PROVE FALSE
  <2>1. memtable_id[s] \notin disk_sids'
    BY <1>1, WriterKept DEF Publish
  <2> QED
    BY <2>1
<1> QED
  BY <1>1, SlotStep DEF SlotMoves

\* Rows reach the disk in FlushWrite only, all of the memtable's at once; VACUUM
\* removes some.
DiskGrows ==
    \/ disk_rows' \subseteq disk_rows /\ disk_sids' = disk_sids
    \/ /\ fpc = "wait" /\ fslot \in Slot /\ InQueue(fslot) /\ Owned(fslot)
       /\ ready[fslot] = Valid(fslot)
       /\ disk_sids' = disk_sids \cup {memtable_id[fslot]}
       /\ disk_rows' = disk_rows \cup
             {<<memtable_id[fslot], tids[fslot][i]>> :
                 i \in ready[fslot] \ bitmap[fslot]}
       /\ UNCHANGED <<slotVars, pool_sids, pool_rows, vacVars, heap, unswept>>

\* Every step keeps to it.
LEMMA DiskStep ==
    ASSUME IndInv, [Next]_vars
    PROVE  DiskGrows
<1>1. CASE UNCHANGED <<disk_rows, disk_sids>>
  BY <1>1 DEF DiskGrows
<1>2. ASSUME NEW b \in Backend, InsertError(b) PROVE DiskGrows
  BY <1>2 DEF InsertError, DiskGrows
<1>3. CASE FlushWrite
  <2>1. fpc = "wait" /\ fslot \in Slot /\ InQueue(fslot) /\ Owned(fslot)
    BY <1>3, FlusherOwns DEF FlushWrite, IndInv, QueueInv
  <2> QED
    BY <1>3, <2>1 DEF FlushWrite, FlushFiles, DiskGrows
<1>4. CASE VacuumMark
  BY <1>4 DEF VacuumMark, DiskGrows
<1>5. CASE VacuumSegments
  BY <1>5 DEF VacuumSegments, DiskGrows
<1>6. ASSUME NEW b \in Backend, Insert(b) PROVE DiskGrows
  BY <1>6, <1>1 DEF Insert, InsertBegin, Goto, TakeFlushed, SkipRelease,
     ReleaseFlushed, ReleaseStatus, Reserve, ReserveBelow, ReserveFull,
     NoGrowing, WriteRow, Publish, RotateBegin, RotateIf, RotateWait,
     RotateAlloc, SetMemtable, RotateEnqueue, RotateInstall
<1>7. CASE Flush
  BY <1>7, <1>1, <1>3 DEF Flush, FlushClaim, FlushRegister, FlushTrack,
     FlushUnlink, FlushRelease, FlushUnlock
<1>8. ASSUME NEW x \in Searcher, Search(x) \/ SearchError(x) PROVE DiskGrows
  BY <1>8, <1>1 DEF Search, SearchBegin, SearchSnapshot, Snapshot,
     WorkerSearch, SearchGrowing, SearchSlot, SearchSealed, SearchReturn,
     SearchEnd, SearchReset, SearchError
<1>9. ASSUME NEW r \in Row, DeleteRow(r) PROVE DiskGrows
  BY <1>9, <1>1 DEF DeleteRow
<1>10. CASE Vacuum
  BY <1>10, <1>1, <1>4, <1>5 DEF Vacuum, VacuumBegin, VacuumPinGrowing,
     VacuumPin, VacuumPinSealed, VacuumPick, VacuumUnpin, VacuumEnd
<1> QED
  BY <1>1, <1>6, <1>2, <1>7, <1>8, <1>9, <1>10 DEF vars, Next

\* A new id is in no store.
LEMMA SetUnstored ==
    ASSUME IndInv, WriterInv, DiskSound, [Next]_vars, NEW s \in Slot,
           SetMemtable(s)
    PROVE  /\ memtable_id'[s] \notin disk_sids' \cup pool_sids'
           /\ \A e \in disk_rows' : e[1] # memtable_id'[s]
<1>1. memtable_id'[s] = next_segment_id /\ next_segment_id \in Nat
  BY SetFresh DEF WriterInv
<1>2. memtable_id[s] < next_segment_id /\ memtable_id[s] \in Nat
  BY DEF WriterInv, FreshIds, IndInv, TypeOK, SlotTypes
<1>3. UNCHANGED <<disk_sids, pool_sids, disk_rows>>
  BY <1>1, <1>2, IdsStep DEF IdsMove
<1>4. next_segment_id \notin disk_sids \cup pool_sids
  BY <1>1 DEF WriterInv, FreshIds
<1> QED
  BY <1>1, <1>3, <1>4 DEF DiskSound

\* A segment's rows are published rows of the memtable, as long as it is there.
LEMMA DiskSoundStep ==
    ASSUME IndInv, WriterInv, DiskSound, [Next]_vars
    PROVE  DiskSound'
<1>1. \A e \in disk_rows' : e[1] \in disk_sids'
  BY DiskStep DEF DiskGrows, DiskSound
<1>2. ASSUME NEW s \in Slot, NEW r \in AnyRow, <<memtable_id'[s], r>> \in disk_rows'
      PROVE  \E i \in ready'[s] : tids'[s][i] = r
  <2>1. ~SetMemtable(s)
    BY <1>2, SetUnstored
  <2>2. memtable_id'[s] = memtable_id[s]
    BY <2>1, SlotStep DEF SlotMoves
  <2>3. \E i \in ready[s] : tids[s][i] = r
    <3>1. CASE <<memtable_id[s], r>> \in disk_rows
      BY <3>1 DEF DiskSound
    <3>2. CASE <<memtable_id[s], r>> \notin disk_rows
      <4>1. PICK i \in ready[fslot] :
               /\ fslot \in Slot /\ Owned(fslot)
               /\ <<memtable_id[s], r>> = <<memtable_id[fslot], tids[fslot][i]>>
        BY <1>2, <2>2, <3>2, DiskStep DEF DiskGrows
      <4>2. s = fslot
        BY <4>1 DEF WriterInv, FreshIds
      <4> QED
        BY <4>1, <4>2
    <3> QED
      BY <3>1, <3>2
  <2> QED
    BY <2>1, <2>3, ReadyKept
<1> QED
  BY <1>1, <1>2 DEF DiskSound

-----------------------------------------------------------------------------
(* Without VACUUM: Durable.                                                *)

\* No VACUUM ever starts.
LEMMA NoVacuumStep ==
    ASSUME IndInv, NoVacuum, [Next]_vars
    PROVE  NoVacuum'
<1>1. CASE UNCHANGED <<vleft, vpc, bitmap>>
  BY <1>1 DEF NoVacuum
<1>2. ASSUME NEW t \in Slot, SetMemtable(t), UNCHANGED <<vleft, vpc>>
      PROVE  NoVacuum'
  BY <1>2 DEF SetMemtable, NoVacuum, IndInv, TypeOK, SlotTypes
<1>3. ASSUME NEW b \in Backend, InsertError(b) PROVE NoVacuum'
  BY <1>1, <1>2, <1>3 DEF InsertError
<1>4. ASSUME NEW b \in Backend, RotateAlloc(b) PROVE NoVacuum'
  BY <1>1, <1>2, <1>4 DEF RotateAlloc
<1>5. ~Vacuum
  BY DEF NoVacuum, Vacuum, VacuumBegin, VacuumPinGrowing, VacuumPinSealed, VacuumPick, VacuumMark, VacuumUnpin, VacuumSegments, VacuumEnd
<1>6. ASSUME NEW b \in Backend, Insert(b) PROVE NoVacuum'
  BY <1>6, <1>1, <1>4 DEF Insert, InsertBegin, Goto, TakeFlushed, SkipRelease,
     ReleaseFlushed, ReleaseStatus, Reserve, ReserveBelow, ReserveFull,
     NoGrowing, WriteRow, Publish, RotateBegin, RotateIf, RotateWait,
     RotateEnqueue, RotateInstall
<1>7. CASE Flush
  BY <1>7, <1>1 DEF Flush, FlushClaim, FlushWrite, FlushFiles, FlushRegister,
     FlushTrack, FlushUnlink, FlushRelease, FlushUnlock
<1>8. ASSUME NEW x \in Searcher, Search(x) \/ SearchError(x) PROVE NoVacuum'
  BY <1>8, <1>1 DEF Search, SearchBegin, SearchSnapshot, Snapshot,
     WorkerSearch, SearchGrowing, SearchSlot, SearchSealed, SearchReturn,
     SearchEnd, SearchReset, SearchError
<1>9. ASSUME NEW r \in Row, DeleteRow(r) PROVE NoVacuum'
  BY <1>9, <1>1 DEF DeleteRow
<1> QED
  BY <1>1, <1>6, <1>3, <1>7, <1>8, <1>9, <1>5 DEF vars, Next

\* Then segments keep their rows, and the entries of a status page stay until
\* the segment is on disk.
Keeps ==
    /\ disk_rows \subseteq disk_rows'
    /\ pool_rows \subseteq pool_rows'
    /\ \A e \in status_rows : e \in status_rows' \/ e[1] \in disk_sids

\* Every step keeps to it.
LEMMA KeepsStep ==
    ASSUME IndInv, NoVacuum, Registered, [Next]_vars
    PROVE  Keeps
<1>1. CASE UNCHANGED <<segVars, status_rows>>
  BY <1>1 DEF Keeps
<1>2. ASSUME NEW b \in Backend, ReleaseFlushed(b) PROVE Keeps
  <2>1. \A k \in 1 .. Len(taken) : taken[k] \in disk_sids
    BY DEF Registered, Released, IndInv, TypeOK, IndexTypes
  <2>2. PICK n \in 0 .. Len(taken) : ReleaseStatus(n)
    BY <1>2 DEF ReleaseFlushed, IndInv, TypeOK, IndexTypes
  <2>3. \A e \in status_rows : e \in status_rows' \/ e[1] \in {taken[k] : k \in 1 .. n}
    BY <2>2 DEF ReleaseStatus
  <2>4. \A k \in 1 .. n : taken[k] \in disk_sids
    BY <2>1, <2>2 DEF IndInv, TypeOK, IndexTypes
  <2> QED
    BY <1>2, <2>3, <2>4 DEF ReleaseFlushed, Keeps
<1>3. ASSUME NEW b \in Backend, WriteRow(b) PROVE Keeps
  BY <1>3 DEF WriteRow, Goto, Keeps
<1>4. ASSUME NEW b \in Backend, InsertError(b) PROVE Keeps
  <2>1. UNCHANGED segVars
    BY <1>4 DEF InsertError
  <2>2. CASE ipc[b] = "release"
    <3>1. PICK n \in 0 .. Len(taken) - 1 : ReleaseStatus(n)
      BY <1>4, <2>2 DEF InsertError
    <3>2. \A k \in 1 .. n : taken[k] \in disk_sids
      BY <3>1 DEF Registered, Released, IndInv, TypeOK, IndexTypes
    <3> QED
      BY <2>1, <3>1, <3>2 DEF ReleaseStatus, Keeps
  <2>3. CASE ipc[b] # "release"
    <3>1. status_rows \subseteq status_rows'
      BY <1>4, <2>3 DEF InsertError
    <3> QED
      BY <2>1, <3>1 DEF Keeps
  <2> QED
    BY <2>2, <2>3
<1>5. CASE FlushWrite
  BY <1>5 DEF FlushWrite, FlushFiles, Keeps
<1>6. CASE FlushRegister
  BY <1>6 DEF FlushRegister, Keeps
<1>7. CASE VacuumMark
  BY <1>7 DEF VacuumMark, NoVacuum
<1>8. CASE VacuumSegments
  BY <1>8 DEF VacuumSegments, NoVacuum
<1>9. ASSUME NEW b \in Backend, Insert(b) PROVE Keeps
  BY <1>9, <1>1, <1>2, <1>3 DEF Insert, InsertBegin, Goto, TakeFlushed,
     SkipRelease, Reserve, ReserveBelow, ReserveFull, NoGrowing, Publish,
     RotateBegin, RotateIf, RotateWait, RotateAlloc, SetMemtable,
     RotateEnqueue, RotateInstall
<1>10. CASE Flush
  BY <1>10, <1>1, <1>5, <1>6 DEF Flush, FlushClaim, FlushTrack, FlushUnlink,
     FlushRelease, FlushUnlock
<1>11. ASSUME NEW x \in Searcher, Search(x) \/ SearchError(x) PROVE Keeps
  BY <1>11, <1>1 DEF Search, SearchBegin, SearchSnapshot, Snapshot,
     WorkerSearch, SearchGrowing, SearchSlot, SearchSealed, SearchReturn,
     SearchEnd, SearchReset, SearchError
<1>12. ASSUME NEW r \in Row, DeleteRow(r) PROVE Keeps
  BY <1>12, <1>1 DEF DeleteRow
<1>13. CASE Vacuum
  BY <1>13, <1>1, <1>7, <1>8 DEF Vacuum, VacuumBegin, VacuumPinGrowing,
     VacuumPin, VacuumPinSealed, VacuumPick, VacuumUnpin, VacuumEnd
<1> QED
  BY <1>1, <1>9, <1>4, <1>10, <1>11, <1>12, <1>13 DEF vars, Next

\* A row about to be published stays in its slot and on its page.
LEMMA PublishKept ==
    ASSUME IndInv, WriterInv, NoVacuum, Logged, [Next]_vars, NEW b \in Backend,
           ipc[b] = "publish", NEW s \in Slot, islot[b] = s
    PROVE  /\ iidx[b] \in Index
           /\ tids'[s][iidx[b]] = irow[b]
           /\ <<memtable_id'[s], irow[b]>> \in status_rows'
           /\ memtable_id'[s] \notin disk_sids'
<1>1. iidx[b] \in Valid(s) /\ memtable_id[s] \notin disk_sids
  BY DEF WriterInv, WriterSafe
<1>2. ~Unwritten(s, iidx[b])
  BY DEF Unwritten, WriterInv, WriterSafe
<1>3. tids[s][iidx[b]] = irow[b] /\ <<memtable_id[s], irow[b]>> \in status_rows
  BY DEF Logged
<1>4. memtable_id'[s] = memtable_id[s] /\ memtable_id[s] \notin disk_sids'
  BY WriterKept
<1>5. <<memtable_id[s], irow[b]>> \in status_rows'
  BY <1>1, <1>3, KeepsStep DEF Keeps, WriterInv
<1> QED
  BY <1>1, <1>2, <1>3, <1>4, <1>5, TidsKept

\* What a status page holds is in the memtable's tids array or on disk.
LEMMA LoggedStep ==
    ASSUME IndInv, WriterInv, NoVacuum, Logged, [Next]_vars
    PROVE  Logged'
<1>0. \A b \in Backend : ipc'[b] = "publish" => islot'[b] \in Slot
  BY ShapeStep DEF Shape
<1>1. ASSUME NEW b \in Backend, ipc'[b] = "publish", NEW s \in Slot, islot'[b] = s
      PROVE  /\ tids'[s][iidx'[b]] = irow'[b]
             /\ <<memtable_id'[s], irow'[b]>> \in status_rows'
  <2>1. ~Reserves(b)
    BY <1>1 DEF Reserves
  <2>2. /\ ipc[b] \in {"write", "publish"} /\ islot[b] = s
        /\ iidx'[b] = iidx[b] /\ irow'[b] = irow[b]
    BY <1>1, <2>1, WriterStep DEF WriterMoves
  <2>3. CASE ipc[b] = "publish"
    BY <2>2, <2>3, PublishKept
  <2>4. CASE ipc[b] # "publish"
    <3>1. /\ tids'[s][iidx[b]] = irow[b]
          /\ <<memtable_id[s], irow[b]>> \in status_rows'
      BY <1>1, <2>1, <2>2, <2>4, WriterStep DEF WriterMoves
    <3>2. memtable_id'[s] = memtable_id[s]
      BY <2>2, WriterKept
    <3> QED
      BY <2>2, <3>1, <3>2
  <2> QED
    BY <2>3, <2>4
<1>2. ASSUME NEW s \in Slot, NEW r \in AnyRow,
             <<memtable_id'[s], r>> \in status_rows'
      PROVE  \E i \in Valid(s)' : tids'[s][i] = r /\ ~Unwritten(s, i)'
  <2>1. ~SetMemtable(s)
    <3> SUFFICES ASSUME SetMemtable(s) PROVE FALSE
      OBVIOUS
    <3>1. memtable_id'[s] = next_segment_id /\ next_segment_id \in Nat
      BY SetFresh DEF WriterInv
    <3>2. memtable_id[s] < next_segment_id /\ memtable_id[s] \in Nat
      BY DEF WriterInv, FreshIds, IndInv, TypeOK, SlotTypes
    <3>3. UNCHANGED status_rows
      BY <3>1, <3>2, IdsStep DEF IdsMove
    <3> QED
      BY <1>2, <3>1, <3>3 DEF WriterInv, FreshIds
  <2>2. memtable_id'[s] = memtable_id[s] /\ Valid(s) \subseteq Valid(s)'
    BY <2>1, SlotStep DEF SlotMoves
  <2>3. CASE <<memtable_id[s], r>> \in status_rows
    <3>1. PICK i \in Valid(s) : tids[s][i] = r /\ ~Unwritten(s, i)
      BY <2>3 DEF Logged
    <3> QED
      BY <2>1, <2>2, <3>1, TidsKept
  <2>4. CASE <<memtable_id[s], r>> \notin status_rows
    <3>1. PICK b \in Backend : /\ ipc[b] = "write" /\ ipc'[b] # "write"
                               /\ <<memtable_id[s], r>> =
                                     <<memtable_id[islot[b]], irow[b]>>
                               /\ tids'[islot[b]][iidx[b]] = irow[b]
      BY <1>2, <2>2, <2>4, LogStep DEF LogGrows
    <3>2. /\ islot[b] \in Slot /\ memtable_id[islot[b]] > 0
          /\ iidx[b] \in Valid(islot[b])
      BY <3>1 DEF IndInv, Shape, WriterInv, WriterOwned, WriterSafe, FreshIds
    <3>3. islot[b] = s
      BY <3>1, <3>2 DEF WriterInv, FreshIds
    <3>4. ASSUME NEW c \in Backend, ipc'[c] = "write", islot'[c] = s, iidx'[c] = iidx[b]
          PROVE  FALSE
      <4>1. c # b
        BY <3>1, <3>4
      <4>2. iidx[b] \in 0 .. current_size[s] - 1 /\ current_size[s] \in Nat
        BY <3>1, <3>3, WriterKept DEF IndInv, TypeOK, SlotTypes
      <4>3. Reserves(c) => iidx[b] = current_size[s]
        BY <3>4 DEF Reserves
      <4>4. ~Reserves(c)
        BY <4>2, <4>3
      <4>5. ipc[c] = "write" /\ islot[c] = s /\ iidx[c] = iidx[b]
        BY <3>4, <4>4, WriterStep DEF WriterMoves
      <4> QED
        BY <3>1, <3>3, <4>1, <4>5 DEF WriterInv, WriterSafe
    <3>5. PICK i \in Valid(s) : i = iidx[b]
      BY <3>2, <3>3
    <3>6. ~Unwritten(s, i)'
      BY <3>4, <3>5 DEF Unwritten
    <3> QED
      BY <2>2, <3>1, <3>3, <3>5, <3>6
  <2> QED
    BY <2>3, <2>4
<1>3. ASSUME NEW e \in status_rows', e[1] \in disk_sids' PROVE e \in disk_rows'
  <2>1. e \in status_rows
    <3> SUFFICES ASSUME NEW b \in Backend, ipc[b] = "write",
                        e = <<memtable_id[islot[b]], irow[b]>>
                 PROVE  FALSE
      BY LogStep DEF LogGrows
    <3>1. islot[b] \in Slot
      BY DEF IndInv, Shape
    <3> QED
      BY <1>3, <3>1, WriterKept
  <2>2. CASE e[1] \in disk_sids
    BY <2>1, <2>2, KeepsStep DEF Keeps, WriterInv, Logged
  <2>3. CASE e[1] \notin disk_sids
    <3>1. FlushWrite
      BY <1>3, <2>3, FlushOnly DEF FlushMoves, Flush, FlushClaim, FlushRegister,
         FlushTrack, FlushUnlink, FlushRelease, FlushUnlock
    <3>2. /\ e[1] = memtable_id[fslot]
          /\ \A i \in Valid(fslot) : <<memtable_id[fslot], tids[fslot][i]>> \in disk_rows'
      BY <1>3, <2>3, <3>1 DEF FlushWrite, FlushFiles, NoVacuum, IndInv, Shape
    <3>3. e[2] \in AnyRow /\ e = <<e[1], e[2]>> /\ fslot \in Slot
      BY <2>1, <3>1 DEF IndInv, TypeOK, StoreTypes, FlushWrite, Shape
    <3>4. \E i \in Valid(fslot) : tids[fslot][i] = e[2]
      BY <2>1, <3>2, <3>3 DEF Logged
    <3> QED
      BY <3>2, <3>3, <3>4
  <2> QED
    BY <2>2, <2>3
<1>4. \A b \in Backend : ipc'[b] = "publish" =>
         /\ tids'[islot'[b]][iidx'[b]] = irow'[b]
         /\ <<memtable_id'[islot'[b]], irow'[b]>> \in status_rows'
  BY <1>0, <1>1
<1> QED
  BY <1>2, <1>3, <1>4 DEF Logged

\* So a live row is on a page or in a segment.
LEMMA DurableStep ==
    ASSUME IndInv, WriterInv, NoVacuum, Logged, Durable, [Next]_vars
    PROVE  Durable'
<1> SUFFICES ASSUME NEW r \in Row, heap'[r] = "live"
             PROVE  \E e \in status_rows' \cup disk_rows' : e[2] = r
  BY DEF Durable
<1>1. CASE heap[r] = "live"
  <2>1. PICK e \in status_rows \cup disk_rows : e[2] = r
    BY <1>1 DEF Durable
  <2>2. e \in status_rows' \cup disk_rows'
    BY <2>1, KeepsStep DEF Keeps, WriterInv, Logged
  <2> QED
    BY <2>1, <2>2
<1>2. ASSUME NEW b \in Backend, Publish(b), irow[b] = r
      PROVE  \E e \in status_rows' \cup disk_rows' : e[2] = r
  <2>1. ipc[b] = "publish" /\ islot[b] \in Slot
    BY <1>2 DEF Publish, IndInv, Shape
  <2>2. PICK s \in Slot : islot[b] = s
    BY <2>1
  <2>3. <<memtable_id'[s], r>> \in status_rows'
    BY <1>2, <2>1, <2>2, PublishKept
  <2> QED
    BY <2>3
<1> QED
  BY <1>1, <1>2, HeapStep DEF HeapMove

\* The invariant behind Durable, initially.
LEMMA InitDurableInv ==
    ASSUME MaxVacuums = 0
    PROVE  Init => DurableInv
  BY DEF Init, DurableInv, NoVacuum, Logged, Durable

\* And after every step.
LEMMA DurableInvStep ==
    IndInv /\ WriterInv /\ DurableInv /\ [Next]_vars => DurableInv'
<1> SUFFICES ASSUME IndInv, WriterInv, DurableInv, [Next]_vars PROVE DurableInv'
  OBVIOUS
<1> QED
  BY NoVacuumStep, LoggedStep, DurableStep DEF DurableInv

\* It holds in every reachable state of a system without VACUUM.
THEOREM DurableInvHolds ==
    ASSUME MaxVacuums = 0
    PROVE  Spec => []DurableInv
  BY InitDurableInv, IndInvHolds, WriterInvHolds, DurableInvStep, PTL DEF Spec

\* AddToStatusMemtable before publish_slot_release, ReleaseStatusMemtable after
\* flush_segment_to_disk: as long as there is no VACUUM every committed row is
\* on a status page or in a segment file at any moment, so that a crash would
\* lose none, ERRORs of inserters included.
THEOREM RowsDurable ==
    ASSUME MaxVacuums = 0
    PROVE  Spec => []Durable
<1>1. DurableInv => Durable
  BY DEF DurableInv
<1> QED
  BY <1>1, DurableInvHolds, PTL

-----------------------------------------------------------------------------
(* Without VACUUM and ERRORs, and with a growing memtable: NoRowLost and   *)
(* SearchComplete.                                                         *)

\* No memtable is left behind: rotate_growing_memtable is only called to
\* replace a sealed one, and always finishes.
LEMMA NoOrphanStep ==
    ASSUME IndInv, NoOrphan, [Next]_vars
    PROVE  NoOrphan'
<1>1. CASE UNCHANGED <<eleft, orphans, growing_memtable_idx, ipc, ineed>>
  BY <1>1 DEF NoOrphan
<1>2. ASSUME NEW b \in Backend, InsertBegin(b) PROVE NoOrphan'
  BY <1>2 DEF InsertBegin, Goto, IndInv, TypeOK, InsertTypes, NoOrphan
<1>3. ASSUME NEW b \in Backend, TakeFlushed(b) PROVE NoOrphan'
  BY <1>3 DEF TakeFlushed, Goto, IndInv, TypeOK, InsertTypes, NoOrphan
<1>4. ASSUME NEW b \in Backend, SkipRelease(b) PROVE NoOrphan'
  BY <1>4 DEF SkipRelease, Goto, IndInv, TypeOK, InsertTypes, NoOrphan
<1>5. ASSUME NEW b \in Backend, ReleaseFlushed(b) PROVE NoOrphan'
  BY <1>5 DEF ReleaseFlushed, ReleaseStatus, Goto, IndInv, TypeOK, InsertTypes,
     NoOrphan
<1>6. ASSUME NEW b \in Backend, Reserve(b) PROVE NoOrphan'
  BY <1>6 DEF Reserve, ReserveBelow, Goto, IndInv, TypeOK, InsertTypes,
     NoOrphan
<1>7. ASSUME NEW b \in Backend, ReserveFull(b) PROVE NoOrphan'
  BY <1>7 DEF ReserveFull, Goto, IndInv, TypeOK, InsertTypes, NoOrphan
<1>8. ASSUME NEW b \in Backend, NoGrowing(b) PROVE NoOrphan'
  BY <1>8 DEF NoGrowing, Goto, IndInv, TypeOK, InsertTypes, NoOrphan
<1>9. ASSUME NEW b \in Backend, WriteRow(b) PROVE NoOrphan'
  BY <1>9 DEF WriteRow, Goto, IndInv, TypeOK, InsertTypes, NoOrphan
<1>10. ASSUME NEW b \in Backend, Publish(b) PROVE NoOrphan'
  BY <1>10 DEF Publish, Goto, IndInv, TypeOK, InsertTypes, NoOrphan
<1>11. ASSUME NEW b \in Backend, RotateBegin(b) PROVE NoOrphan'
  BY <1>11, SlotAssumption DEF RotateBegin, RotateIf, Goto, IndInv, TypeOK,
     InsertTypes, NoOrphan
<1>12. ASSUME NEW b \in Backend, RotateWait(b) PROVE NoOrphan'
  BY <1>12 DEF RotateWait, Goto, IndInv, TypeOK, InsertTypes, NoOrphan
<1>13. ASSUME NEW b \in Backend, RotateAlloc(b) PROVE NoOrphan'
  BY <1>13 DEF RotateAlloc, SetMemtable, Goto, IndInv, TypeOK, InsertTypes,
     NoOrphan
<1>14. ASSUME NEW b \in Backend, RotateEnqueue(b) PROVE NoOrphan'
  BY <1>14 DEF RotateEnqueue, Goto, IndInv, TypeOK, InsertTypes, NoOrphan
<1>15. ASSUME NEW b \in Backend, RotateInstall(b) PROVE NoOrphan'
  BY <1>15, SlotAssumption DEF RotateInstall, Goto, IndInv, TypeOK,
     InsertTypes, NoOrphan, Roles
<1>16. ASSUME NEW b \in Backend, InsertError(b) PROVE NoOrphan'
  BY <1>16 DEF InsertError, NoOrphan
<1>17. ASSUME NEW x \in Searcher, SearchError(x) PROVE NoOrphan'
  BY <1>17 DEF SearchError, NoOrphan
<1>18. CASE VacuumPinGrowing
  BY <1>18 DEF VacuumPinGrowing, VacuumPin, NoOrphan
<1>19. ASSUME NEW b \in Backend, Insert(b) PROVE NoOrphan'
  BY <1>19, <1>1, <1>2, <1>3, <1>4, <1>5, <1>6, <1>7, <1>8, <1>9, <1>10,
     <1>11, <1>12, <1>13, <1>14, <1>15 DEF Insert
<1>20. CASE Flush
  BY <1>20, <1>1 DEF Flush, FlushClaim, FlushWrite, FlushFiles, FlushRegister,
     FlushTrack, FlushUnlink, FlushRelease, FlushUnlock
<1>21. ASSUME NEW x \in Searcher, Search(x) \/ SearchError(x) PROVE NoOrphan'
  BY <1>21, <1>1, <1>17 DEF Search, SearchBegin, SearchSnapshot, Snapshot,
     WorkerSearch, SearchGrowing, SearchSlot, SearchSealed, SearchReturn,
     SearchEnd, SearchReset
<1>22. ASSUME NEW r \in Row, DeleteRow(r) PROVE NoOrphan'
  BY <1>22, <1>1 DEF DeleteRow
<1>23. CASE Vacuum
  BY <1>23, <1>1, <1>18 DEF Vacuum, VacuumBegin, VacuumPinSealed, VacuumPick,
     VacuumPin, VacuumMark, VacuumUnpin, VacuumSegments, VacuumEnd
<1> QED
  BY <1>1, <1>19, <1>16, <1>20, <1>21, <1>22, <1>23 DEF vars, Next

\* And the pool in FlushRegister only.
PoolGrows ==
    \/ UNCHANGED <<pool_rows, pool_sids>>
    \/ /\ fpc = "written" /\ fslot \in Slot
       /\ pool_sids' = pool_sids \cup {memtable_id[fslot]}
       /\ pool_rows' = pool_rows \cup {e \in disk_rows : e[1] = memtable_id[fslot]}
       /\ UNCHANGED <<slotVars, disk_sids, disk_rows>>

\* Every step keeps to it.
LEMMA PoolStep ==
    ASSUME IndInv, NoVacuum, [Next]_vars
    PROVE  PoolGrows
<1>1. CASE UNCHANGED <<pool_rows, pool_sids>>
  BY <1>1 DEF PoolGrows
<1>2. ASSUME NEW b \in Backend, InsertError(b) PROVE PoolGrows
  BY <1>2 DEF InsertError, PoolGrows
<1>3. CASE FlushRegister
  BY <1>3, FlusherOwns DEF FlushRegister, PoolGrows
<1>4. CASE VacuumMark
  BY <1>4 DEF VacuumMark, NoVacuum
<1>5. CASE VacuumSegments
  BY <1>5 DEF VacuumSegments, NoVacuum
<1>6. ASSUME NEW b \in Backend, Insert(b) PROVE PoolGrows
  BY <1>6, <1>1 DEF Insert, InsertBegin, Goto, TakeFlushed, SkipRelease,
     ReleaseFlushed, ReleaseStatus, Reserve, ReserveBelow, ReserveFull,
     NoGrowing, WriteRow, Publish, RotateBegin, RotateIf, RotateWait,
     RotateAlloc, SetMemtable, RotateEnqueue, RotateInstall
<1>7. CASE Flush
  BY <1>7, <1>1, <1>3 DEF Flush, FlushClaim, FlushWrite, FlushFiles,
     FlushTrack, FlushUnlink, FlushRelease, FlushUnlock
<1>8. ASSUME NEW x \in Searcher, Search(x) \/ SearchError(x) PROVE PoolGrows
  BY <1>8, <1>1 DEF Search, SearchBegin, SearchSnapshot, Snapshot,
     WorkerSearch, SearchGrowing, SearchSlot, SearchSealed, SearchReturn,
     SearchEnd, SearchReset, SearchError
<1>9. ASSUME NEW r \in Row, DeleteRow(r) PROVE PoolGrows
  BY <1>9, <1>1 DEF DeleteRow
<1>10. CASE Vacuum
  BY <1>10, <1>1, <1>4, <1>5 DEF Vacuum, VacuumBegin, VacuumPinGrowing,
     VacuumPin, VacuumPinSealed, VacuumPick, VacuumUnpin, VacuumEnd
<1> QED
  BY <1>1, <1>6, <1>2, <1>7, <1>8, <1>9, <1>10 DEF vars, Next

\* What the flusher has registered is in the pool.
LEMMA RegisteredInPool ==
    ASSUME IndInv, WriterInv, NoVacuum, SegmentExact, [Next]_vars, NEW s \in Slot,
           fslot' = s, fpc' \in {"registered", "tracked", "unlinked"}
    PROVE  memtable_id'[s] \in pool_sids'
<1>1. CASE Flush
  <2>1. UNCHANGED memtable_id /\ fslot = s
    BY <1>1 DEF Flush, FlushClaim, FlushWrite, FlushFiles, FlushRegister,
       FlushTrack, FlushUnlink, FlushRelease, FlushUnlock
  <2>2. CASE FlushRegister
    BY <2>1, <2>2 DEF FlushRegister
  <2>3. CASE FlushTrack \/ FlushUnlink
    BY <2>1, <2>3 DEF FlushTrack, FlushUnlink, SegmentExact
  <2> QED
    BY <1>1, <2>2, <2>3 DEF Flush, FlushClaim, FlushWrite, FlushFiles,
       FlushRelease, FlushUnlock
<1>2. CASE UNCHANGED <<disk_sids, fpc, fslot>>
  <2>1. ~SetMemtable(s)
    BY <1>2, FlusherOwns, FreeSlot DEF SetMemtable, IndInv
  <2>2. memtable_id'[s] = memtable_id[s]
    BY <2>1, SlotStep DEF SlotMoves
  <2> QED
    BY <1>2, <2>2, StoreStep DEF StoreGrows, SegmentExact
<1> QED
  BY <1>1, <1>2, FlushOnly DEF FlushMoves

\* Segments and pool have exactly the published rows of their memtables.
LEMMA SegmentExactStep ==
    ASSUME IndInv, WriterInv, NoVacuum, SegmentExact, [Next]_vars
    PROVE  SegmentExact'
<1>1. pool_sids' \subseteq disk_sids' /\ pool_rows' \subseteq disk_rows'
  <2>1. fpc = "written" => memtable_id[fslot] \in disk_sids
    BY FlusherOwns DEF WriterInv, OnDisk, FlushHolds
  <2> QED
    BY <2>1, StoreStep, PoolStep, KeepsStep DEF StoreGrows, Keeps, WriterInv, PoolGrows, SegmentExact
<1>2. DiskSound /\ DiskSound' /\ disk_rows \subseteq disk_rows'
  BY DiskSoundStep, KeepsStep DEF SegmentExact, Keeps, WriterInv
<1>3. ASSUME NEW s \in Slot, memtable_id'[s] \in disk_sids', NEW i \in ready'[s]
      PROVE  <<memtable_id'[s], tids'[s][i]>> \in disk_rows'
  <2>1. ~SetMemtable(s)
    BY <1>2, <1>3, SetUnstored
  <2>2. memtable_id'[s] = memtable_id[s]
    BY <2>1, SlotStep DEF SlotMoves
  <2>3. ready'[s] = ready[s]
    BY <1>3, <2>1, <2>2, DiskFinal
  <2>4. tids'[s][i] = tids[s][i]
    BY <1>3, <2>1, <2>3, ReadyKept
  <2>5. CASE memtable_id[s] \in disk_sids
    <3>1. <<memtable_id[s], tids[s][i]>> \in disk_rows
      BY <1>3, <2>3, <2>5 DEF SegmentExact
    <3> QED
      BY <2>2, <2>4, <3>1, KeepsStep DEF Keeps, WriterInv
  <2>6. CASE memtable_id[s] \notin disk_sids
    <3>1. /\ fslot \in Slot /\ memtable_id[s] = memtable_id[fslot] /\ Owned(fslot)
          /\ disk_rows' = disk_rows \cup
                {<<memtable_id[fslot], tids[fslot][k]>> :
                    k \in ready[fslot] \ bitmap[fslot]}
      BY <1>3, <2>2, <2>6, DiskStep DEF DiskGrows
    <3>2. s = fslot /\ bitmap[fslot] = {}
      BY <3>1 DEF WriterInv, FreshIds, NoVacuum
    <3> QED
      BY <1>3, <2>2, <2>3, <2>4, <3>1, <3>2
  <2> QED
    BY <2>5, <2>6
<1>4. ASSUME NEW s \in Slot, memtable_id'[s] \in pool_sids', NEW i \in ready'[s]
      PROVE  <<memtable_id'[s], tids'[s][i]>> \in pool_rows'
  <2>0. memtable_id'[s] \in disk_sids'
    BY <1>1, <1>4
  <2>1. ~SetMemtable(s)
    BY <1>2, <1>4, SetUnstored
  <2>2. memtable_id'[s] = memtable_id[s]
    BY <2>1, SlotStep DEF SlotMoves
  <2>3. ready'[s] = ready[s]
    BY <2>0, <2>1, <2>2, DiskFinal
  <2>4. tids'[s][i] = tids[s][i]
    BY <1>4, <2>1, <2>3, ReadyKept
  <2>5. CASE memtable_id[s] \in pool_sids
    <3>1. <<memtable_id[s], tids[s][i]>> \in pool_rows
      BY <1>4, <2>3, <2>5 DEF SegmentExact
    <3> QED
      BY <2>2, <2>4, <3>1, KeepsStep DEF Keeps, WriterInv
  <2>6. CASE memtable_id[s] \notin pool_sids
    <3>1. /\ memtable_id[s] = memtable_id[fslot]
          /\ pool_rows' = pool_rows \cup {e \in disk_rows : e[1] = memtable_id[fslot]}
          /\ UNCHANGED <<disk_rows, disk_sids>>
      BY <1>4, <2>2, <2>6, PoolStep DEF PoolGrows
    <3>2. <<memtable_id[s], tids[s][i]>> \in disk_rows
      BY <1>4, <2>0, <2>2, <2>3, <3>1 DEF SegmentExact
    <3> QED
      BY <2>2, <2>4, <3>1, <3>2
  <2> QED
    BY <2>5, <2>6
<1> QED
  BY <1>1, <1>2, <1>3, <1>4, RegisteredInPool DEF SegmentExact

\* A memtable in use stays within reach: in the index, or, once the flusher has
\* unlinked it, in the pool.
LEMMA OwnedReachable ==
    ASSUME IndInv, WriterInv, NoVacuum, NoOrphan, SegmentExact, [Next]_vars,
           NEW s \in Slot, Owned(s)'
    PROVE  Current(s)' \/ \A i \in ready'[s] :
                             <<memtable_id'[s], tids'[s][i]>> \in pool_rows'
<1>1. orphans' = {}
  BY NoOrphanStep DEF NoOrphan
<1>2. Current(s)' \/ (fpc' = "unlinked" /\ fslot' = s)
  BY <1>1 DEF Owned
<1>3. ASSUME fpc' = "unlinked", fslot' = s
      PROVE  \A i \in ready'[s] : <<memtable_id'[s], tids'[s][i]>> \in pool_rows'
  <2>1. memtable_id'[s] \in pool_sids'
    BY <1>3, RegisteredInPool
  <2> QED
    BY <2>1, SegmentExactStep DEF SegmentExact
<1> QED
  BY <1>2, <1>3

\* A row published in a memtable in use is within reach.
LEMMA PublishedReachable ==
    ASSUME IndInv, WriterInv, NoVacuum, NoOrphan, SegmentExact, [Next]_vars,
           NEW s \in Slot, Owned(s)', NEW i \in ready'[s],
           NEW r \in Row, tids'[s][i] = r
    PROVE  Reachable(r)'
<1>1. i \in ready'[s] \ bitmap'[s]
  BY NoVacuumStep DEF NoVacuum
<1>2. CASE Current(s)'
  BY <1>1, <1>2 DEF Reachable
<1>3. CASE <<memtable_id'[s], tids'[s][i]>> \in pool_rows'
  BY <1>3 DEF Reachable
<1> QED
  BY <1>2, <1>3, OwnedReachable

\* No step puts a live row out of reach.
LEMMA NoRowLostStep ==
    ASSUME IndInv, WriterInv, DurableInv, ReachInv, [Next]_vars
    PROVE  NoRowLost'
<1>0. NoVacuum /\ Logged /\ NoOrphan /\ SegmentExact /\ NoRowLost
  BY DEF DurableInv, ReachInv
<1> SUFFICES ASSUME NEW r \in Row, heap'[r] = "live" PROVE Reachable(r)'
  BY DEF NoRowLost
<1>1. CASE heap[r] = "live"
  <2>1. Reachable(r)
    BY <1>0, <1>1 DEF NoRowLost
  <2>2. ASSUME NEW s \in Slot, Current(s), NEW i \in ready[s], tids[s][i] = r
        PROVE  Reachable(r)'
    <3>1. Owned(s) /\ ~SetMemtable(s)
      BY <2>2, FreeSlot DEF Owned, SetMemtable, IndInv
    <3>2. ~(fslot = s /\ fpc = "unlinked")
      BY <2>2 DEF IndInv, Roles, Current, Unlinked
    <3>3. Owned(s)'
      BY <3>1, <3>2, OwnershipStep DEF OwnStep
    <3>4. i \in ready'[s] /\ tids'[s][i] = r
      BY <2>2, <3>1, ReadyKept
    <3> QED
      BY <1>0, <3>3, <3>4, PublishedReachable
  <2>3. ASSUME NEW e \in pool_rows, e[2] = r PROVE Reachable(r)'
    BY <1>0, <2>3, KeepsStep DEF Keeps, WriterInv, Reachable
  <2> QED
    BY <2>1, <2>2, <2>3 DEF Reachable
<1>2. ASSUME NEW b \in Backend, Publish(b), irow[b] = r PROVE Reachable(r)'
  <2>1. ipc[b] = "publish" /\ islot[b] \in Slot
    BY <1>2 DEF Publish, IndInv, Shape
  <2>2. PICK s \in Slot : islot[b] = s
    BY <2>1
  <2>3. Owned(s)'
    BY <2>1, <2>2, WriterKept
  <2>4. iidx[b] \in ready'[s]
    BY <1>2, <2>2 DEF Publish, IndInv, TypeOK, SlotTypes
  <2>5. tids'[s][iidx[b]] = r
    BY <1>0, <1>2, <2>1, <2>2, PublishKept
  <2> QED
    BY <1>0, <2>3, <2>4, <2>5, PublishedReachable
<1> QED
  BY <1>1, <1>2, HeapStep DEF HeapMove

\* A step is one of search x, or leaves it alone.
SearchMoves(x) ==
    \/ Search(x) \/ SearchError(x)
    \/ /\ spc'[x] = spc[x] /\ smid'[x] = smid[x] /\ pins'[x] = pins[x]
       /\ found'[x] = found[x] /\ expect'[x] = expect[x] /\ wdone'[x] = wdone[x]

\* Every step keeps to it.
LEMMA SearchOnly ==
    ASSUME IndInv, [Next]_vars, NEW y \in Searcher
    PROVE  SearchMoves(y)
<1>1. CASE UNCHANGED <<spc, smid, pins, found, expect, wdone>>
  BY <1>1 DEF SearchMoves
<1>2. ASSUME NEW b \in Backend, InsertError(b) PROVE SearchMoves(y)
  BY <1>2 DEF InsertError, SearchMoves
<1>3. ASSUME NEW x \in Searcher, SearchBegin(x) PROVE SearchMoves(y)
  <2>1. CASE x = y
    BY <1>3, <2>1 DEF SearchMoves, Search
  <2>2. CASE x # y
    BY <1>3, <2>2 DEF SearchBegin, SearchMoves, IndInv, TypeOK, SearchTypes
  <2> QED
    BY <2>1, <2>2
<1>4. ASSUME NEW x \in Searcher, SearchSnapshot(x) PROVE SearchMoves(y)
  <2>1. CASE x = y
    BY <1>4, <2>1 DEF SearchMoves, Search
  <2>2. CASE x # y
    BY <1>4, <2>2 DEF SearchSnapshot, Snapshot, SearchMoves, IndInv, TypeOK,
       SearchTypes
  <2> QED
    BY <2>1, <2>2
<1>5. ASSUME NEW x \in Searcher, WorkerSearch(x) PROVE SearchMoves(y)
  <2>1. CASE x = y
    BY <1>5, <2>1 DEF SearchMoves, Search
  <2>2. CASE x # y
    BY <1>5, <2>2 DEF WorkerSearch, SearchMoves, IndInv, TypeOK, SearchTypes
  <2> QED
    BY <2>1, <2>2
<1>6. ASSUME NEW x \in Searcher, SearchGrowing(x) PROVE SearchMoves(y)
  <2>1. CASE x = y
    BY <1>6, <2>1 DEF SearchMoves, Search
  <2>2. CASE x # y
    BY <1>6, <2>2 DEF SearchGrowing, SearchSlot, SearchMoves, IndInv, TypeOK,
       SearchTypes
  <2> QED
    BY <2>1, <2>2
<1>7. ASSUME NEW x \in Searcher, SearchSealed(x) PROVE SearchMoves(y)
  <2>1. CASE x = y
    BY <1>7, <2>1 DEF SearchMoves, Search
  <2>2. CASE x # y
    BY <1>7, <2>2, ZenonT(40) DEF SearchSealed, SearchSlot, SearchMoves, IndInv, TypeOK,
       SearchTypes
  <2> QED
    BY <2>1, <2>2
<1>8. ASSUME NEW x \in Searcher, SearchReturn(x) PROVE SearchMoves(y)
  <2>1. CASE x = y
    BY <1>8, <2>1 DEF SearchMoves, Search
  <2>2. CASE x # y
    BY <1>8, <2>2 DEF SearchReturn, SearchMoves, IndInv, TypeOK, SearchTypes
  <2> QED
    BY <2>1, <2>2
<1>9. ASSUME NEW x \in Searcher, SearchEnd(x) PROVE SearchMoves(y)
  <2>1. CASE x = y
    BY <1>9, <2>1 DEF SearchMoves, Search
  <2>2. CASE x # y
    BY <1>9, <2>2 DEF SearchEnd, SearchReset, SearchMoves, IndInv, TypeOK,
       SearchTypes
  <2> QED
    BY <2>1, <2>2
<1>10. ASSUME NEW x \in Searcher, SearchError(x) PROVE SearchMoves(y)
  <2>1. CASE x = y
    BY <1>10, <2>1 DEF SearchMoves, Search
  <2>2. CASE x # y
    BY <1>10, <2>2 DEF SearchError, SearchReset, SearchMoves, IndInv, TypeOK,
       SearchTypes
  <2> QED
    BY <2>1, <2>2
<1>11. ASSUME NEW b \in Backend, Insert(b) PROVE SearchMoves(y)
  BY <1>11, <1>1 DEF Insert, InsertBegin, Goto, TakeFlushed, SkipRelease,
     ReleaseFlushed, ReleaseStatus, Reserve, ReserveBelow, ReserveFull,
     NoGrowing, WriteRow, Publish, RotateBegin, RotateIf, RotateWait,
     RotateAlloc, SetMemtable, RotateEnqueue, RotateInstall
<1>12. CASE Flush
  BY <1>12, <1>1 DEF Flush, FlushClaim, FlushWrite, FlushFiles, FlushRegister,
     FlushTrack, FlushUnlink, FlushRelease, FlushUnlock
<1>13. ASSUME NEW x \in Searcher, Search(x) \/ SearchError(x) PROVE SearchMoves(y)
  BY <1>13, <1>1, <1>3, <1>4, <1>5, <1>6, <1>7, <1>8, <1>9, <1>10 DEF Search
<1>14. ASSUME NEW r \in Row, DeleteRow(r) PROVE SearchMoves(y)
  BY <1>14, <1>1 DEF DeleteRow
<1>15. CASE Vacuum
  BY <1>15, <1>1 DEF Vacuum, VacuumBegin, VacuumPinGrowing, VacuumPin,
     VacuumPinSealed, VacuumPick, VacuumMark, VacuumUnpin, VacuumSegments,
     VacuumEnd
<1> QED
  BY <1>1, <1>11, <1>2, <1>12, <1>13, <1>14, <1>15 DEF vars, Next

\* A pinned slot keeps its published rows.
LEMMA PinnedKept ==
    ASSUME IndInv, WriterInv, [Next]_vars, NEW x \in Searcher, NEW s \in Slot,
           s \in pins[x], NEW i \in ready[s]
    PROVE  i \in ready'[s] /\ tids'[s][i] = tids[s][i]
<1>1. ~SetMemtable(s)
  BY FreeSlot DEF SetMemtable, IndInv
<1> QED
  BY <1>1, ReadyKept

\* The search of a slot returns every published row in it.
LEMMA HitsAll ==
    ASSUME WriterInv, NoVacuum, NEW s \in Slot, NEW i \in ready[s], NEW c \in BOOLEAN
    PROVE  tids[s][i] \in Hits(s, c)
<1>1. i \in Valid(s) \ bitmap[s]
  BY DEF WriterInv, ReadyValid, NoVacuum
<1> QED
  BY <1>1 DEF Hits

\* Every live row is in the snapshot's memtables or left to the worker.
LEMMA SnapshotCovers ==
    ASSUME IndInv, WriterInv, NoVacuum, ReachInv, NEW x \in Searcher,
           SearchSnapshot(x), NEW r \in Row, heap[r] = "live"
    PROVE  \/ \E s \in SnapshotSlots : \E i \in ready[s] : tids[s][i] = r
           \/ \E e \in pool_rows :
                 e[2] = r /\ \A s \in Slot : s \in SnapshotSlots => memtable_id[s] # e[1]
<1>1. growing_memtable_idx \in Slot
  BY DEF SearchSnapshot, Snapshot
<1>2. \A b \in Backend : ~Rotating(b)
  BY <1>1, SlotAssumption DEF IndInv, RotateMutex
<1>3. \A s \in Slot : Current(s) => s \in SnapshotSlots
  BY <1>2 DEF Current, SnapshotSlots, Rotating, Going, Coming
<1>4. Reachable(r)
  BY DEF ReachInv, NoRowLost
<1>5. ASSUME NEW e \in pool_rows, e[2] = r, NEW s \in Slot, s \in SnapshotSlots,
             memtable_id[s] = e[1]
      PROVE  \E i \in ready[s] : tids[s][i] = r
  <2>1. e = <<memtable_id[s], r>> /\ r \in AnyRow
    BY <1>5 DEF IndInv, TypeOK, StoreTypes, AnyRow
  <2>2. e \in disk_rows
    BY DEF ReachInv, SegmentExact
  <2> QED
    BY <2>1, <2>2 DEF ReachInv, SegmentExact, DiskSound
<1> QED
  BY <1>3, <1>4, <1>5 DEF Reachable

\* A search keeps track of every row it has to return.
LEMMA SearchInvStep ==
    ASSUME IndInv, WriterInv, DurableInv, ReachInv, [Next]_vars
    PROVE  SearchInv'
<1>0. NoVacuum /\ SegmentExact /\ SearchInv /\ pool_rows \subseteq pool_rows'
  BY KeepsStep DEF DurableInv, ReachInv, WriterInv, Keeps
<1>T. SearchTypes
  BY DEF IndInv, TypeOK
<1> SUFFICES ASSUME NEW x \in Searcher
             PROVE  /\ spc'[x] \in {"growing", "sealed"} =>
                          \A r \in expect'[x] : Awaiting(x, r)'
                    /\ spc'[x] = "done" => expect'[x] \subseteq found'[x]
  BY DEF SearchInv
<1>1. ASSUME /\ spc'[x] = spc[x] /\ smid'[x] = smid[x] /\ pins'[x] = pins[x]
             /\ expect'[x] = expect[x] /\ wdone'[x] = wdone[x]
             /\ found'[x] = found[x]
      PROVE  /\ spc'[x] \in {"growing", "sealed"} =>
                   \A r \in expect'[x] : Awaiting(x, r)'
             /\ spc'[x] = "done" => expect'[x] \subseteq found'[x]
  <2>1. ASSUME NEW r \in expect[x], Awaiting(x, r) PROVE Awaiting(x, r)'
    <3>1. CASE r \in found[x]
      BY <1>1, <3>1 DEF Awaiting
    <3>2. ASSUME NEW s \in pins[x], NEW i \in ready[s], tids[s][i] = r
          PROVE  Awaiting(x, r)'
      <4>1. s \in Slot
        BY <1>T DEF SearchTypes
      <4> QED
        BY <1>1, <3>2, <4>1, PinnedKept DEF Awaiting
    <3>3. CASE ~wdone[x] /\ \E e \in pool_rows :
                               e[2] = r /\ \A s \in Slot : smid[x][s] # e[1]
      BY <1>0, <1>1, <3>3 DEF Awaiting
    <3> QED
      BY <2>1, <3>1, <3>2, <3>3 DEF Awaiting
  <2> QED
    BY <1>0, <1>1, <2>1 DEF SearchInv
<1>2. CASE SearchBegin(x) \/ SearchEnd(x) \/ SearchError(x)
  <2>1. spc'[x] \in {"snap", "idle"}
    BY <1>2, <1>T DEF SearchBegin, SearchEnd, SearchError, SearchReset, SearchTypes
  <2> QED
    BY <2>1
<1>3. CASE SearchSnapshot(x)
  <2>1. /\ pins'[x] = SnapshotSlots
        /\ expect'[x] = {r \in Row : heap[r] = "live"}
        /\ ~wdone'[x]
        /\ smid'[x] = [s \in Slot |-> IF s \in SnapshotSlots THEN memtable_id[s]
                                                            ELSE 0]
        /\ spc'[x] = "growing"
        /\ UNCHANGED <<ready, tids, pool_rows>>
    BY <1>3, <1>T DEF SearchSnapshot, Snapshot, SearchTypes
  <2>2. \A e \in pool_rows : e[1] # 0
    BY <1>0 DEF WriterInv, FreshIds, SegmentExact, DiskSound
  <2>3. ASSUME NEW r \in expect'[x] PROVE Awaiting(x, r)'
    <3>1. r \in Row /\ heap[r] = "live"
      BY <2>1, <2>3
    <3>2. CASE \E s \in SnapshotSlots : \E i \in ready[s] : tids[s][i] = r
      BY <2>1, <3>2 DEF Awaiting
    <3>3. ASSUME NEW e \in pool_rows, e[2] = r,
                 \A s \in Slot : s \in SnapshotSlots => memtable_id[s] # e[1]
          PROVE  Awaiting(x, r)'
      <4>1. \A s \in Slot : smid'[x][s] # e[1]
        BY <2>1, <2>2, <3>3
      <4> QED
        BY <2>1, <3>3, <4>1 DEF Awaiting
    <3> QED
      BY <1>0, <1>3, <3>1, <3>2, <3>3, SnapshotCovers
  <2> QED
    BY <2>1, <2>3
<1>4. CASE WorkerSearch(x)
  <2>1. /\ UNCHANGED <<spc, pins, expect, ready, tids>>
        /\ spc[x] \in {"growing", "sealed"}
        /\ found'[x] = found[x] \cup {e[2] : e \in {p \in pool_rows :
                                          \A s \in Slot : smid[x][s] # p[1]}}
    BY <1>4, <1>T DEF WorkerSearch, SearchTypes
  <2>2. ASSUME NEW r \in expect[x] PROVE Awaiting(x, r)'
    <3>1. Awaiting(x, r)
      BY <1>0, <2>1 DEF SearchInv
    <3>2. CASE \E e \in pool_rows : e[2] = r /\ \A s \in Slot : smid[x][s] # e[1]
      BY <2>1, <3>2 DEF Awaiting
    <3> QED
      BY <2>1, <3>1, <3>2 DEF Awaiting
  <2> QED
    BY <2>1, <2>2
<1>5. ASSUME NEW s \in pins[x], NEW c \in BOOLEAN, SearchSlot(x, s, c),
             spc[x] \in {"growing", "sealed"}, spc'[x] = "sealed"
      PROVE  \A r \in expect'[x] : Awaiting(x, r)'
  <2>1. /\ UNCHANGED <<expect, wdone, smid, ready, tids, pool_rows>>
        /\ found'[x] = found[x] \cup Hits(s, c)
        /\ pins'[x] = pins[x] \ {s}
    BY <1>5, <1>T DEF SearchSlot, SearchTypes
  <2>2. ASSUME NEW r \in expect[x] PROVE Awaiting(x, r)'
    <3>1. Awaiting(x, r)
      BY <1>0, <1>5 DEF SearchInv
    <3>2. ASSUME NEW t \in pins[x], NEW i \in ready[t], tids[t][i] = r
          PROVE  Awaiting(x, r)'
      <4>1. CASE t = s
        <5>1. s \in Slot
          BY <1>5, <1>T DEF SearchTypes
        <5>2. r \in Hits(s, c)
          BY <1>0, <1>5, <3>2, <4>1, <5>1, HitsAll
        <5> QED
          BY <2>1, <5>2 DEF Awaiting
      <4>2. CASE t # s
        BY <2>1, <3>2, <4>2 DEF Awaiting
      <4> QED
        BY <4>1, <4>2
    <3>3. CASE r \in found[x]
      BY <2>1, <3>3 DEF Awaiting
    <3>4. CASE ~wdone[x] /\ \E e \in pool_rows :
                               e[2] = r /\ \A t \in Slot : smid[x][t] # e[1]
      BY <2>1, <3>4 DEF Awaiting
    <3> QED
      BY <3>1, <3>2, <3>3, <3>4 DEF Awaiting
  <2> QED
    BY <2>1, <2>2
<1>6. CASE SearchGrowing(x)
  <2>1. /\ SearchSlot(x, sgrow[x], TRUE) /\ sgrow[x] \in pins[x]
        /\ spc[x] = "growing" /\ spc'[x] = "sealed"
    BY <1>6, <1>T DEF SearchGrowing, SearchTypes, IndInv, Shape
  <2> QED
    BY <1>5, <2>1
<1>7. CASE SearchSealed(x)
  <2>1. /\ \E s \in pins[x] : SearchSlot(x, s, FALSE)
        /\ spc[x] = "sealed" /\ spc'[x] = "sealed"
    BY <1>7 DEF SearchSealed
  <2> QED
    BY <1>5, <2>1
<1>8. CASE SearchReturn(x)
  <2>1. /\ spc[x] = "sealed" /\ pins[x] = {} /\ wdone[x] /\ spc'[x] = "done"
        /\ UNCHANGED <<expect, found>>
    BY <1>8, <1>T DEF SearchReturn, SearchTypes
  <2>2. \A r \in expect[x] : Awaiting(x, r)
    BY <1>0, <2>1 DEF SearchInv
  <2> QED
    BY <2>1, <2>2 DEF Awaiting
<1> QED
  BY <1>1, <1>2, <1>3, <1>4, <1>6, <1>7, <1>8, SearchOnly DEF SearchMoves, Search

\* The invariant behind NoRowLost and SearchComplete, initially.
LEMMA InitReachInv ==
    ASSUME MaxErrors = 0, ~StartInvalid
    PROVE  Init => ReachInv
<1> SUFFICES ASSUME Init PROVE ReachInv
  OBVIOUS
<1>1. NoOrphan
  BY SlotAssumption DEF Init, NoOrphan
<1>2. SegmentExact
  BY DEF Init, SegmentExact, DiskSound
<1>3. NoRowLost /\ SearchInv
  BY DEF Init, NoRowLost, SearchInv
<1> QED
  BY <1>1, <1>2, <1>3 DEF ReachInv

\* And after every step.
LEMMA ReachInvStep ==
    IndInv /\ WriterInv /\ DurableInv /\ ReachInv /\ [Next]_vars => ReachInv'
<1> SUFFICES ASSUME IndInv, WriterInv, DurableInv, ReachInv, [Next]_vars
             PROVE  ReachInv'
  OBVIOUS
<1>1. NoOrphan' /\ SegmentExact'
  BY NoOrphanStep, SegmentExactStep DEF DurableInv, ReachInv
<1> QED
  BY <1>1, NoRowLostStep, SearchInvStep DEF ReachInv

\* It holds in every reachable state of a system without VACUUM and ERRORs that
\* starts with a growing memtable.
THEOREM ReachInvHolds ==
    ASSUME MaxVacuums = 0, MaxErrors = 0, ~StartInvalid
    PROVE  Spec => []ReachInv
  BY InitReachInv, IndInvHolds, WriterInvHolds, DurableInvHolds, ReachInvStep, PTL
     DEF Spec

\* Rotation and flush hand a row on without a gap: from the growing memtable
\* through the queue to the pool, every committed row is in reach of the next
\* search at any moment.
THEOREM RowsReachable ==
    ASSUME MaxVacuums = 0, MaxErrors = 0, ~StartInvalid
    PROVE  Spec => []NoRowLost
<1>1. ReachInv => NoRowLost
  BY DEF ReachInv
<1> QED
  BY <1>1, ReachInvHolds, PTL

\* The snapshot of search_lsm_index and the worker's search of the segments the
\* snapshot does not cover miss no row, whatever is rotated or flushed between
\* the two.
THEOREM SearchesComplete ==
    ASSUME MaxVacuums = 0, MaxErrors = 0, ~StartInvalid
    PROVE  Spec => []SearchComplete
<1>1. ReachInv => SearchComplete
  BY DEF ReachInv, SearchInv, SearchComplete
<1> QED
  BY <1>1, ReachInvHolds, PTL
===============================================================================
