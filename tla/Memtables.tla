----------------------------- MODULE Memtables -----------------------------
(***************************************************************************)
(* The in-memory half of one LSM vector index: the shared memtable slots,  *)
(* the growing memtable and the queue of sealed ones, and the processes    *)
(* that race on them:                                                      *)
(*                                                                         *)
(*   - backends running insert_lsm_index (reserve, write, publish, rotate) *)
(*   - the one LSM background worker running lsm_flush_one_pending         *)
(*   - backends running search_lsm_index, and the vector index worker that *)
(*     searches the flushed segments for them                              *)
(*   - the one VACUUM running bulk_delete_lsm_index                        *)
(*                                                                         *)
(* A step is what the code does under one lock, or one atomic operation.   *)
(* The flushed segments are the pairs <<sid, row>> whose bitmap bit is     *)
(* clear, on disk and in the worker's pool: versions, merges and rebuilds  *)
(* of segments do not happen here.                                         *)
(***************************************************************************)
EXTENDS Integers, Sequences, FiniteSets

CONSTANTS
    Backend,          \* processes that insert
    Searcher,         \* processes that search
    Slot,             \* indices of SharedMemtableBuffer->slots
    Row,              \* heap TIDs
    NoRow,            \* a tids[] entry nobody has written since startup
    MT_IDX_INVALID,   \* growing_memtable_idx: no growing memtable
    MT_IDX_ROTATING,  \* growing_memtable_idx: a rotation is in progress
    Capacity,         \* rows per memtable
    MEMTABLE_NUM,     \* length of memtable_idxs and flushed_not_released
    StartInvalid,     \* TRUE: recovered without a growing memtable
    MaxVacuums,       \* bound on the number of VACUUMs
    MaxErrors         \* bound on the number of ereport(ERROR)s

ASSUME SlotAssumption ==
    /\ MT_IDX_INVALID \notin Slot
    /\ MT_IDX_ROTATING \notin Slot
    /\ MT_IDX_INVALID # MT_IDX_ROTATING
    /\ Slot # {}

ASSUME RowAssumption == NoRow \notin Row

ASSUME SizeAssumption ==
    /\ Capacity \in Nat \ {0}
    /\ MEMTABLE_NUM \in Nat \ {0}
    /\ MaxVacuums \in Nat
    /\ MaxErrors \in Nat
    /\ StartInvalid \in BOOLEAN

ASSUME ProcessAssumption == IsFiniteSet(Searcher)

VARIABLES
    \* ConcurrentMemTableData and MemtableBufferSlot, one per slot
    ref_count, memtable_id, current_size, sealed, flush_claimed,
    tids, ready, bitmap,
    \* LSMIndexData
    growing_memtable_idx, memtable_idxs, memtable_count, next_segment_id,
    flushed_not_released, taken, releasing_in_progress,
    \* segment files, the worker's pool, the status pages
    disk_sids, disk_rows, pool_sids, pool_rows, status_sids, status_rows,
    \* the heap: what has become of each row
    heap,
    \* insert_lsm_index
    ipc, irow, islot, iidx, ineed, inew,
    \* lsm_flush_one_pending
    fpc, fslot,
    \* search_lsm_index
    spc, sgrow, smid, pins, found, expect, wdone,
    \* bulk_delete_lsm_index
    vpc, vslot, vmid, vgrow, vids, doomed, vleft,
    \* history: slots whose rows no process can reach any more, rows dead
    \* when a VACUUM saw no growing memtable, errors left
    orphans, unswept, eleft

slotVars   == <<ref_count, memtable_id, current_size, sealed, flush_claimed,
                tids, ready, bitmap>>
indexVars  == <<growing_memtable_idx, memtable_idxs, memtable_count,
                next_segment_id>>
relVars    == <<flushed_not_released, taken, releasing_in_progress>>
segVars    == <<disk_sids, disk_rows, pool_sids, pool_rows>>
statusVars == <<status_sids, status_rows>>
insVars    == <<ipc, irow, islot, iidx, ineed, inew>>
flushVars  == <<fpc, fslot>>
searchVars == <<spc, sgrow, smid, pins, found, expect, wdone>>
vacVars    == <<vpc, vslot, vmid, vgrow, vids, doomed, vleft>>
histVars   == <<orphans, unswept, eleft>>

vars == <<slotVars, indexVars, relVars, segVars, statusVars, heap,
          insVars, flushVars, searchVars, vacVars, histVars>>

Index   == 0 .. Capacity - 1
NoSlot  == MT_IDX_INVALID
Position == 0 .. MEMTABLE_NUM - 1

-----------------------------------------------------------------------------
(* Helpers.                                                                *)

MinOf(a, b) == IF a < b THEN a ELSE b

\* Slots handed out so far, capped: Min(current_size, capacity).
Valid(s) == 0 .. MinOf(current_size[s], Capacity) - 1

\* The sealed memtables: the first memtable_count entries of memtable_idxs.
InQueue(s) == \E p \in Position : p < memtable_count /\ memtable_idxs[p] = s

\* The LW_SHARED vacuum_lock the flusher holds from before it waits for the
\* last publisher until after it has given its reference back.
FlusherLocks(s) ==
    /\ fslot = s
    /\ fpc \in {"wait", "written", "registered", "tracked", "unlinked",
                "released"}

\* Backend b is inside a rotation it won.
Rotating(b) == ipc[b] \in {"alloc", "enqueue", "install"}

\* lsm->flushed_release_lock is held by an inserter.
ReleaseLockHeld == \E b \in Backend : ipc[b] = "release"

-----------------------------------------------------------------------------
(* Initial state: a built index, with an empty growing memtable in some    *)
(* slot, or (StartInvalid) one that recovery left without any.  Slots hold *)
(* the zeroes of fresh shared memory.                                      *)

Init ==
    /\ growing_memtable_idx \in
          IF StartInvalid THEN {MT_IDX_INVALID} ELSE Slot
    /\ ref_count = [s \in Slot |-> IF s = growing_memtable_idx THEN 1 ELSE 0]
    /\ memtable_id = [s \in Slot |-> IF s = growing_memtable_idx THEN 1 ELSE 0]
    /\ current_size = [s \in Slot |-> 0]
    /\ sealed = [s \in Slot |-> FALSE]
    /\ flush_claimed = [s \in Slot |-> FALSE]
    /\ tids = [s \in Slot |-> [i \in Index |-> NoRow]]
    /\ ready = [s \in Slot |-> {}]
    /\ bitmap = [s \in Slot |-> {}]
    /\ memtable_idxs = [p \in Position |-> NoSlot]
    /\ memtable_count = 0
    /\ next_segment_id = IF StartInvalid THEN 1 ELSE 2
    /\ flushed_not_released = <<>>
    /\ taken = <<>>
    /\ releasing_in_progress = FALSE
    /\ disk_sids = {} /\ disk_rows = {}
    /\ pool_sids = {} /\ pool_rows = {}
    /\ status_sids = IF StartInvalid THEN {} ELSE {1}
    /\ status_rows = {}
    /\ heap = [r \in Row |-> "new"]
    /\ ipc = [b \in Backend |-> "idle"]
    /\ irow = [b \in Backend |-> NoRow]
    /\ islot = [b \in Backend |-> NoSlot]
    /\ iidx = [b \in Backend |-> 0]
    /\ ineed = [b \in Backend |-> FALSE]
    /\ inew = [b \in Backend |-> NoSlot]
    /\ fpc = "idle"
    /\ fslot = NoSlot
    /\ spc = [x \in Searcher |-> "idle"]
    /\ sgrow = [x \in Searcher |-> NoSlot]
    /\ smid = [x \in Searcher |-> [s \in Slot |-> 0]]
    /\ pins = [x \in Searcher |-> {}]
    /\ found = [x \in Searcher |-> {}]
    /\ expect = [x \in Searcher |-> {}]
    /\ wdone = [x \in Searcher |-> FALSE]
    /\ vpc = "idle"
    /\ vslot = NoSlot
    /\ vmid = 0
    /\ vgrow = 0
    /\ vids = {}
    /\ doomed = {}
    /\ vleft = MaxVacuums
    /\ orphans = {}
    /\ unswept = {}
    /\ eleft = MaxErrors

-----------------------------------------------------------------------------
(* insert_lsm_index and rotate_growing_memtable.                           *)

Goto(b, label) == ipc' = [ipc EXCEPT ![b] = label]

\* A backend enters insert_lsm_index with a heap row.
InsertBegin(b) ==
    /\ ipc[b] = "idle"
    /\ \E r \in Row :
          /\ heap[r] = "new"
          /\ heap' = [heap EXCEPT ![r] = "inserting"]
          /\ irow' = [irow EXCEPT ![b] = r]
    /\ Goto(b, "start")
    /\ UNCHANGED <<slotVars, indexVars, relVars, segVars, statusVars, islot,
                   iidx, ineed, inew, flushVars, searchVars, vacVars, histVars>>

\* There are flushed memtables to release from the status pages and nobody
\* is at it: take the whole list, holding flushed_release_lock.
TakeFlushed(b) ==
    /\ ipc[b] = "start"
    /\ flushed_not_released # <<>>
    /\ ~releasing_in_progress
    /\ taken' = flushed_not_released
    /\ flushed_not_released' = <<>>
    /\ releasing_in_progress' = TRUE
    /\ Goto(b, "release")
    /\ UNCHANGED <<slotVars, indexVars, segVars, statusVars, heap, irow, islot,
                   iidx, ineed, inew, flushVars, searchVars, vacVars, histVars>>

SkipRelease(b) ==
    /\ ipc[b] = "start"
    /\ flushed_not_released = <<>> \/ releasing_in_progress
    /\ Goto(b, "loop")
    /\ UNCHANGED <<slotVars, indexVars, relVars, segVars, statusVars, heap,
                   irow, islot, iidx, ineed, inew, flushVars, searchVars,
                   vacVars, histVars>>

\* ReleaseStatusMemtable for the first n sids taken.
ReleaseStatus(n) ==
    LET gone == {taken[k] : k \in 1 .. n} IN
    /\ status_sids' = status_sids \ gone
    /\ status_rows' = {e \in status_rows : e[1] \notin gone}

\* All of them are released, then unlock and clear the flag.
ReleaseFlushed(b) ==
    /\ ipc[b] = "release"
    /\ ReleaseStatus(Len(taken))
    /\ taken' = <<>>
    /\ releasing_in_progress' = FALSE
    /\ Goto(b, "loop")
    /\ UNCHANGED <<slotVars, indexVars, flushed_not_released, segVars, heap,
                   irow, islot, iidx, ineed, inew, flushVars, searchVars,
                   vacVars, histVars>>

\* reserve_slot under mt_lock (shared) succeeds on the growing memtable while
\* fewer than `limit' slots have been handed out.
ReserveBelow(b, limit) ==
    LET g == growing_memtable_idx IN
    /\ ipc[b] = "loop"
    /\ g \in Slot
    /\ ~sealed[g]
    /\ current_size[g] < limit
    /\ current_size' = [current_size EXCEPT ![g] = @ + 1]
    /\ islot' = [islot EXCEPT ![b] = g]
    /\ iidx' = [iidx EXCEPT ![b] = current_size[g]]
    /\ Goto(b, "write")
    /\ UNCHANGED <<ref_count, memtable_id, sealed, flush_claimed, tids, ready,
                   bitmap, indexVars, relVars, segVars, statusVars, heap, irow,
                   ineed, inew, flushVars, searchVars, vacVars, histVars>>

Reserve(b) == ReserveBelow(b, Capacity)

\* reserve_slot fails: already sealed, or the first caller past the last
\* slot, which seals the memtable.
ReserveFull(b) ==
    LET g == growing_memtable_idx IN
    /\ ipc[b] = "loop"
    /\ g \in Slot
    /\ \/ /\ sealed[g]
          /\ UNCHANGED <<current_size, sealed>>
       \/ /\ ~sealed[g]
          /\ current_size[g] >= Capacity
          /\ current_size' = [current_size EXCEPT ![g] = @ + 1]
          /\ sealed' = [sealed EXCEPT ![g] = TRUE]
    /\ ineed' = [ineed EXCEPT ![b] = TRUE]
    /\ Goto(b, "rotate")
    /\ UNCHANGED <<ref_count, memtable_id, flush_claimed, tids, ready, bitmap,
                   indexVars, relVars, segVars, statusVars, heap, irow, islot,
                   iidx, inew, flushVars, searchVars, vacVars, histVars>>

\* No growing memtable: rotate_growing_memtable(need_enqueue = false).
NoGrowing(b) ==
    /\ ipc[b] = "loop"
    /\ growing_memtable_idx = MT_IDX_INVALID
    /\ ineed' = [ineed EXCEPT ![b] = FALSE]
    /\ Goto(b, "rotate")
    /\ UNCHANGED <<slotVars, indexVars, relVars, segVars, statusVars, heap,
                   irow, islot, iidx, inew, flushVars, searchVars, vacVars,
                   histVars>>

\* The row's tid goes into the reserved slot and, with WAL, onto the
\* memtable's status page.  AddToStatusMemtable fails if the memtable is no
\* longer registered.
WriteRow(b) ==
    LET m == memtable_id[islot[b]] IN
    /\ ipc[b] = "write"
    /\ m \in status_sids
    /\ tids' = [tids EXCEPT ![islot[b]][iidx[b]] = irow[b]]
    /\ status_rows' = status_rows \cup {<<m, irow[b]>>}
    /\ Goto(b, "publish")
    /\ UNCHANGED <<ref_count, memtable_id, current_size, sealed, flush_claimed,
                   ready, bitmap, indexVars, relVars, segVars, status_sids,
                   heap, irow, islot, iidx, ineed, inew, flushVars, searchVars,
                   vacVars, histVars>>

\* publish_slot_release, and the insert returns: the row is committed.
Publish(b) ==
    /\ ipc[b] = "publish"
    /\ ready' = [ready EXCEPT ![islot[b]] = @ \cup {iidx[b]}]
    /\ heap' = [heap EXCEPT ![irow[b]] = "live"]
    /\ Goto(b, "idle")
    /\ UNCHANGED <<ref_count, memtable_id, current_size, sealed, flush_claimed,
                   tids, bitmap, indexVars, relVars, segVars, statusVars, irow,
                   islot, iidx, ineed, inew, flushVars, searchVars, vacVars,
                   histVars>>

\* rotate_growing_memtable, first critical section: wait for another rotation,
\* return if there is nothing to rotate, or become the rotator.
RotateIf(b, go) ==
    LET g == growing_memtable_idx IN
    /\ ipc[b] = "rotate"
    /\ \/ /\ g = MT_IDX_ROTATING
          /\ Goto(b, "rotwait")
          /\ UNCHANGED <<growing_memtable_idx, islot, orphans>>
       \/ /\ g # MT_IDX_ROTATING
          /\ ~go
          /\ Goto(b, "loop")
          /\ UNCHANGED <<growing_memtable_idx, islot, orphans>>
       \/ /\ g # MT_IDX_ROTATING
          /\ go
          /\ growing_memtable_idx' = MT_IDX_ROTATING
          /\ islot' = [islot EXCEPT ![b] = g]
          /\ orphans' = IF ~ineed[b] /\ g \in Slot THEN orphans \cup {g}
                                                  ELSE orphans
          /\ Goto(b, "alloc")
    /\ UNCHANGED <<slotVars, memtable_idxs, memtable_count, next_segment_id,
                   relVars, segVars, statusVars, heap, irow, iidx, ineed, inew,
                   flushVars, searchVars, vacVars, unswept, eleft>>

\* Deviation: the "if not sealed, no need to rotate" return is missing.
RotateBegin_Unchecked(b) == RotateIf(b, TRUE)

\* With need_enqueue the current growing memtable is rotated only if sealed;
\* without it, whatever growing_memtable_idx is by now is overwritten.
RotateBegin(b) == RotateIf(b, ineed[b] => sealed[growing_memtable_idx])

\* Another rotation was in progress: spin until it is over.
RotateWait(b) ==
    /\ ipc[b] = "rotwait"
    /\ growing_memtable_idx # MT_IDX_ROTATING
    /\ Goto(b, "loop")
    /\ UNCHANGED <<slotVars, indexVars, relVars, segVars, statusVars, heap,
                   irow, islot, iidx, ineed, inew, flushVars, searchVars,
                   vacVars, histVars>>

\* register_and_set_memtable: compare-and-swap ref_count 0 -> 1 on a free
\* slot, a fresh id, counters and bitmap reset.  tids keeps what the slot's
\* previous memtable left there.
SetMemtable(s) ==
    /\ ref_count[s] = 0
    /\ ref_count' = [ref_count EXCEPT ![s] = 1]
    /\ memtable_id' = [memtable_id EXCEPT ![s] = next_segment_id]
    /\ next_segment_id' = next_segment_id + 1
    /\ current_size' = [current_size EXCEPT ![s] = 0]
    /\ sealed' = [sealed EXCEPT ![s] = FALSE]
    /\ flush_claimed' = [flush_claimed EXCEPT ![s] = FALSE]
    /\ ready' = [ready EXCEPT ![s] = {}]
    /\ bitmap' = [bitmap EXCEPT ![s] = {}]
    /\ UNCHANGED tids

\* allocate_new_growing_memtable, RegisterStatusMemtable included.
RotateAlloc(b) ==
    /\ ipc[b] = "alloc"
    /\ \E s \in Slot :
          /\ SetMemtable(s)
          /\ inew' = [inew EXCEPT ![b] = s]
    /\ status_sids' = status_sids \cup {next_segment_id}
    /\ Goto(b, IF ineed[b] THEN "enqueue" ELSE "install")
    /\ UNCHANGED <<growing_memtable_idx, memtable_idxs, memtable_count, relVars,
                   segVars, status_rows, heap, irow, islot, iidx, ineed,
                   flushVars, searchVars, vacVars, histVars>>

\* enqueue_sealed_memtable, which waits while the queue is full.
RotateEnqueue(b) ==
    /\ ipc[b] = "enqueue"
    /\ memtable_count < MEMTABLE_NUM
    /\ memtable_idxs' = [memtable_idxs EXCEPT ![memtable_count] = islot[b]]
    /\ memtable_count' = memtable_count + 1
    /\ Goto(b, "install")
    /\ UNCHANGED <<slotVars, growing_memtable_idx, next_segment_id, relVars,
                   segVars, statusVars, heap, irow, islot, iidx, ineed, inew,
                   flushVars, searchVars, vacVars, histVars>>

\* rotate_growing_memtable, last critical section; back to the insert loop.
RotateInstall(b) ==
    /\ ipc[b] = "install"
    /\ growing_memtable_idx' = inew[b]
    /\ Goto(b, "loop")
    /\ UNCHANGED <<slotVars, memtable_idxs, memtable_count, next_segment_id,
                   relVars, segVars, statusVars, heap, irow, islot, iidx, ineed,
                   inew, flushVars, searchVars, vacVars, histVars>>

\* ereport(ERROR) out of an insert: the transaction aborts, its row is dead,
\* LWLocks are released and nothing else is undone.  The status page code can
\* raise it while releasing (some sids are released by then, the others
\* forgotten), while writing (the tid is in the slot, and may or may not be on
\* the page) and while registering a new memtable.
InsertError(b) ==
    /\ eleft > 0
    /\ eleft' = eleft - 1
    /\ heap' = [heap EXCEPT ![irow[b]] = "dead"]
    /\ Goto(b, "idle")
    /\ \/ /\ ipc[b] = "release"
          /\ \E n \in 0 .. Len(taken) - 1 : ReleaseStatus(n)
          /\ taken' = <<>>
          /\ UNCHANGED <<slotVars, next_segment_id, orphans>>
       \/ /\ ipc[b] = "write"
          /\ tids' = [tids EXCEPT ![islot[b]][iidx[b]] = irow[b]]
          /\ status_rows' \in
                {status_rows,
                 status_rows \cup {<<memtable_id[islot[b]], irow[b]>>}}
          /\ UNCHANGED <<ref_count, memtable_id, current_size, sealed,
                         flush_claimed, ready, bitmap, next_segment_id, taken,
                         status_sids, orphans>>
       \/ /\ ipc[b] = "alloc"
          /\ \E s \in Slot :
                /\ SetMemtable(s)
                /\ orphans' = orphans \cup {s} \cup
                                 (IF ineed[b] THEN {islot[b]} ELSE {})
          /\ UNCHANGED <<statusVars, taken>>
    /\ UNCHANGED <<growing_memtable_idx, memtable_idxs, memtable_count,
                   flushed_not_released, releasing_in_progress, segVars, irow,
                   islot, iidx, ineed, inew, flushVars, searchVars, vacVars,
                   unswept>>

-----------------------------------------------------------------------------
(* lsm_flush_one_pending.                                                  *)

\* claim_immutable_for_flush takes the first unclaimed sealed memtable and
\* sets flush_claimed; the worker raises ERROR if it is not sealed, then takes
\* the vacuum_lock (shared).
FlushClaim ==
    /\ fpc = "idle"
    /\ \E p \in Position :
          /\ p < memtable_count
          /\ ~flush_claimed[memtable_idxs[p]]
          /\ \A q \in 0 .. p - 1 : flush_claimed[memtable_idxs[q]]
          /\ sealed[memtable_idxs[p]]
          /\ flush_claimed' = [flush_claimed EXCEPT ![memtable_idxs[p]] = TRUE]
          /\ fslot' = memtable_idxs[p]
    /\ fpc' = "wait"
    /\ UNCHANGED <<ref_count, memtable_id, current_size, sealed, tids, ready,
                   bitmap, indexVars, relVars, segVars, statusVars, heap,
                   insVars, searchVars, vacVars, histVars>>

\* prepare_for_flushing and flush_segment_to_disk: the segment's files, made of
\* the given slots of the memtable less those masked in its bitmap.
FlushFiles(idxs) ==
    LET m == memtable_id[fslot] IN
    /\ disk_sids' = disk_sids \cup {m}
    /\ disk_rows' = disk_rows \cup
          {<<m, tids[fslot][i]>> : i \in idxs \ bitmap[fslot]}
    /\ fpc' = "written"
    /\ UNCHANGED <<slotVars, indexVars, relVars, pool_sids, pool_rows,
                   statusVars, heap, insVars, fslot, searchVars, vacVars,
                   histVars>>

\* Deviation: no wait_for_publish.
FlushWrite_NoWait == fpc = "wait" /\ FlushFiles(Valid(fslot))

\* Deviation: the last slot is left out.
FlushWrite_Short ==
    /\ fpc = "wait"
    /\ ready[fslot] = Valid(fslot)
    /\ FlushFiles(Valid(fslot) \ {Capacity - 1})

\* wait_for_publish is over: every slot handed out has been published.
FlushWrite ==
    /\ fpc = "wait"
    /\ ready[fslot] = Valid(fslot)
    /\ FlushFiles(Valid(fslot))

\* Deviation: the worker is not told of the new segment.
FlushRegister_Skipped ==
    /\ fpc = "written"
    /\ fpc' = "registered"
    /\ UNCHANGED <<slotVars, indexVars, relVars, segVars, statusVars, heap,
                   insVars, fslot, searchVars, vacVars, histVars>>

\* SEGMENT_UPDATE_REGULAR: the vector index worker loads the segment's latest
\* files into its pool, and the flusher waits for it.
FlushRegister ==
    LET m == memtable_id[fslot] IN
    /\ fpc = "written"
    /\ pool_sids' = pool_sids \cup {m}
    /\ pool_rows' = pool_rows \cup {e \in disk_rows : e[1] = m}
    /\ fpc' = "registered"
    /\ UNCHANGED <<slotVars, indexVars, relVars, disk_sids, disk_rows,
                   statusVars, heap, insVars, fslot, searchVars, vacVars,
                   histVars>>

\* Remember that the status pages may drop this memtable.  A full array only
\* gets a WARNING.
FlushTrack ==
    /\ fpc = "registered"
    /\ ~ReleaseLockHeld
    /\ flushed_not_released' =
          IF Len(flushed_not_released) < MEMTABLE_NUM
          THEN Append(flushed_not_released, memtable_id[fslot])
          ELSE flushed_not_released
    /\ fpc' = "tracked"
    /\ UNCHANGED <<slotVars, indexVars, taken, releasing_in_progress, segVars,
                   statusVars, heap, insVars, fslot, searchVars, vacVars,
                   histVars>>

\* Deviation: the memtable is not taken off the queue.
FlushUnlink_Forgets ==
    /\ fpc = "tracked"
    /\ fpc' = "unlinked"
    /\ UNCHANGED <<slotVars, indexVars, relVars, segVars, statusVars, heap,
                   insVars, fslot, searchVars, vacVars, histVars>>

\* handoff_unlink removes the memtable from the queue and closes the gap.
FlushUnlink ==
    /\ fpc = "tracked"
    /\ \E p \in Position :
          /\ p < memtable_count
          /\ memtable_idxs[p] = fslot
          /\ \A q \in 0 .. p - 1 : memtable_idxs[q] # fslot
          /\ memtable_idxs' =
                [q \in Position |-> IF p <= q /\ q + 1 < memtable_count
                                    THEN memtable_idxs[q + 1]
                                    ELSE memtable_idxs[q]]
    /\ memtable_count' = memtable_count - 1
    /\ fpc' = "unlinked"
    /\ UNCHANGED <<slotVars, growing_memtable_idx, next_segment_id, relVars,
                   segVars, statusVars, heap, insVars, fslot, searchVars,
                   vacVars, histVars>>

\* Deviation: release_memtable_slot is not called.
FlushRelease_Leaks ==
    /\ fpc = "unlinked"
    /\ fpc' = "released"
    /\ UNCHANGED <<slotVars, indexVars, relVars, segVars, statusVars, heap,
                   insVars, fslot, searchVars, vacVars, histVars>>

\* release_memtable_slot: the index's own reference is given back.
FlushRelease ==
    /\ fpc = "unlinked"
    /\ ref_count' = [ref_count EXCEPT ![fslot] = @ - 1]
    /\ fpc' = "released"
    /\ UNCHANGED <<memtable_id, current_size, sealed, flush_claimed, tids,
                   ready, bitmap, indexVars, relVars, segVars, statusVars, heap,
                   insVars, fslot, searchVars, vacVars, histVars>>

\* Only now is the vacuum_lock released.
FlushUnlock ==
    /\ fpc = "released"
    /\ fpc' = "idle"
    /\ fslot' = NoSlot
    /\ UNCHANGED <<slotVars, indexVars, relVars, segVars, statusVars, heap,
                   insVars, searchVars, vacVars, histVars>>

-----------------------------------------------------------------------------
(* search_lsm_index, and vector_search in the vector index worker.         *)

SearchBegin(x) ==
    /\ spc[x] = "idle"
    /\ spc' = [spc EXCEPT ![x] = "snap"]
    /\ UNCHANGED <<slotVars, indexVars, relVars, segVars, statusVars, heap,
                   insVars, flushVars, sgrow, smid, pins, found, expect, wdone,
                   vacVars, histVars>>

\* The snapshot under mt_lock (shared), retried until there is a growing
\* memtable: the memtables in `seen' are recorded and get `ref' references
\* each.  vector_search_send follows.
Snapshot(x, seen, ref) ==
    /\ spc[x] = "snap"
    /\ growing_memtable_idx \in Slot
    /\ ref_count' = [s \in Slot |-> IF s \in seen THEN ref_count[s] + ref
                                                 ELSE ref_count[s]]
    /\ sgrow' = [sgrow EXCEPT ![x] = growing_memtable_idx]
    /\ smid' = [smid EXCEPT ![x] =
                  [s \in Slot |-> IF s \in seen THEN memtable_id[s] ELSE 0]]
    /\ pins' = [pins EXCEPT ![x] = seen]
    /\ found' = [found EXCEPT ![x] = {}]
    /\ expect' = [expect EXCEPT ![x] = {r \in Row : heap[r] = "live"}]
    /\ wdone' = [wdone EXCEPT ![x] = FALSE]
    /\ spc' = [spc EXCEPT ![x] = "growing"]
    /\ UNCHANGED <<memtable_id, current_size, sealed, flush_claimed, tids,
                   ready, bitmap, indexVars, relVars, segVars, statusVars, heap,
                   insVars, flushVars, vacVars, histVars>>

\* What the snapshot covers: the growing memtable and the sealed ones.
SnapshotSlots == {growing_memtable_idx} \cup {s \in Slot : InQueue(s)}

\* Deviation: the snapshot takes no references.
SearchSnapshot_Unpinned(x) == Snapshot(x, SnapshotSlots, 0)

\* Deviation: the sealed memtables are left out.
SearchSnapshot_GrowingOnly(x) == Snapshot(x, {growing_memtable_idx}, 1)

SearchSnapshot(x) == Snapshot(x, SnapshotSlots, 1)

\* The rows a search of slot s returns: only published ones if check_ready.
Hits(s, check_ready) ==
    {tids[s][i] : i \in {j \in Valid(s) \ bitmap[s] :
                            check_ready => j \in ready[s]}}

\* The worker, at any time after the task is sent, searches the segments of
\* its pool that the snapshot does not cover.
WorkerSearch(x) ==
    /\ spc[x] \in {"growing", "sealed"}
    /\ ~wdone[x]
    /\ found' = [found EXCEPT ![x] = @ \cup
                   {e[2] : e \in {p \in pool_rows :
                                     \A s \in Slot : smid[x][s] # p[1]}}]
    /\ wdone' = [wdone EXCEPT ![x] = TRUE]
    /\ UNCHANGED <<slotVars, indexVars, relVars, segVars, statusVars, heap,
                   insVars, flushVars, spc, sgrow, smid, pins, expect, vacVars,
                   histVars>>

\* Search slot s, then drop its reference.
SearchSlot(x, s, check_ready) ==
    /\ found' = [found EXCEPT ![x] = @ \cup Hits(s, check_ready)]
    /\ ref_count' = [ref_count EXCEPT ![s] = @ - 1]
    /\ pins' = [pins EXCEPT ![x] = @ \ {s}]
    /\ UNCHANGED <<memtable_id, current_size, sealed, flush_claimed, tids,
                   ready, bitmap, indexVars, relVars, segVars, statusVars, heap,
                   insVars, flushVars, sgrow, smid, expect, wdone, vacVars,
                   histVars>>

SearchGrowing(x) ==
    /\ spc[x] = "growing"
    /\ SearchSlot(x, sgrow[x], TRUE)
    /\ spc' = [spc EXCEPT ![x] = "sealed"]

\* The sealed memtables of the snapshot, without a look at ready.  Their
\* order only matters for the order of equal distances.
SearchSealed(x) ==
    /\ spc[x] = "sealed"
    /\ \E s \in pins[x] : SearchSlot(x, s, FALSE)
    /\ UNCHANGED spc

\* vector_search_get_result has the worker's rows: the search returns.
SearchReturn(x) ==
    /\ spc[x] = "sealed"
    /\ pins[x] = {}
    /\ wdone[x]
    /\ spc' = [spc EXCEPT ![x] = "done"]
    /\ UNCHANGED <<slotVars, indexVars, relVars, segVars, statusVars, heap,
                   insVars, flushVars, sgrow, smid, pins, found, expect, wdone,
                   vacVars, histVars>>

SearchReset(x) ==
    /\ spc' = [spc EXCEPT ![x] = "idle"]
    /\ sgrow' = [sgrow EXCEPT ![x] = NoSlot]
    /\ smid' = [smid EXCEPT ![x] = [s \in Slot |-> 0]]
    /\ pins' = [pins EXCEPT ![x] = {}]
    /\ found' = [found EXCEPT ![x] = {}]
    /\ expect' = [expect EXCEPT ![x] = {}]
    /\ wdone' = [wdone EXCEPT ![x] = FALSE]

\* The backend goes on to its next statement.
SearchEnd(x) ==
    /\ spc[x] = "done"
    /\ SearchReset(x)
    /\ UNCHANGED <<slotVars, indexVars, relVars, segVars, statusVars, heap,
                   insVars, flushVars, vacVars, histVars>>

\* Deviation: no PG_CATCH, as before it was added.
SearchError_Leaks(x) ==
    /\ spc[x] \in {"growing", "sealed"}
    /\ eleft > 0
    /\ eleft' = eleft - 1
    /\ SearchReset(x)
    /\ UNCHANGED <<slotVars, indexVars, relVars, segVars, statusVars, heap,
                   insVars, flushVars, vacVars, orphans, unswept>>

\* ereport(ERROR) during a search: PG_CATCH drops every reference left.
SearchError(x) ==
    /\ spc[x] \in {"growing", "sealed"}
    /\ eleft > 0
    /\ eleft' = eleft - 1
    /\ ref_count' = [s \in Slot |-> IF s \in pins[x] THEN ref_count[s] - 1
                                                    ELSE ref_count[s]]
    /\ SearchReset(x)
    /\ UNCHANGED <<memtable_id, current_size, sealed, flush_claimed, tids,
                   ready, bitmap, indexVars, relVars, segVars, statusVars, heap,
                   insVars, flushVars, vacVars, orphans, unswept>>

-----------------------------------------------------------------------------
(* The heap, and bulk_delete_lsm_index.                                    *)

\* A committed row is deleted.  With no VACUUM to come nobody would notice.
DeleteRow(r) ==
    /\ vleft > 0
    /\ heap[r] = "live"
    /\ heap' = [heap EXCEPT ![r] = "dead"]
    /\ UNCHANGED <<slotVars, indexVars, relVars, segVars, statusVars, insVars,
                   flushVars, searchVars, vacVars, histVars>>

\* VACUUM has collected the dead TIDs of the heap and calls ambulkdelete.
VacuumBegin ==
    /\ vpc = "idle"
    /\ vleft > 0
    /\ vleft' = vleft - 1
    /\ doomed' = {r \in Row : heap[r] = "dead"}
    /\ vids' = {}
    /\ vgrow' = 0
    /\ vpc' = "grow"
    /\ UNCHANGED <<slotVars, indexVars, relVars, segVars, statusVars, heap,
                   insVars, flushVars, searchVars, vslot, vmid, histVars>>

\* Take a reference, under mt_lock, to the memtable to vacuum next.
VacuumPin(s) ==
    /\ ref_count' = [ref_count EXCEPT ![s] = @ + 1]
    /\ vslot' = s
    /\ vmid' = memtable_id[s]
    /\ vpc' = "mark"

\* Step 1: pin the growing memtable, if there is one right now; otherwise
\* growing_memtable_id stays 0.
VacuumPinGrowing ==
    LET g == growing_memtable_idx IN
    /\ vpc = "grow"
    /\ \/ /\ g \in Slot
          /\ VacuumPin(g)
          /\ vgrow' = memtable_id[g]
          /\ UNCHANGED unswept
       \/ /\ g \notin Slot
          /\ vpc' = "pick"
          /\ unswept' = unswept \cup doomed
          /\ UNCHANGED <<ref_count, vslot, vmid, vgrow>>
    /\ UNCHANGED <<memtable_id, current_size, sealed, flush_claimed, tids,
                   ready, bitmap, indexVars, relVars, segVars, statusVars, heap,
                   insVars, flushVars, searchVars, vids, doomed, vleft, orphans,
                   eleft>>

\* Step 2: pin the last sealed memtable whose id is in `older' and not done
\* yet, or go on to the segments.
VacuumPick(older) ==
    LET Todo(p) == /\ p < memtable_count
                   /\ memtable_id[memtable_idxs[p]] \in older \ vids
    IN
    /\ vpc = "pick"
    /\ \/ \E p \in Position :
             /\ Todo(p)
             /\ \A q \in Position : q > p => ~Todo(q)
             /\ VacuumPin(memtable_idxs[p])
       \/ /\ \A p \in Position : ~Todo(p)
          /\ vpc' = "segments"
          /\ UNCHANGED <<ref_count, vslot, vmid>>
    /\ UNCHANGED <<memtable_id, current_size, sealed, flush_claimed, tids,
                   ready, bitmap, indexVars, relVars, segVars, statusVars, heap,
                   insVars, flushVars, searchVars, vgrow, vids, doomed, vleft,
                   histVars>>

\* Deviation: the comparison with growing_memtable_id is the wrong way round.
VacuumPinSealed_Newer == VacuumPick({m \in 1 .. next_segment_id : m > vgrow})

\* Only memtables older than the growing one of step 1.
VacuumPinSealed == VacuumPick(0 .. vgrow - 1)

\* Under the vacuum_lock (exclusive): mark the dead rows of the pinned
\* memtable in its bitmap and take them off the status page.  Step 1 looks at
\* published slots only, step 2 at every slot handed out.  If the memtable
\* has been flushed meanwhile the bitmap also goes to disk, and the worker is
\* told with expected_version 0, which no segment has: it answers RETRY, and
\* the answer is not looked at.
VacuumMark ==
    LET s == vslot
        hit == {i \in Valid(s) : /\ vmid = vgrow => i \in ready[s]
                                 /\ tids[s][i] \in doomed}
        gone == {tids[s][i] : i \in hit}
        marked == {tids[s][i] : i \in Valid(s) \cap (bitmap[s] \cup hit)}
    IN
    /\ vpc = "mark"
    /\ memtable_id[s] = vmid
    /\ ~FlusherLocks(s)
    /\ bitmap' = [bitmap EXCEPT ![s] = @ \cup hit]
    /\ status_rows' = {e \in status_rows : e[1] # vmid \/ e[2] \notin gone}
    /\ disk_rows' = IF hit # {} /\ vmid \in disk_sids
                    THEN {e \in disk_rows : e[1] # vmid \/ e[2] \notin marked}
                    ELSE disk_rows
    /\ vpc' = "unpin"
    /\ UNCHANGED <<ref_count, memtable_id, current_size, sealed, flush_claimed,
                   tids, ready, indexVars, relVars, disk_sids, pool_sids,
                   pool_rows, status_sids, heap, insVars, flushVars, searchVars,
                   vslot, vmid, vgrow, vids, doomed, vleft, histVars>>

VacuumUnpin ==
    /\ vpc = "unpin"
    /\ ref_count' = [ref_count EXCEPT ![vslot] = @ - 1]
    /\ vids' = vids \cup {vmid}
    /\ vslot' = NoSlot
    /\ vmid' = 0
    /\ vpc' = "pick"
    /\ UNCHANGED <<memtable_id, current_size, sealed, flush_claimed, tids,
                   ready, bitmap, indexVars, relVars, segVars, statusVars, heap,
                   insVars, flushVars, searchVars, vgrow, doomed, vleft,
                   histVars>>

\* Step 3: every segment on disk whose memtable was not vacuumed above gets
\* a new bitmap, on disk and in the pool if it is loaded.
VacuumSegments ==
    LET Keep(e) == e[1] \in vids \/ e[2] \notin doomed IN
    /\ vpc = "segments"
    /\ disk_rows' = {e \in disk_rows : Keep(e)}
    /\ pool_rows' = {e \in pool_rows : Keep(e)}
    /\ vpc' = "done"
    /\ UNCHANGED <<slotVars, indexVars, relVars, disk_sids, pool_sids,
                   statusVars, heap, insVars, flushVars, searchVars, vslot, vmid,
                   vgrow, vids, doomed, vleft, histVars>>

\* ambulkdelete returns: the heap may reuse the line pointers.
VacuumEnd ==
    /\ vpc = "done"
    /\ heap' = [r \in Row |-> IF r \in doomed THEN "gone" ELSE heap[r]]
    /\ vpc' = "idle"
    /\ doomed' = {}
    /\ vids' = {}
    /\ vgrow' = 0
    /\ UNCHANGED <<slotVars, indexVars, relVars, segVars, statusVars, insVars,
                   flushVars, searchVars, vslot, vmid, vleft, histVars>>

-----------------------------------------------------------------------------

Insert(b) ==
    \/ InsertBegin(b) \/ TakeFlushed(b) \/ SkipRelease(b) \/ ReleaseFlushed(b)
    \/ Reserve(b) \/ ReserveFull(b) \/ NoGrowing(b) \/ WriteRow(b) \/ Publish(b)
    \/ RotateBegin(b) \/ RotateWait(b) \/ RotateAlloc(b) \/ RotateEnqueue(b)
    \/ RotateInstall(b)

Flush ==
    \/ FlushClaim \/ FlushWrite \/ FlushRegister \/ FlushTrack \/ FlushUnlink
    \/ FlushRelease \/ FlushUnlock

Search(x) ==
    \/ SearchBegin(x) \/ SearchSnapshot(x) \/ WorkerSearch(x)
    \/ SearchGrowing(x) \/ SearchSealed(x) \/ SearchReturn(x) \/ SearchEnd(x)

Vacuum ==
    \/ VacuumBegin \/ VacuumPinGrowing \/ VacuumPinSealed \/ VacuumMark
    \/ VacuumUnpin \/ VacuumSegments \/ VacuumEnd

Next ==
    \/ \E b \in Backend : Insert(b) \/ InsertError(b)
    \/ Flush
    \/ \E x \in Searcher : Search(x) \/ SearchError(x)
    \/ \E r \in Row : DeleteRow(r)
    \/ Vacuum

Spec == Init /\ [][Next]_vars

\* Every process that has started an operation goes on with it; nobody is
\* obliged to start one.  LWLocks are granted in turn and every wait is a
\* sleep-and-retry loop of the process itself, so weak fairness of each
\* process is what the operating system's scheduler gives.
InsertStep(b) ==
    \/ TakeFlushed(b) \/ SkipRelease(b) \/ ReleaseFlushed(b) \/ Reserve(b)
    \/ ReserveFull(b) \/ NoGrowing(b) \/ WriteRow(b) \/ Publish(b)
    \/ RotateBegin(b) \/ RotateWait(b) \/ RotateAlloc(b) \/ RotateEnqueue(b)
    \/ RotateInstall(b)

SearchStep(x) ==
    \/ SearchSnapshot(x) \/ SearchGrowing(x) \/ SearchSealed(x)
    \/ SearchReturn(x) \/ SearchEnd(x)

VacuumStep ==
    \/ VacuumPinGrowing \/ VacuumPinSealed \/ VacuumMark \/ VacuumUnpin
    \/ VacuumSegments \/ VacuumEnd

Fairness ==
    /\ \A b \in Backend : WF_vars(InsertStep(b))
    /\ \A x \in Searcher : WF_vars(SearchStep(x)) /\ WF_vars(WorkerSearch(x))
    /\ WF_vars(Flush)
    /\ WF_vars(VacuumStep)

FairSpec == Spec /\ Fairness

-----------------------------------------------------------------------------
(* Properties.                                                             *)

InsertPc == {"idle", "start", "release", "loop", "write", "publish", "rotate",
             "rotwait", "alloc", "enqueue", "install"}
FlushPc  == {"idle", "wait", "written", "registered", "tracked", "unlinked",
             "released"}
SearchPc == {"idle", "snap", "growing", "sealed", "done"}
VacuumPc == {"idle", "grow", "pick", "mark", "unpin", "segments", "done"}
AnySlot  == Slot \cup {NoSlot}
AnyRow   == Row \cup {NoRow}

SlotTypes ==
    /\ ref_count \in [Slot -> Nat]
    /\ memtable_id \in [Slot -> Nat]
    /\ current_size \in [Slot -> Nat]
    /\ sealed \in [Slot -> BOOLEAN]
    /\ flush_claimed \in [Slot -> BOOLEAN]
    /\ tids \in [Slot -> [Index -> AnyRow]]
    /\ ready \in [Slot -> SUBSET Index]
    /\ bitmap \in [Slot -> SUBSET Index]

IndexTypes ==
    /\ growing_memtable_idx \in Slot \cup {MT_IDX_INVALID, MT_IDX_ROTATING}
    /\ memtable_idxs \in [Position -> AnySlot]
    /\ memtable_count \in 0 .. MEMTABLE_NUM
    /\ next_segment_id \in Nat
    /\ flushed_not_released \in Seq(Nat)
    /\ taken \in Seq(Nat)
    /\ releasing_in_progress \in BOOLEAN

StoreTypes ==
    /\ disk_sids \subseteq Nat
    /\ disk_rows \subseteq Nat \X AnyRow
    /\ pool_sids \subseteq Nat
    /\ pool_rows \subseteq Nat \X AnyRow
    /\ status_sids \subseteq Nat
    /\ status_rows \subseteq Nat \X AnyRow
    /\ heap \in [Row -> {"new", "inserting", "live", "dead", "gone"}]

InsertTypes ==
    /\ ipc \in [Backend -> InsertPc]
    /\ irow \in [Backend -> AnyRow]
    /\ islot \in [Backend -> AnySlot]
    /\ iidx \in [Backend -> Nat]
    /\ ineed \in [Backend -> BOOLEAN]
    /\ inew \in [Backend -> AnySlot]

SearchTypes ==
    /\ spc \in [Searcher -> SearchPc]
    /\ sgrow \in [Searcher -> AnySlot]
    /\ smid \in [Searcher -> [Slot -> Nat]]
    /\ pins \in [Searcher -> SUBSET Slot]
    /\ found \in [Searcher -> SUBSET AnyRow]
    /\ expect \in [Searcher -> SUBSET Row]
    /\ wdone \in [Searcher -> BOOLEAN]

WorkerTypes ==
    /\ fpc \in FlushPc
    /\ fslot \in AnySlot
    /\ vpc \in VacuumPc
    /\ vslot \in AnySlot
    /\ vmid \in Nat
    /\ vgrow \in Nat
    /\ vids \subseteq Nat
    /\ doomed \subseteq Row
    /\ vleft \in Nat
    /\ orphans \subseteq Slot
    /\ unswept \subseteq Row
    /\ eleft \in Nat

\* Every variable has the type its C declaration gives it: in particular no
\* reference count and no queue length runs below zero or past its array.
TypeOK == SlotTypes /\ IndexTypes /\ StoreTypes /\ InsertTypes /\ SearchTypes
             /\ WorkerTypes

\* Backend b is rotating slot s out of, or into, the growing position.
Going(b, s) == ipc[b] \in {"alloc", "enqueue"} /\ ineed[b] /\ islot[b] = s
Coming(b, s) == ipc[b] \in {"enqueue", "install"} /\ inew[b] = s

\* Slot s holds a memtable of the index: the growing one, a sealed one, or
\* the one a rotation is taking out or bringing in.  Searches wait for
\* rotations, so their next snapshot covers it.
Current(s) ==
    \/ growing_memtable_idx = s
    \/ InQueue(s)
    \/ \E b \in Backend : Going(b, s) \/ Coming(b, s)

\* The index itself accounts for one reference to slot s: it is current, a
\* flush has just unlinked it, or nobody will ever give it back.
Owned(s) ==
    \/ Current(s)
    \/ fpc = "unlinked" /\ fslot = s
    \/ s \in orphans

\* The searches that still hold a reference to slot s.
Pinners(s) == {x \in Searcher : s \in pins[x]}

One(P) == IF P THEN 1 ELSE 0

\* The reference count of a slot (register_and_set_memtable,
\* release_memtable_slot, the snapshot, PG_CATCH and the vacuum pins all
\* change it without a common lock) is exact: it is the number of searches
\* that pin it, plus one for a VACUUM on it, plus one for the index's own use.
RefCountExact ==
    \A s \in Slot :
        ref_count[s] =
            Cardinality(Pinners(s)) + One(vslot = s) + One(Owned(s))

\* A slot that a search's snapshot or the VACUUM pins still holds the
\* memtable it held when pinned.  bulk_delete_lsm_index raises ERROR
\* otherwise and its comment says this should not happen.
PinnedStable ==
    /\ \A x \in Searcher : \A s \in pins[x] : memtable_id[s] = smid[x][s]
    /\ vslot \in Slot => memtable_id[vslot] = vmid

\* An inserter between reserve_slot and publish_slot_release pins nothing.
\* All the same its memtable is neither flushed, nor off the status pages
\* (where AddToStatusMemtable would raise ERROR), nor recycled under it, and
\* no other inserter has the same slot.
WriterSafe ==
    \A b \in Backend : ipc[b] \in {"write", "publish"} =>
        LET s == islot[b] IN
        /\ iidx[b] \in Valid(s) \ ready[s]
        /\ memtable_id[s] \in status_sids \ disk_sids
        /\ \A c \in Backend \ {b} :
              ipc[c] \in {"write", "publish"} =>
                  <<islot[c], iidx[c]>> # <<islot[b], iidx[b]>>

\* The flusher's elog(ERROR)s are unreachable: what it claims is sealed, what
\* it unlinks is in the queue.
FlushSound ==
    /\ \A p \in Position : p < memtable_count => sealed[memtable_idxs[p]]
    /\ fpc \in {"wait", "written", "registered", "tracked"} => InQueue(fslot)

\* A row is in reach of the next search: published and not masked in a current
\* memtable, or in a segment of the pool.
Reachable(r) ==
    \/ \E s \in Slot :
          /\ Current(s)
          /\ \E i \in ready[s] \ bitmap[s] : tids[s][i] = r
    \/ \E e \in pool_rows : e[2] = r

\* No committed row that has not been deleted is ever out of reach of the
\* searches, whatever rotations and flushes are under way.
NoRowLost == \A r \in Row : heap[r] = "live" => Reachable(r)

\* A search returns every row that was committed when it took its snapshot
\* and has not been deleted since: the worker skips exactly the segments the
\* snapshot's memtables cover, so a flush cannot hide a row from it.
SearchComplete ==
    \A x \in Searcher : spc[x] = "done" =>
        {r \in expect[x] : heap[r] = "live"} \subseteq found[x]

\* At any moment a crash would leave every committed row on a status page or
\* in a segment file: ReleaseStatusMemtable comes after the segment's files.
Durable ==
    \A r \in Row : heap[r] = "live" =>
        \E e \in status_rows \cup disk_rows : e[2] = r

\* Once VACUUM gives a TID back to the heap no current memtable and no segment
\* file still offers it, provided VACUUM found a growing memtable to start from.
VacuumSweeps ==
    \A r \in Row \ unswept : heap[r] = "gone" =>
        /\ \A e \in disk_rows : e[2] # r
        /\ \A s \in Slot : Current(s) =>
              \A i \in ready[s] \ bitmap[s] : tids[s][i] # r

\* An insert that has started returns.
InsertReturns == \A b \in Backend : ipc[b] = "start" ~> ipc[b] = "idle"

\* A sealed memtable is flushed and its place in the queue is free again.
FlushDrains == \A s \in Slot : InQueue(s) ~> ~InQueue(s)

\* The steps listed above both memtable passes of bulk_delete_lsm_index end in
\* notifying the index worker to update its bitmap: the pool the searches use
\* would not offer a TID that VACUUM gave back.
PoolSwept ==
    \A r \in Row \ unswept : heap[r] = "gone" => \A e \in pool_rows : e[2] # r

-----------------------------------------------------------------------------
(* The inductive invariant behind RefCountExact and PinnedStable: no slot   *)
(* has two of the roles that own a reference at the same time.             *)

\* What a program counter says about the process's other variables.
Shape ==
    /\ \A b \in Backend : /\ ipc[b] \in {"write", "publish"} =>
                                islot[b] \in Slot /\ iidx[b] \in Index
                          /\ ipc[b] = "rotate" /\ ineed[b] =>
                                growing_memtable_idx # MT_IDX_INVALID
                          /\ ipc[b] = "enqueue" => ineed[b]
    /\ fpc # "idle" => fslot \in Slot
    /\ vslot \in Slot <=> vpc \in {"mark", "unpin"}
    /\ \A x \in Searcher : /\ spc[x] = "growing" => sgrow[x] \in pins[x]
                           /\ spc[x] \in {"idle", "snap", "done"} =>
                                pins[x] = {}

\* MT_IDX_ROTATING is a lock: at most one backend rotates.
RotateMutex ==
    /\ \A b \in Backend : Rotating(b) => growing_memtable_idx = MT_IDX_ROTATING
    /\ \A b, c \in Backend : Rotating(b) /\ Rotating(c) => b = c

\* The memtable a flush has taken off the queue but not released yet.
Unlinked(s) == fpc = "unlinked" /\ fslot = s

\* The queue has no slot twice, and what the flusher works on is in it.
QueueInv ==
    /\ \A p \in Position : p < memtable_count => memtable_idxs[p] \in Slot
    /\ \A p, q \in Position :
          /\ p < memtable_count
          /\ q < memtable_count
          /\ memtable_idxs[p] = memtable_idxs[q]
          => p = q
    /\ fpc \in {"wait", "written", "registered", "tracked"} => InQueue(fslot)

\* No slot has two owning roles.
Roles ==
    /\ \A b \in Backend : /\ ipc[b] \in {"alloc", "enqueue"} /\ ineed[b] =>
                                islot[b] \in Slot
                          /\ ipc[b] \in {"enqueue", "install"} =>
                                inew[b] \in Slot
    /\ \A s \in Slot : InQueue(s) =>
          /\ growing_memtable_idx # s
          /\ ~Unlinked(s)
          /\ s \notin orphans
          /\ \A b \in Backend : ~Going(b, s) /\ ~Coming(b, s)
    /\ \A s \in Slot : \A b \in Backend : Going(b, s) \/ Coming(b, s) =>
          ~Unlinked(s) /\ s \notin orphans
    /\ \A s \in Slot : \A b \in Backend : ~(Going(b, s) /\ Coming(b, s))
    /\ \A s \in Slot : Unlinked(s) =>
          growing_memtable_idx # s /\ s \notin orphans
    /\ growing_memtable_idx \notin orphans

\* What is in the queue, or on its way to it, is sealed.
Sealing ==
    \A s \in Slot : InQueue(s) \/ (\E b \in Backend : Going(b, s)) => sealed[s]

\* Together: TypeOK, RefCountExact, PinnedStable and FlushSound follow from it
\* and every step preserves it.
IndInv ==
    /\ TypeOK
    /\ Shape
    /\ RotateMutex
    /\ QueueInv
    /\ Roles
    /\ Sealing
    /\ RefCountExact
    /\ PinnedStable

-----------------------------------------------------------------------------
(* The inductive invariant behind WriterSafe, relative to IndInv: ids are  *)
(* never used twice, only the flusher's memtable is both on disk and in    *)
(* use, and only what is on disk leaves the status pages.                  *)

\* The flusher has written the segment of its memtable and still holds it.
FlushHolds(s) ==
    fslot = s /\ fpc \in {"written", "registered", "tracked", "unlinked"}

\* get_next_segment_id hands out every id once.
FreshIds ==
    /\ next_segment_id > 0
    /\ \A s \in Slot : memtable_id[s] < next_segment_id
    /\ \A s \in Slot : Owned(s) => memtable_id[s] > 0
    /\ \A s, t \in Slot :
          memtable_id[s] = memtable_id[t] /\ memtable_id[s] > 0 => s = t
    /\ \A m \in disk_sids \cup pool_sids : m \in 1 .. next_segment_id - 1
    /\ \A e \in status_rows : e[1] < next_segment_id

\* Published slots have been handed out.
ReadyValid == \A s \in Slot : ready[s] \subseteq Valid(s)

\* A memtable in use has its segment on disk only in the hands of the flusher.
OnDisk ==
    \A s \in Slot : /\ FlushHolds(s) => memtable_id[s] \in disk_sids
                    /\ Owned(s) /\ memtable_id[s] \in disk_sids => FlushHolds(s)

\* The sids waiting to be released from the status pages.
Released == {flushed_not_released[k] : k \in DOMAIN flushed_not_released}
                \cup {taken[k] : k \in DOMAIN taken}

\* They are on disk, and a current memtable leaves the pages in no other way.
Registered ==
    /\ Released \subseteq disk_sids
    /\ \A s \in Slot : Current(s) => memtable_id[s] \in status_sids \cup disk_sids

\* The memtable an inserter writes to stays in use.
WriterOwned ==
    \A b \in Backend : \A s \in Slot :
        ipc[b] \in {"write", "publish"} /\ islot[b] = s => Owned(s)

WriterInv ==
    FreshIds /\ ReadyValid /\ OnDisk /\ Registered /\ WriterOwned /\ WriterSafe

-----------------------------------------------------------------------------
(* The inductive invariant behind VacuumSweeps, relative to both.          *)

\* An inserter owns its row until it returns, and has written it when it is
\* about to publish.
InsertRows ==
    /\ \A b \in Backend : ipc[b] # "idle" =>
          irow[b] \in Row /\ heap[irow[b]] = "inserting"
    /\ \A b, c \in Backend :
          ipc[b] # "idle" /\ ipc[c] # "idle" /\ irow[b] = irow[c] => b = c
    /\ \A b \in Backend : ipc[b] = "publish" =>
          tids[islot[b]][iidx[b]] = irow[b]

\* A segment has no rows but those published in its memtable.
DiskSound ==
    /\ \A e \in disk_rows : e[1] \in disk_sids
    /\ \A s \in Slot : \A r \in AnyRow : <<memtable_id[s], r>> \in disk_rows =>
          \E i \in ready[s] : tids[s][i] = r

\* The growing memtable, or the one about to be installed, has the last id.
Newest ==
    \A s \in Slot :
        growing_memtable_idx = s \/ (\E b \in Backend : Coming(b, s)) =>
            memtable_id[s] = next_segment_id - 1

\* Memtable s offers row r to searches and to the flusher.
Offers(s, r) ==
    Current(s) /\ \E i \in ready[s] \ bitmap[s] : tids[s][i] = r

\* The memtables this VACUUM is done with.
Swept == vids \cup (IF vpc = "unpin" THEN {vmid} ELSE {})

\* VACUUM is past step 1.
PastGrowing == vpc \in {"pick", "mark", "unpin", "segments", "done"}

\* After step 1 what is older than its growing memtable is in the queue or
\* flushed, and that memtable itself is done with or being done.
SweepOrder ==
    /\ vgrow < next_segment_id
    /\ vpc = "grow" => vids = {} /\ vgrow = 0
    /\ PastGrowing => \A s \in Slot :
          Current(s) /\ memtable_id[s] < vgrow => InQueue(s)
    /\ vpc \in {"pick", "segments", "done"} /\ vgrow > 0 => vgrow \in vids
    /\ vpc \in {"mark", "unpin"} /\ vgrow > 0 => vgrow \in vids \cup {vmid}

\* What VACUUM has not swept yet is no younger than the growing memtable of
\* step 1; after step 2 it is in segments only, after step 3 nowhere.
Sweeping ==
    /\ doomed \subseteq {r \in Row : heap[r] = "dead"}
    /\ vpc = "idle" => doomed = {}
    /\ PastGrowing => \A r \in doomed \ unswept :
          /\ vgrow > 0
          /\ \A e \in disk_rows : e[2] = r =>
                e[1] <= vgrow /\ e[1] \notin Swept /\ vpc # "done"
          /\ \A s \in Slot : Offers(s, r) =>
                /\ memtable_id[s] <= vgrow
                /\ memtable_id[s] \notin Swept
                /\ vpc \notin {"segments", "done"}

SweepInv ==
    /\ InsertRows /\ DiskSound /\ Newest
    /\ SweepOrder /\ Sweeping /\ VacuumSweeps

-----------------------------------------------------------------------------
(* Without VACUUM: what becomes of a row, from the tids array to the status *)
(* pages, the segment files and the pool.                                  *)

NoVacuum ==
    /\ vleft = 0
    /\ vpc = "idle"
    /\ \A s \in Slot : bitmap[s] = {}

\* Backend b is about to write slot i of memtable s.
Unwritten(s, i) ==
    \E b \in Backend : ipc[b] = "write" /\ islot[b] = s /\ iidx[b] = i

\* Everything on the page of a memtable is in its tids array, or was when
\* the memtable was flushed; what is about to be published is on the page.
Logged ==
    /\ \A b \in Backend : ipc[b] = "publish" =>
          /\ tids[islot[b]][iidx[b]] = irow[b]
          /\ <<memtable_id[islot[b]], irow[b]>> \in status_rows
    /\ \A s \in Slot : \A r \in AnyRow :
          <<memtable_id[s], r>> \in status_rows =>
              \E i \in Valid(s) : tids[s][i] = r /\ ~Unwritten(s, i)
    /\ \A e \in status_rows : e[1] \in disk_sids => e \in disk_rows

DurableInv == NoVacuum /\ Logged /\ Durable

\* Without ERRORs and with a growing memtable from the start, no memtable is
\* ever left behind.
NoOrphan ==
    /\ eleft = 0
    /\ orphans = {}
    /\ growing_memtable_idx # MT_IDX_INVALID
    /\ \A b \in Backend :
          ipc[b] \in {"rotate", "alloc", "enqueue", "install"} => ineed[b]

\* The segment of a memtable has all the rows published in it, and so has the
\* pool.
SegmentExact ==
    /\ DiskSound
    /\ pool_sids \subseteq disk_sids
    /\ pool_rows \subseteq disk_rows
    /\ \A s \in Slot :
          /\ fslot = s /\ fpc \in {"registered", "tracked", "unlinked"} =>
                memtable_id[s] \in pool_sids
          /\ memtable_id[s] \in disk_sids => \A i \in ready[s] :
                <<memtable_id[s], tids[s][i]>> \in disk_rows
          /\ memtable_id[s] \in pool_sids => \A i \in ready[s] :
                <<memtable_id[s], tids[s][i]>> \in pool_rows

\* A row a search has to return: found already, in a memtable it has yet to
\* search, or left to the worker.
Awaiting(x, r) ==
    \/ r \in found[x]
    \/ \E s \in pins[x] : \E i \in ready[s] : tids[s][i] = r
    \/ ~wdone[x] /\ \E e \in pool_rows :
                       e[2] = r /\ \A s \in Slot : smid[x][s] # e[1]

SearchInv ==
    \A x \in Searcher :
        /\ spc[x] \in {"growing", "sealed"} => \A r \in expect[x] : Awaiting(x, r)
        /\ spc[x] = "done" => expect[x] \subseteq found[x]

ReachInv == NoOrphan /\ SegmentExact /\ NoRowLost /\ SearchInv
=============================================================================
