---------------------------- MODULE SegmentPool ----------------------------
(***************************************************************************)
(* The flushed half of one LSM vector index: the vector index worker's     *)
(* FlushedSegmentPool, the versioned segment files, and the threads that   *)
(* race on them:                                                           *)
(*                                                                         *)
(*   - a maintenance thread that registers what the flusher has written    *)
(*     (SEGMENT_UPDATE_REGULAR) and one that upgrades mmapped segments     *)
(*   - merge threads that rebuild a segment or merge two adjacent ones     *)
(*   - vector_search, with the threads that finish a search for it         *)
(*   - the segment pass of VACUUM in a backend, and the maintenance thread *)
(*     that serves its SEGMENT_UPDATE_VACUUM tasks                         *)
(*                                                                         *)
(* A step is what is done under pool->seg_lock, one atomic operation, or   *)
(* one file operation.  A row is <<sid, k>>: the k-th row of memtable sid. *)
(* Bitmaps are the sets of rows they mask; a file's record carries the     *)
(* bitmap of its latest subversion.  No segment file is ever deleted.      *)
(***************************************************************************)
EXTENDS Integers, FiniteSets

CONSTANTS
    Merger,              \* merge threads
    Searcher,            \* searches under way
    NoThread,            \* a per_seg_mutex nobody holds
    MAX_SEGMENTS_COUNT,  \* slots of the pool
    InitialSid,          \* sids 1 .. InitialSid are in the pool at the start
    LastSid,             \* bound: sids InitialSid + 1 .. LastSid get flushed
    RowsPerSid,          \* rows in each memtable flushed
    ColdStart,           \* TRUE: postgresqlv_mmap_cold_start
    MaxCompactions,      \* bound on the number of rebuilds and merges
    MaxSearches,         \* bound on the number of searches
    MaxVacuums           \* bound on the number of VACUUMs

ASSUME PoolSizeAssumption ==
    /\ MAX_SEGMENTS_COUNT \in Nat
    /\ InitialSid \in Nat \ {0}
    /\ InitialSid <= MAX_SEGMENTS_COUNT
    /\ LastSid \in Nat
    /\ InitialSid <= LastSid
    /\ RowsPerSid \in Nat
    /\ ColdStart \in BOOLEAN
    /\ {MaxCompactions, MaxSearches, MaxVacuums} \subseteq Nat
    /\ IsFiniteSet(Searcher)

\* A mutex tells its owners apart.
ASSUME ThreadAssumption ==
    NoThread \notin Merger \cup {"vacuum"} /\ "vacuum" \notin Merger

VARIABLES
    \* FlushedSegmentPool
    flushed_segments, head_idx, tail_idx, insert_idx,
    \* the directory of segment files
    files,
    \* the heap: rows deleted, and rows VACUUM has given back
    dead, gone,
    \* SEGMENT_UPDATE_REGULAR: thread, segment, reserved slot; sids registered
    rpc, rsid, ridx, registered,
    \* InternalSegmentUpgrade tasks still to run
    upgrades,
    \* merge threads
    mpc, task, compactions,
    \* searches
    spc, cover, pins, drop, found, expect, searches,
    \* VACUUM's segment pass, and the thread serving SEGMENT_UPDATE_VACUUM
    vpc, todo, doomed, vidx, retry, vacuums

listVars   == <<head_idx, tail_idx, insert_idx>>
poolVars   == <<flushed_segments, listVars>>
heapVars   == <<dead, gone>>
regVars    == <<rpc, rsid, ridx, registered>>
mergeVars  == <<mpc, task, compactions>>
searchVars == <<spc, cover, pins, drop, found, expect, searches>>
vacVars    == <<vpc, todo, doomed, vidx, retry, vacuums>>

vars == <<poolVars, files, heapVars, regVars, upgrades, mergeVars, searchVars,
          vacVars>>

Idx  == 0 .. MAX_SEGMENTS_COUNT - 1
NIL  == -1
Sid  == 1 .. LastSid
Row  == Sid \X (1 .. RowsPerSid)
RowsOf(sids) == {r \in Row : r[1] \in sids}

-----------------------------------------------------------------------------
(* The segment files.                                                      *)

File(s, e, v, rows, mask) ==
    [start |-> s, end |-> e, version |-> v, rows |-> rows, mask |-> mask]

Versions(s, e) == {f.version : f \in {g \in files : g.start = s /\ g.end = e}}

\* find_latest_segment_version: 0 if there is no such segment.
LatestVersion(s, e) ==
    CHOOSE v \in Versions(s, e) \cup {0} : \A w \in Versions(s, e) : w <= v

\* The files of version v of segment s-e, with the latest bitmap.
Load(s, e, v) ==
    CHOOSE f \in files : f.start = s /\ f.end = e /\ f.version = v

\* scan_segment_metadata_files: the latest version of every segment that no
\* segment of larger scope makes redundant.
ScanFiles ==
    {[start |-> f.start, end |-> f.end, version |-> f.version] :
        f \in {g \in files :
                 /\ g.version = LatestVersion(g.start, g.end)
                 /\ \A h \in files :
                      /\ h.start <= g.start
                      /\ g.end <= h.end
                      => h.start = g.start /\ h.end = g.end}}

-----------------------------------------------------------------------------
(* The pool.                                                               *)

seg(i) == flushed_segments[i]

EmptySegment ==
    [in_used |-> FALSE, ref_count |-> 0, prev_idx |-> NIL, next_idx |-> NIL,
     start |-> 0, end |-> 0, version |-> 0, rows |-> {}, mask |-> {},
     is_compacting |-> FALSE, load_state |-> "none", mutex |-> NoThread]

\* The slots of the list of segs, walking from slot h to slot t.
Walk(segs, h, t) ==
    LET walk[n \in 0 .. MAX_SEGMENTS_COUNT] ==
            IF n = 0 THEN h
            ELSE IF walk[n - 1] \in {NIL, t} THEN NIL
            ELSE segs[walk[n - 1]].next_idx
    IN {walk[n] : n \in 0 .. MAX_SEGMENTS_COUNT} \ {NIL}

\* The list of the pool goes from head_idx to tail_idx.
Linked == Walk(flushed_segments, head_idx, tail_idx)

\* find_segment_by_sids.
FindBySids(s, e) ==
    LET hits == {i \in Linked : seg(i).in_used /\ seg(i).start = s
                                               /\ seg(i).end = e}
    IN IF hits = {} THEN NIL ELSE CHOOSE i \in hits : TRUE

\* reserve_flushed_segment looks from insert_idx to the end of the array.
ReserveFrom(first) == {i \in Idx : i >= first /\ ~seg(i).in_used}

\* What reserve_flushed_segment returns.
Reserved ==
    LET free == ReserveFrom(insert_idx)
    IN IF free = {} THEN NIL ELSE CHOOSE i \in free : \A j \in free : i <= j

\* cleanup_flushed_segment but for insert_idx: the buffers are freed, the
\* mutex is destroyed and made anew.  The other fields keep their values.
Cleaned(g) ==
    [g EXCEPT !.in_used = FALSE, !.ref_count = 0, !.prev_idx = NIL,
              !.next_idx = NIL, !.rows = {}, !.mask = {}, !.mutex = NoThread]

\* decrement_flushed_segment_ref_count as seen under the write lock.
Dropped(g) ==
    IF g.ref_count = 1 THEN Cleaned(g) ELSE [g EXCEPT !.ref_count = @ - 1]

\* replace_flushed_segments_n, under the write lock: old slots first .. last
\* (the same slot for a rebuild) leave the list, slot i takes their place.
\* The trywrlock of the cleanups fails, so insert_idx is not rewound.
ReplaceInList(first, last, i, new, newtail) ==
    LET p == seg(first).prev_idx
        n == seg(last).next_idx
        in == [new EXCEPT !.ref_count = 1, !.prev_idx = p, !.next_idx = n]
        New(j) == CASE j = i -> in
                    [] j # i /\ j \in {first, last} -> Dropped(seg(j))
                    [] OTHER -> seg(j)
    IN
    /\ flushed_segments' =
          [j \in Idx |->
              IF j = p THEN [New(j) EXCEPT !.next_idx = i]
              ELSE IF j = n THEN [New(j) EXCEPT !.prev_idx = i]
              ELSE New(j)]
    /\ head_idx' = IF head_idx = first THEN i ELSE head_idx
    /\ tail_idx' = newtail

\* Deviation: tail_idx is left alone.
Replace_KeepsTail(first, last, i, new) ==
    ReplaceInList(first, last, i, new, tail_idx)

Replace(first, last, i, new) ==
    ReplaceInList(first, last, i, new,
                  IF tail_idx = last THEN i ELSE tail_idx)

\* register_flushed_segment, under the write lock: slot i goes into the list
\* behind the last segment that starts no later.
Register(i, new) ==
    LET before == {j \in Linked : seg(j).start <= new.start}
        p == IF before = {} THEN NIL
             ELSE CHOOSE j \in before :
                     \A k \in before : seg(k).start <= seg(j).start
        n == IF p = NIL THEN head_idx ELSE seg(p).next_idx
    IN
    /\ flushed_segments' =
          [j \in Idx |->
              CASE j = i -> [new EXCEPT !.ref_count = 1, !.prev_idx = p,
                                        !.next_idx = n]
                [] j # i /\ j = p -> [seg(j) EXCEPT !.next_idx = i]
                [] j # i /\ j = n -> [seg(j) EXCEPT !.prev_idx = i]
                [] OTHER -> seg(j)]
    /\ head_idx' = IF p = NIL THEN i ELSE head_idx
    /\ tail_idx' = IF n = NIL THEN i ELSE tail_idx

\* load_and_set_segment of file f into a slot that held g.
Loaded(g, f, state) ==
    [g EXCEPT !.in_used = TRUE, !.start = f.start, !.end = f.end,
              !.version = f.version, !.rows = f.rows, !.mask = f.mask,
              !.is_compacting = FALSE, !.load_state = state]

\* MergeTaskLocal, with what the thread keeps in local variables: the slots
\* (hi = lo for a rebuild), the range of the new segment, the files it is made
\* from, its rows, bitmap and version, and the slot reserved for it.
NoTask == [lo |-> NIL, hi |-> NIL, start |-> 0, end |-> 0, src |-> {},
           rows |-> {}, mask |-> {}, version |-> 0, new |-> NIL]

-----------------------------------------------------------------------------
(* Initial state: load_all_segments_from_disk, or its mmap variant with its *)
(* upgrade tasks submitted, has loaded one segment per sid.                *)

Init ==
    /\ files = {File(s, s, 1, RowsOf({s}), {}) : s \in 1 .. InitialSid}
    /\ flushed_segments =
          [i \in Idx |->
              IF i < InitialSid
              THEN [Loaded(EmptySegment,
                           File(i + 1, i + 1, 1, RowsOf({i + 1}), {}),
                           IF ColdStart THEN "mmap" ELSE "full")
                       EXCEPT !.ref_count = 1, !.prev_idx = i - 1,
                              !.next_idx = IF i + 1 = InitialSid THEN NIL
                                                                ELSE i + 1]
              ELSE EmptySegment]
    /\ head_idx = 0
    /\ tail_idx = InitialSid - 1
    /\ insert_idx = InitialSid
    /\ dead = {} /\ gone = {}
    /\ rpc = "idle" /\ rsid = InitialSid /\ ridx = NIL
    /\ registered = 1 .. InitialSid
    /\ upgrades = IF ColdStart
                  THEN {[idx |-> i, sid |-> i + 1] : i \in 0 .. InitialSid - 1}
                  ELSE {}
    /\ mpc = [t \in Merger |-> "idle"]
    /\ task = [t \in Merger |-> NoTask]
    /\ compactions = MaxCompactions
    /\ spc = [x \in Searcher |-> "idle"]
    /\ cover = [x \in Searcher |-> {}]
    /\ pins = [x \in Searcher |-> {}]
    /\ drop = [x \in Searcher |-> NIL]
    /\ found = [x \in Searcher |-> {}]
    /\ expect = [x \in Searcher |-> {}]
    /\ searches = MaxSearches
    /\ vpc = "idle" /\ todo = {} /\ doomed = {} /\ vidx = NIL
    /\ retry = FALSE /\ vacuums = MaxVacuums

\* The worker process is there: if it dies the postmaster ends everybody else.
Up == rpc # "crash"

-----------------------------------------------------------------------------
(* lsm_flush_one_pending, SEGMENT_UPDATE_REGULAR and the mmap upgrade.     *)

\* The flusher has written the files of the next memtable and sends the task.
FlushSegment ==
    /\ rpc = "idle"
    /\ rsid < LastSid
    /\ rsid' = rsid + 1
    /\ files' = files \cup {File(rsid', rsid', 1, RowsOf({rsid'}), {})}
    /\ rpc' = "find"
    /\ UNCHANGED <<poolVars, heapVars, ridx, registered, upgrades, mergeVars,
                   searchVars, vacVars>>

\* Dedup under the read lock: a segment already in the pool is not added.
RegularFind ==
    /\ rpc = "find"
    /\ rpc' = IF FindBySids(rsid, rsid) = NIL THEN "reserve" ELSE "idle"
    /\ UNCHANGED <<poolVars, files, heapVars, rsid, ridx, registered, upgrades,
                   mergeVars, searchVars, vacVars>>

\* The result is not checked for -1, which indexes far outside the array: the
\* worker process dies.
RegularReserve ==
    /\ rpc = "reserve"
    /\ \/ /\ Reserved = NIL
          /\ rpc' = "crash"
          /\ UNCHANGED <<flushed_segments, insert_idx, ridx>>
       \/ /\ Reserved # NIL
          /\ ridx' = Reserved
          /\ insert_idx' = Reserved + 1
          /\ flushed_segments' =
                [flushed_segments EXCEPT ![Reserved].in_used = TRUE]
          /\ rpc' = "load"
    /\ UNCHANGED <<head_idx, tail_idx, files, heapVars, rsid, registered,
                   upgrades, mergeVars, searchVars, vacVars>>

RegularLoad ==
    /\ rpc = "load"
    /\ LET f == Load(rsid, rsid, LatestVersion(rsid, rsid)) IN
       flushed_segments' =
          [flushed_segments EXCEPT ![ridx] = Loaded(@, f, "full")]
    /\ rpc' = "register"
    /\ UNCHANGED <<listVars, files, heapVars, rsid, ridx, registered, upgrades,
                   mergeVars, searchVars, vacVars>>

\* Under the write lock; signal_merge_pool wakes a merge thread.
RegularRegister ==
    /\ rpc = "register"
    /\ Register(ridx, seg(ridx))
    /\ registered' = registered \cup {rsid}
    /\ ridx' = NIL
    /\ rpc' = "idle"
    /\ UNCHANGED <<insert_idx, files, heapVars, rsid, upgrades, mergeVars,
                   searchVars, vacVars>>

\* InternalSegmentUpgrade: the full index has been read; all the rest, copying
\* the bitmap included, is done under the write lock but without the
\* segment's per_seg_mutex.  Nothing is done if the slot has changed or no
\* slot is free.
Upgrade(u) ==
    LET g == seg(u.idx) IN
    /\ Up
    /\ upgrades' = upgrades \ {u}
    /\ IF /\ g.in_used
          /\ g.start = u.sid /\ g.end = u.sid
          /\ g.load_state = "mmap"
          /\ Reserved # NIL
       THEN /\ Replace(u.idx, u.idx, Reserved,
                       Loaded(seg(Reserved), g, "full"))
            /\ insert_idx' = Reserved + 1
       ELSE UNCHANGED poolVars
    /\ UNCHANGED <<files, heapVars, regVars, mergeVars, searchVars, vacVars>>

-----------------------------------------------------------------------------
(* merge_worker_thread.                                                    *)

\* Deviation: segments another thread compacts are taken too.
Eligible_Compacting(i) ==
    i # NIL /\ seg(i).in_used /\ seg(i).load_state = "full"

\* What CANDIDATE_OK, the scan and the claim check of a slot.
Eligible(i) ==
    /\ i # NIL
    /\ seg(i).in_used
    /\ ~seg(i).is_compacting
    /\ seg(i).load_state = "full"

vec_count(i) == Cardinality(seg(i).rows)

\* choose_adjacent_smaller_pool: the smaller eligible neighbour, the previous
\* one if they are equal.
Adjacent(i) ==
    LET p == seg(i).prev_idx
        n == seg(i).next_idx
    IN CASE Eligible(p) /\ Eligible(n) ->
              IF vec_count(p) <= vec_count(n) THEN p ELSE n
         [] Eligible(p) /\ ~Eligible(n) -> p
         [] ~Eligible(p) /\ Eligible(n) -> n
         [] OTHER -> NIL

MergeAt(t, label) == Up /\ mpc[t] = label

MergeStep(t, label, k) ==
    /\ mpc' = [mpc EXCEPT ![t] = label]
    /\ task' = [task EXCEPT ![t] = k]

\* traverse_and_check_priority_pool under the read lock.  Sizes, thresholds
\* and the deletion ratio are abstracted: any eligible segment may be due for
\* a merge with its neighbour, any with deleted rows for a rebuild.
MergeScan(t) ==
    /\ MergeAt(t, "idle")
    /\ compactions > 0
    /\ \E i \in Linked :
          /\ Eligible(i)
          /\ \/ /\ seg(i).mask # {}
                /\ MergeStep(t, "claim", [NoTask EXCEPT !.lo = i, !.hi = i])
             \/ LET j == Adjacent(i) IN
                /\ j # NIL
                /\ MergeStep(t, "claim",
                      IF seg(j).start < seg(i).start
                      THEN [NoTask EXCEPT !.lo = j, !.hi = i]
                      ELSE [NoTask EXCEPT !.lo = i, !.hi = j])
    /\ compactions' = compactions - 1
    /\ UNCHANGED <<poolVars, files, heapVars, regVars, upgrades, searchVars,
                   vacVars>>

\* claim_merge_task_pool under the write lock; on failure the scan restarts.
MergeClaim(t) ==
    LET k == task[t] IN
    /\ MergeAt(t, "claim")
    /\ \/ /\ Eligible(k.lo) /\ Eligible(k.hi)
          /\ flushed_segments' =
                [i \in Idx |-> IF i \in {k.lo, k.hi}
                               THEN [seg(i) EXCEPT !.is_compacting = TRUE]
                               ELSE seg(i)]
          /\ MergeStep(t, "load", [k EXCEPT !.start = seg(k.lo).start,
                                            !.end = seg(k.hi).end])
          /\ UNCHANGED compactions
       \/ /\ ~(Eligible(k.lo) /\ Eligible(k.hi))
          /\ MergeStep(t, "idle", NoTask)
          /\ compactions' = compactions + 1
          /\ UNCHANGED flushed_segments
    /\ UNCHANGED <<listVars, files, heapVars, regVars, upgrades, searchVars,
                   vacVars>>

\* Load the latest files of the segments in the slots given and build the new
\* index.  A rebuild leaves out the rows masked by now, a merge keeps them.
MergeBuild(t, slots) ==
    LET k == task[t]
        Source(i) == Load(seg(i).start, seg(i).end,
                          LatestVersion(seg(i).start, seg(i).end))
        src == {Source(i) : i \in slots}
        all == UNION {f.rows : f \in src}
    IN
    /\ MergeAt(t, "load")
    /\ MergeStep(t, "lock",
          [k EXCEPT !.src = {[start |-> f.start, end |-> f.end,
                              version |-> f.version] : f \in src},
                    !.rows = IF k.lo = k.hi THEN all \ Source(k.lo).mask
                                            ELSE all])
    /\ UNCHANGED <<poolVars, files, heapVars, regVars, upgrades, compactions,
                   searchVars, vacVars>>

\* Deviation: the rows of the second segment are not appended.
MergeLoad_First(t) == MergeBuild(t, {task[t].lo})

\* Phases 1 and 2, without a lock.
MergeLoad(t) == MergeBuild(t, {task[t].lo, task[t].hi})

\* Phase 3: the per_seg_mutex of the lower segment, then that of the other.
MergeLock(t) ==
    LET k == task[t] IN
    /\ MergeAt(t, "lock")
    /\ seg(k.lo).mutex = NoThread
    /\ flushed_segments' = [flushed_segments EXCEPT ![k.lo].mutex = t]
    /\ MergeStep(t, IF k.lo = k.hi THEN "reload" ELSE "lock2", k)
    /\ UNCHANGED <<listVars, files, heapVars, regVars, upgrades, compactions,
                   searchVars, vacVars>>

MergeLock2(t) ==
    LET k == task[t] IN
    /\ MergeAt(t, "lock2")
    /\ seg(k.hi).mutex = NoThread
    /\ flushed_segments' = [flushed_segments EXCEPT ![k.hi].mutex = t]
    /\ MergeStep(t, "reload", k)
    /\ UNCHANGED <<listVars, files, heapVars, regVars, upgrades, compactions,
                   searchVars, vacVars>>

\* The new segment's bitmap.
MergeMask(t, mask) ==
    /\ MergeAt(t, "reload")
    /\ MergeStep(t, "write", [task[t] EXCEPT !.mask = mask \cap task[t].rows])
    /\ UNCHANGED <<poolVars, files, heapVars, regVars, upgrades, compactions,
                   searchVars, vacVars>>

\* Deviation: the bitmaps are not reloaded under the mutex; what the pool's
\* copies say is taken instead.
MergeReload_Stale(t) ==
    MergeMask(t, UNION {seg(i).mask : i \in {task[t].lo, task[t].hi}})

\* The source bitmaps are reloaded to capture concurrent VACUUMs.
MergeReload(t) ==
    MergeMask(t, UNION {Load(f.start, f.end, f.version).mask :
                           f \in task[t].src})

\* flush_segment_to_disk, and the version it gave to the new segment.
MergeWrite(t) ==
    LET k == task[t]
        v == LatestVersion(k.start, k.end) + 1
    IN
    /\ MergeAt(t, "write")
    /\ files' = files \cup {File(k.start, k.end, v, k.rows, k.mask)}
    /\ MergeStep(t, "reserve", [k EXCEPT !.version = v])
    /\ UNCHANGED <<poolVars, heapVars, regVars, upgrades, compactions,
                   searchVars, vacVars>>

\* Phase 4, first write lock: reserve_flushed_segment.
MergeReserve(t) ==
    /\ MergeAt(t, "reserve")
    /\ \/ /\ Reserved = NIL
          /\ MergeStep(t, "giveup", task[t])
          /\ UNCHANGED <<flushed_segments, insert_idx>>
       \/ /\ Reserved # NIL
          /\ insert_idx' = Reserved + 1
          /\ flushed_segments' =
                [flushed_segments EXCEPT ![Reserved].in_used = TRUE]
          /\ MergeStep(t, "replace", [task[t] EXCEPT !.new = Reserved])
    /\ UNCHANGED <<head_idx, tail_idx, files, heapVars, regVars, upgrades,
                   compactions, searchVars, vacVars>>

\* pthread_mutex_unlock of what is by now in the slots: a cleanup may have
\* made the mutex anew, and the slot may be somebody else's.
Unlocked(k, compacting) ==
    [i \in Idx |-> IF i \in {k.lo, k.hi}
                   THEN [seg(i) EXCEPT !.mutex = NoThread,
                            !.is_compacting = @ /\ compacting]
                   ELSE seg(i)]

\* No free slot: the new files stay, the segments are unclaimed.
MergeGiveUp(t) ==
    /\ MergeAt(t, "giveup")
    /\ flushed_segments' = Unlocked(task[t], FALSE)
    /\ MergeStep(t, "idle", NoTask)
    /\ UNCHANGED <<listVars, files, heapVars, regVars, upgrades, compactions,
                   searchVars, vacVars>>

\* The new slot is filled in, which nobody can see before it is linked, and
\* under the write lock takes the place of the old ones.
MergeReplace(t) ==
    LET k == task[t] IN
    /\ MergeAt(t, "replace")
    /\ Replace(k.lo, k.hi, k.new,
               Loaded(seg(k.new),
                      File(k.start, k.end, k.version, k.rows, k.mask), "full"))
    /\ MergeStep(t, "unlock", k)
    /\ UNCHANGED <<insert_idx, files, heapVars, regVars, upgrades, compactions,
                   searchVars, vacVars>>

\* Deviation: the mutexes are not unlocked.
MergeUnlock_Forgets(t) ==
    /\ MergeAt(t, "unlock")
    /\ MergeStep(t, "idle", NoTask)
    /\ UNCHANGED <<poolVars, files, heapVars, regVars, upgrades, compactions,
                   searchVars, vacVars>>

MergeUnlock(t) ==
    /\ MergeAt(t, "unlock")
    /\ flushed_segments' = Unlocked(task[t], TRUE)
    /\ MergeStep(t, "idle", NoTask)
    /\ UNCHANGED <<listVars, files, heapVars, regVars, upgrades, compactions,
                   searchVars, vacVars>>

-----------------------------------------------------------------------------
(* vector_search and the threads that finish a search.                     *)

SearchAt(x, label) == Up /\ spc[x] = label

\* A backend's snapshot covers the memtables that have no registered segment,
\* and maybe some that have; the task goes to the worker.
SearchBegin(x) ==
    /\ SearchAt(x, "idle")
    /\ searches > 0
    /\ searches' = searches - 1
    /\ \E n \in 0 .. LastSid :
          /\ 1 .. n \subseteq registered
          /\ cover' = [cover EXCEPT ![x] = (n + 1) .. LastSid]
          /\ expect' = [expect EXCEPT ![x] = RowsOf(1 .. n) \ dead]
    /\ found' = [found EXCEPT ![x] = {}]
    /\ spc' = [spc EXCEPT ![x] = "sent"]
    /\ UNCHANGED <<poolVars, files, heapVars, regVars, upgrades, mergeVars,
                   pins, drop, vacVars>>

\* The identity of the segment in slot i.
Ident(i) == <<i, seg(i).start, seg(i).end, seg(i).version>>

PinAll(x, ref) ==
    LET walk == {i \in Linked : seg(i).in_used} IN
    /\ SearchAt(x, "sent")
    /\ flushed_segments' =
          [i \in Idx |-> IF i \in walk
                         THEN [seg(i) EXCEPT !.ref_count = @ + ref]
                         ELSE seg(i)]
    /\ pins' = [pins EXCEPT ![x] = {Ident(i) : i \in walk}]
    /\ spc' = [spc EXCEPT ![x] = "search"]
    /\ UNCHANGED <<listVars, files, heapVars, regVars, upgrades, mergeVars,
                   cover, drop, found, expect, searches, vacVars>>

\* Deviation: no references are taken.
SearchPin_Unpinned(x) == PinAll(x, 0)

\* Under the read lock: a reference to every segment of the list.
SearchPin(x) == PinAll(x, 1)

\* Deviation: a segment is skipped if the snapshot covers any of its sids.
Skipped_Any(x, p) == \E s \in p[2] .. p[3] : s \in cover[x]

\* A segment is skipped if the snapshot covers all of its sids.
Skipped(x, p) == \A s \in p[2] .. p[3] : s \in cover[x]

\* The segments not skipped are searched, with their bitmaps.  A live row is
\* found whenever that happens, so it is one step.
SearchSegments(x) ==
    /\ SearchAt(x, "search")
    /\ drop[x] = NIL
    /\ \A p \in pins[x] : ~Skipped(x, p)
    /\ found' = [found EXCEPT ![x] =
                    UNION {seg(p[1]).rows \ seg(p[1]).mask : p \in pins[x]}]
    /\ spc' = [spc EXCEPT ![x] = "drop"]
    /\ UNCHANGED <<poolVars, files, heapVars, regVars, upgrades, mergeVars,
                   cover, pins, drop, expect, searches, vacVars>>

\* decrement_flushed_segment_ref_count, first half: the atomic_fetch_sub.  A
\* segment is given up when it is skipped, the others after the search.
SearchDrop(x) ==
    /\ SearchAt(x, "search") \/ SearchAt(x, "drop")
    /\ drop[x] = NIL
    /\ \E p \in pins[x] :
          /\ spc[x] = "search" => Skipped(x, p)
          /\ flushed_segments' =
                [flushed_segments EXCEPT ![p[1]].ref_count = @ - 1]
          /\ pins' = [pins EXCEPT ![x] = @ \ {p}]
          /\ drop' = [drop EXCEPT ![x] = p[1]]
    /\ UNCHANGED <<listVars, files, heapVars, regVars, upgrades, mergeVars, spc,
                   cover, found, expect, searches, vacVars>>

\* The second half, the atomic_load: at 0 the slot is cleaned up.  Its
\* insert_idx is rewound if nobody has the seg_lock just then.
CheckDropped(i) ==
    IF seg(i).ref_count = 0
    THEN /\ flushed_segments' = [flushed_segments EXCEPT ![i] = Cleaned(@)]
         /\ insert_idx' \in {insert_idx, IF i < insert_idx THEN i
                                                           ELSE insert_idx}
    ELSE UNCHANGED <<flushed_segments, insert_idx>>

SearchCheck(x) ==
    /\ Up
    /\ drop[x] # NIL
    /\ CheckDropped(drop[x])
    /\ drop' = [drop EXCEPT ![x] = NIL]
    /\ UNCHANGED <<head_idx, tail_idx, files, heapVars, regVars, upgrades,
                   mergeVars, spc, cover, pins, found, expect, searches,
                   vacVars>>

\* The result is with the backend.
SearchEnd(x) ==
    /\ SearchAt(x, "drop")
    /\ drop[x] = NIL
    /\ pins[x] = {}
    /\ spc' = [spc EXCEPT ![x] = "idle"]
    /\ cover' = [cover EXCEPT ![x] = {}]
    /\ found' = [found EXCEPT ![x] = {}]
    /\ expect' = [expect EXCEPT ![x] = {}]
    /\ UNCHANGED <<poolVars, files, heapVars, regVars, upgrades, mergeVars,
                   pins, drop, searches, vacVars>>

-----------------------------------------------------------------------------
(* bulk_delete_lsm_index, step 3, and SEGMENT_UPDATE_VACUUM.               *)

VacuumAt(label) == Up /\ vpc = label

\* A row of a registered segment is deleted; the others are dealt with in the
\* memtables, see Memtables.
DeleteRow(r) ==
    /\ Up
    /\ vacuums > 0
    /\ r \in RowsOf(registered) \ dead
    /\ dead' = dead \cup {r}
    /\ UNCHANGED <<poolVars, files, gone, regVars, upgrades, mergeVars,
                   searchVars, vacVars>>

\* VACUUM starts, and gets to its segment pass.
VacuumBegin ==
    /\ VacuumAt("idle")
    /\ vacuums > 0
    /\ vacuums' = vacuums - 1
    /\ doomed' = dead \ gone
    /\ todo' = ScanFiles
    /\ vpc' = "next"
    /\ UNCHANGED <<poolVars, files, heapVars, regVars, upgrades, mergeVars,
                   searchVars, vidx, retry>>

\* The entry of files[] in hand: they are taken in the order of start_sid.
Current == CHOOSE f \in todo : \A g \in todo : f.start <= g.start

\* Load bitmap and mapping, ask the callback about every row.  Nothing to do,
\* or a new bitmap subversion and a SEGMENT_UPDATE_VACUUM task.
VacuumSegment ==
    LET f == Load(Current.start, Current.end, Current.version)
        hit == (f.rows \ f.mask) \cap doomed
    IN
    /\ VacuumAt("next")
    /\ todo # {}
    /\ \/ /\ hit = {}
          /\ todo' = todo \ {Current}
          /\ UNCHANGED <<files, vpc>>
       \/ /\ hit # {}
          /\ files' = (files \ {f}) \cup {[f EXCEPT !.mask = @ \cup hit]}
          /\ vpc' = "sent"
          /\ UNCHANGED todo
    /\ UNCHANGED <<poolVars, heapVars, regVars, upgrades, mergeVars, searchVars,
                   doomed, vidx, retry, vacuums>>

\* Step 1 of the handler, under the read lock: find the segment by its exact
\* sids and take a reference, or answer RETRY.
UpdateFind ==
    LET i == FindBySids(Current.start, Current.end) IN
    /\ VacuumAt("sent")
    /\ \/ /\ i = NIL
          /\ retry' = TRUE
          /\ vpc' = "answer"
          /\ UNCHANGED <<flushed_segments, vidx>>
       \/ /\ i # NIL
          /\ flushed_segments' =
                [flushed_segments EXCEPT ![i].ref_count = @ + 1]
          /\ vidx' = i
          /\ vpc' = "lock"
          /\ UNCHANGED retry
    /\ UNCHANGED <<listVars, files, heapVars, regVars, upgrades, mergeVars,
                   searchVars, todo, doomed, vacuums>>

\* Step 2: the per_seg_mutex, the version, and whether the slot is still the
\* pool's segment of these sids.
UpdateCheck(free) ==
    /\ VacuumAt("lock")
    /\ free
    /\ flushed_segments' = [flushed_segments EXCEPT ![vidx].mutex = "vacuum"]
    /\ retry' = \/ seg(vidx).version # Current.version
                \/ ~seg(vidx).in_used
                \/ FindBySids(Current.start, Current.end) # vidx
    /\ vpc' = "apply"
    /\ UNCHANGED <<listVars, files, heapVars, regVars, upgrades, mergeVars,
                   searchVars, todo, doomed, vidx, vacuums>>

\* Deviation: the mutex is not waited for.
UpdateLock_NoWait == UpdateCheck(TRUE)

UpdateLock == UpdateCheck(seg(vidx).mutex = NoThread)

\* Unless it is a RETRY the latest bitmap on disk is or-ed into the segment's.
UpdateMask(holder) ==
    LET g == seg(vidx)
        f == Load(g.start, g.end, LatestVersion(g.start, g.end))
    IN
    /\ VacuumAt("apply")
    /\ flushed_segments' =
          [flushed_segments EXCEPT
              ![vidx].mutex = holder,
              ![vidx].mask = IF retry THEN @ ELSE @ \cup f.mask]
    /\ vpc' = "unpin"
    /\ UNCHANGED <<listVars, files, heapVars, regVars, upgrades, mergeVars,
                   searchVars, todo, doomed, vidx, retry, vacuums>>

\* Deviation: the mutex is not unlocked.
UpdateApply_Forgets == UpdateMask(seg(vidx).mutex)

UpdateApply == UpdateMask(NoThread)

\* Step 3: the reference is given back, in the same two halves.
UpdateDrop ==
    /\ VacuumAt("unpin")
    /\ flushed_segments' = [flushed_segments EXCEPT ![vidx].ref_count = @ - 1]
    /\ vpc' = "check"
    /\ UNCHANGED <<listVars, files, heapVars, regVars, upgrades, mergeVars,
                   searchVars, todo, doomed, vidx, retry, vacuums>>

UpdateDropCheck ==
    /\ VacuumAt("check")
    /\ CheckDropped(vidx)
    /\ vidx' = NIL
    /\ vpc' = "answer"
    /\ UNCHANGED <<head_idx, tail_idx, files, heapVars, regVars, upgrades,
                   mergeVars, searchVars, todo, doomed, retry, vacuums>>

\* The backend has the answer: the next segment, or after a RETRY the segment
\* that a new scan shows in the place of this one.
VacuumAnswer ==
    LET now == {g \in ScanFiles : g.start <= Current.start
                                  /\ Current.start <= g.end}
    IN
    /\ VacuumAt("answer")
    /\ todo' = (todo \ {Current}) \cup (IF retry THEN now ELSE {})
    /\ retry' = FALSE
    /\ vpc' = "next"
    /\ UNCHANGED <<poolVars, files, heapVars, regVars, upgrades, mergeVars,
                   searchVars, doomed, vidx, vacuums>>

\* ambulkdelete returns: the heap may reuse the line pointers.
VacuumEnd ==
    /\ VacuumAt("next")
    /\ todo = {}
    /\ gone' = gone \cup doomed
    /\ doomed' = {}
    /\ vpc' = "idle"
    /\ UNCHANGED <<poolVars, files, dead, regVars, upgrades, mergeVars,
                   searchVars, todo, vidx, retry, vacuums>>

-----------------------------------------------------------------------------

Regular ==
    RegularFind \/ RegularReserve \/ RegularLoad \/ RegularRegister

\* A merge thread that has claimed its segments goes on to the end.
Compact(t) ==
    \/ MergeLoad(t) \/ MergeLock(t) \/ MergeLock2(t) \/ MergeReload(t)
    \/ MergeWrite(t) \/ MergeReserve(t) \/ MergeGiveUp(t) \/ MergeReplace(t)
    \/ MergeUnlock(t)

Merge(t) == MergeScan(t) \/ MergeClaim(t) \/ Compact(t)

Search(x) ==
    \/ SearchPin(x) \/ SearchSegments(x) \/ SearchDrop(x) \/ SearchCheck(x)
    \/ SearchEnd(x)

Vacuum ==
    \/ VacuumSegment \/ UpdateFind \/ UpdateLock \/ UpdateApply \/ UpdateDrop
    \/ UpdateDropCheck \/ VacuumAnswer \/ VacuumEnd

Next ==
    \/ FlushSegment \/ Regular
    \/ \E u \in upgrades : Upgrade(u)
    \/ \E t \in Merger : Merge(t)
    \/ \E x \in Searcher : SearchBegin(x) \/ Search(x)
    \/ \E r \in Row : DeleteRow(r)
    \/ VacuumBegin \/ Vacuum

Spec == Init /\ [][Next]_vars

\* Threads that have work go on with it: they are POSIX threads of one worker
\* process, their mutexes are held for a bounded time, and the backend in
\* VACUUM only waits for the worker.  Nobody is obliged to start anything.
Fairness ==
    /\ WF_vars(Regular)
    /\ WF_vars(Vacuum)
    /\ \A t \in Merger : WF_vars(Compact(t))
    /\ \A x \in Searcher : WF_vars(Search(x))

FairSpec == Spec /\ Fairness

-----------------------------------------------------------------------------
(* Properties.                                                             *)

AnyIdx   == Idx \cup {NIL}
AnySid   == 0 .. LastSid
SegmentType ==
    [in_used : BOOLEAN, ref_count : Nat, prev_idx : AnyIdx, next_idx : AnyIdx,
     start : AnySid, end : AnySid, version : Nat, rows : SUBSET Row,
     mask : SUBSET Row, is_compacting : BOOLEAN,
     load_state : {"none", "mmap", "full"},
     mutex : Merger \cup {"vacuum", NoThread}]
FileId   == [start : AnySid, end : AnySid, version : Nat]
FileType == [start : AnySid, end : AnySid, version : Nat, rows : SUBSET Row,
             mask : SUBSET Row]
TaskType == [lo : AnyIdx, hi : AnyIdx, start : AnySid, end : AnySid,
             src : SUBSET FileId, rows : SUBSET Row, mask : SUBSET Row,
             version : Nat, new : AnyIdx]

\* The pool, the files and the threads' local variables have their C types: in
\* particular every index is a slot or -1 and no reference count is negative.
TypeOK ==
    /\ flushed_segments \in [Idx -> SegmentType]
    /\ head_idx \in AnyIdx /\ tail_idx \in AnyIdx
    /\ insert_idx \in 0 .. MAX_SEGMENTS_COUNT
    /\ files \subseteq FileType
    /\ dead \subseteq Row /\ gone \subseteq Row
    /\ rpc \in {"idle", "find", "reserve", "load", "register", "crash"}
    /\ rsid \in AnySid /\ ridx \in AnyIdx /\ registered \subseteq Sid
    /\ upgrades \subseteq [idx : Idx, sid : Sid]
    /\ mpc \in [Merger -> {"idle", "claim", "load", "lock", "lock2", "reload",
                           "write", "reserve", "giveup", "replace", "unlock"}]
    /\ task \in [Merger -> TaskType]
    /\ compactions \in Nat
    /\ spc \in [Searcher -> {"idle", "sent", "search", "drop"}]
    /\ cover \in [Searcher -> SUBSET Sid]
    /\ pins \in [Searcher -> SUBSET (Idx \X AnySid \X AnySid \X Nat)]
    /\ drop \in [Searcher -> AnyIdx]
    /\ found \in [Searcher -> SUBSET Row]
    /\ expect \in [Searcher -> SUBSET Row]
    /\ searches \in Nat
    /\ vpc \in {"idle", "next", "sent", "lock", "apply", "unpin", "check",
                "answer"}
    /\ todo \subseteq FileId
    /\ doomed \subseteq Row /\ vidx \in AnyIdx
    /\ retry \in BOOLEAN /\ vacuums \in Nat

\* The list that register_flushed_segment and replace_flushed_segments_n edit
\* is doubly linked from head_idx to tail_idx, in the order of the sids,
\* without gap or overlap, and holds exactly the registered sids: what
\* choose_adjacent_smaller_pool calls neighbours are adjacent sids.
ListIntact ==
    /\ {head_idx, tail_idx} \subseteq Linked
    /\ seg(head_idx).prev_idx = NIL
    /\ seg(tail_idx).next_idx = NIL
    /\ \A i \in Linked :
          /\ seg(i).in_used
          /\ i # tail_idx =>
                LET n == seg(i).next_idx IN
                n \in Linked /\ seg(n).prev_idx = i
                             /\ seg(n).start = seg(i).end + 1
    /\ UNION {seg(i).start .. seg(i).end : i \in Linked} = registered

One(P) == IF P THEN 1 ELSE 0

\* The searches that have slot i pinned.
Pinning(i) == {x \in Searcher : \E p \in pins[x] : p[1] = i}

\* A segment's reference count is one for the list, plus one for each search
\* that has it pinned, plus one for the SEGMENT_UPDATE_VACUUM that works on it:
\* the cleanup at 0 comes when nobody can use the buffers, and it does come.
RefExact ==
    \A i \in Idx :
        seg(i).ref_count = One(i \in Linked) + Cardinality(Pinning(i))
                              + One(vidx = i /\ vpc \in {"lock", "apply", "unpin"})

\* A segment that a search or a SEGMENT_UPDATE_VACUUM has pinned is not freed
\* or recycled, whatever merges replace it in the meantime.
PinnedIntact ==
    /\ \A x \in Searcher : \A p \in pins[x] :
          /\ seg(p[1]).in_used
          /\ Ident(p[1]) = p
          /\ seg(p[1]).rows = Load(p[2], p[3], p[4]).rows
    /\ vpc \in {"lock", "apply", "unpin"} =>
          /\ seg(vidx).in_used
          /\ seg(vidx).start = Current.start /\ seg(vidx).end = Current.end

\* What a merge thread has claimed stays its own until it replaces it: linked,
\* adjacent, and in the claim of no other thread.
ClaimHolds ==
    \A t \in Merger :
        mpc[t] \in {"load", "lock", "lock2", "reload", "write", "reserve",
                   "replace"} =>
            LET k == task[t] IN
            /\ {k.lo, k.hi} \subseteq Linked
            /\ seg(k.lo).is_compacting /\ seg(k.hi).is_compacting
            /\ k.lo # k.hi => seg(k.lo).next_idx = k.hi
            /\ k.start = seg(k.lo).start /\ k.end = seg(k.hi).end
            /\ \A u \in Merger \ {t} :
                  mpc[u] \notin {"idle", "claim", "unlock"} =>
                      {task[u].lo, task[u].hi} \cap {k.lo, k.hi} = {}

\* Every row of a registered segment that has not been deleted is in a segment
\* of the list and not masked, at every moment of every rebuild and merge.
NoRowLost ==
    \A r \in RowsOf(registered) \ dead :
        \E i \in Linked : r \in seg(i).rows \ seg(i).mask

\* A search returns every row of the segments registered at the backend's
\* snapshot that the snapshot's memtables do not cover and that has not been
\* deleted since, although the worker walks the list later, when segments may
\* have been merged with ones the snapshot does cover.
SearchComplete ==
    \A x \in Searcher : spc[x] = "drop" => expect[x] \ dead \subseteq found[x]

\* If the worker restarted now, load_all_segments_from_disk would find every
\* row that has not been deleted, and no row VACUUM has given back: a new
\* version's bitmap has what VACUUM wrote into the old one's.
RestartSound ==
    LET Offers(r) == \E f \in ScanFiles :
                        LET g == Load(f.start, f.end, f.version)
                        IN r \in g.rows \ g.mask
    IN /\ \A r \in RowsOf(registered) \ dead : Offers(r)
       /\ \A r \in gone : ~Offers(r)

\* Bitmaps are bit positions, so they only go with the version they were made
\* for: the latest bitmap that SEGMENT_UPDATE_VACUUM ors into a segment, and
\* the files a merge thread reads with the slot's vec_count, are of the
\* version in the slot.
VersionsAgree ==
    LET Agrees(i) == seg(i).version = LatestVersion(seg(i).start, seg(i).end)
    IN /\ vpc = "apply" /\ ~retry => Agrees(vidx)
       /\ \A t \in Merger : mpc[t] \in {"load", "lock", "lock2", "reload",
                                     "write"} =>
             Agrees(task[t].lo) /\ Agrees(task[t].hi)

\* VACUUM's segment pass ends, although it starts over with a segment each time
\* the worker answers RETRY and its worker waits for the merge threads' mutexes.
VacuumReturns == vpc = "next" ~> vpc = "idle"

\* A merge thread that has claimed segments finishes: it waits for two mutexes
\* in turn, with VACUUM and another merge thread about.
CompactionEnds == \A t \in Merger : mpc[t] = "load" ~> mpc[t] = "idle"

\* The purpose of telling the worker of a new bitmap: a row that VACUUM has
\* given back is offered by no segment of the pool.
PoolSwept ==
    \A r \in gone : \A i \in Linked : r \notin seg(i).rows \ seg(i).mask

\* cleanup_flushed_segment leaves insert_idx behind when it cannot have the
\* lock, for reserve_flushed_segment "will eventually wrap around and find the
\* slot": a reservation fails only if every slot is in use.
ReserveFinds ==
    [][(\/ rpc = "reserve" /\ rpc' = "crash"
        \/ \E t \in Merger : mpc[t] = "reserve" /\ mpc'[t] = "giveup")
       => \A i \in Idx : seg(i).in_used]_vars

-----------------------------------------------------------------------------
(* The inductive invariant of the behaviours in which no slot is recycled:  *)
(* every cleanup finds the seg_lock taken and leaves insert_idx alone.      *)

NoRewind == [][insert_idx <= insert_idx']_vars

\* L is a list of segs from slot h to slot t, linked both ways, in the order of
\* the sids and without gap.
Chain(segs, h, t, L) ==
    /\ L \subseteq Idx /\ h \in L /\ t \in L
    /\ segs[h].prev_idx = NIL /\ segs[t].next_idx = NIL
    /\ \A i \in L : /\ segs[i].start \in Nat /\ segs[i].end \in Nat
                     /\ segs[i].start <= segs[i].end
    /\ \A i \in L \ {t} : /\ segs[i].next_idx \in L
                           /\ segs[segs[i].next_idx].prev_idx = i
                           /\ segs[segs[i].next_idx].start = segs[i].end + 1
    /\ \A i \in L \ {h} : /\ segs[i].prev_idx \in L \ {t}
                           /\ segs[segs[i].prev_idx].next_idx = i

ListInv ==
    /\ Chain(flushed_segments, head_idx, tail_idx, Linked)
    /\ UNION {seg(i).start .. seg(i).end : i \in Linked} = registered

\* The slot is reserved and not yet in the list.
Coming(i) == \/ rpc \in {"load", "register"} /\ ridx = i
             \/ \E t \in Merger : mpc[t] = "replace" /\ task[t].new = i

\* The slot is or has been in the list.
Used(i) == i \in Idx /\ i < insert_idx /\ ~Coming(i)

\* Reserved slots are as reserve_flushed_segment left them or filled in, each
\* for one thread; the others from insert_idx on are as they were made.
Reserving ==
    /\ \A i \in Idx : i >= insert_idx => seg(i) = EmptySegment
    /\ \A i \in Idx : Coming(i) =>
         /\ i < insert_idx
         /\ seg(i).in_used /\ ~seg(i).is_compacting /\ seg(i).load_state # "mmap"
    /\ rpc \in {"load", "register"} => ridx \in Idx
    /\ \A t \in Merger : mpc[t] = "replace" => task[t].new \in Idx
    /\ \A t \in Merger : mpc[t] = "replace" =>
         /\ rpc \in {"load", "register"} => ridx # task[t].new
         /\ \A u \in Merger : mpc[u] = "replace" /\ task[u].new = task[t].new => u = t

\* Whoever has a slot in hand has seen it in the list.
InHand ==
    /\ \A i \in Linked : Used(i)
    /\ \A x \in Searcher : \A p \in pins[x] : Used(p[1])
    /\ \A x \in Searcher : drop[x] # NIL => Used(drop[x])
    /\ vpc \in {"lock", "apply", "unpin", "check"} => Used(vidx)
    /\ \A t \in Merger : mpc[t] # "idle" => Used(task[t].lo) /\ Used(task[t].hi)

\* What has left the list is not eligible for a merge or an upgrade.
Retired == \A i \in Idx : Used(i) /\ i \notin Linked =>
    ~seg(i).in_used \/ seg(i).is_compacting \/ seg(i).load_state = "mmap"

\* What a merge thread has chosen is adjacent as long as it is in the list.
Claiming == {"load", "lock", "lock2", "reload", "write", "reserve", "giveup", "replace"}

Adjoining(k) == k.lo = k.hi \/ seg(k.lo).next_idx = k.hi

Claims ==
    /\ \A t \in Merger : mpc[t] = "claim" =>
         ({task[t].lo, task[t].hi} \subseteq Linked => Adjoining(task[t]))
    /\ \A t \in Merger : mpc[t] \in Claiming =>
         LET k == task[t] IN
         /\ {k.lo, k.hi} \subseteq Linked
         /\ Adjoining(k)
         /\ \A i \in {k.lo, k.hi} : seg(i).is_compacting /\ seg(i).load_state = "full"
         /\ k.start = seg(k.lo).start /\ k.end = seg(k.hi).end
         /\ \A u \in Merger \ {t} : mpc[u] \in Claiming =>
               {task[u].lo, task[u].hi} \cap {k.lo, k.hi} = {}

\* A segment stays until it is upgraded.
Upgrading ==
    \A u \in upgrades :
        /\ u.idx \in Linked /\ u.sid = u.idx + 1
        /\ seg(u.idx).load_state = "mmap"

\* A search has pins only in between, and they are of what is in the slot.
PinsInv ==
    /\ \A x \in Searcher : spc[x] \in {"idle", "sent"} => pins[x] = {} /\ drop[x] = NIL
    /\ \A x \in Searcher : \A p \in pins[x] : Ident(p[1]) = p
    /\ vpc \in {"lock", "apply", "unpin"} =>
         seg(vidx).start = Current.start /\ seg(vidx).end = Current.end

PoolInv ==
    /\ TypeOK /\ ListInv /\ Reserving /\ InHand /\ Retired /\ Claims /\ Upgrading
    /\ RefExact /\ PinsInv

\* There is a file of version v of segment s-e, with these rows.
Filed(s, e, v, rows) ==
    \E f \in files : f.start = s /\ f.end = e /\ f.version = v /\ f.rows = rows

Whole(s, e, rows, mask) == RowsOf(s .. e) \ dead \subseteq rows \ mask

\* Segment files: one of each name, with all that lives.
FilesInv ==
    /\ IsFiniteSet(files)
    /\ \A f \in files :
         /\ f.start \in Sid /\ f.end \in Sid /\ f.start <= f.end /\ f.end <= rsid
         /\ f.version <= Cardinality(files)
         /\ RowsOf(f.start .. f.end) \ dead \subseteq f.rows
         /\ f.mask \subseteq dead
    /\ \A f, g \in files :
         f.start = g.start /\ f.end = g.end /\ f.version = g.version => f = g
    /\ rpc \in {"find", "reserve", "load"} => Versions(rsid, rsid) # {}
    /\ registered = 1 .. (IF rpc = "idle" THEN rsid ELSE rsid - 1)

\* Segments in use have the rows of their file, and all that lives.
SegmentsInv ==
    \A i \in Idx : seg(i).ref_count > 0 \/ (rpc = "register" /\ ridx = i) =>
        /\ seg(i).in_used
        /\ seg(i).start \in Sid /\ seg(i).end \in Sid /\ seg(i).start <= seg(i).end
        /\ Filed(seg(i).start, seg(i).end, seg(i).version, seg(i).rows)
        /\ Whole(seg(i).start, seg(i).end, seg(i).rows, seg(i).mask)

\* So has what a merge thread has built.
TasksInv ==
    /\ rpc = "register" => seg(ridx).start = rsid /\ seg(ridx).end = rsid
    /\ \A t \in Merger :
         LET k == task[t] IN
         /\ mpc[t] \in {"lock", "lock2", "reload"} =>
              /\ Whole(k.start, k.end, k.rows, {})
              /\ \A g \in k.src : g.version \in Versions(g.start, g.end)
         /\ mpc[t] \in {"write", "reserve", "replace"} =>
              Whole(k.start, k.end, k.rows, k.mask) /\ k.mask \subseteq dead
         /\ mpc[t] \in {"reserve", "replace"} => Filed(k.start, k.end, k.version, k.rows)

VacuumInv ==
    /\ doomed \subseteq dead
    /\ \A g \in todo : g.version \in Versions(g.start, g.end)

\* What a search owes is in a segment it pins, until it has looked.
Owed(x) ==
    /\ spc[x] \in {"sent", "search"} => \A r \in expect[x] :
         r[1] \in registered \ cover[x]
    /\ spc[x] = "search" => \A r \in expect[x] :
         \E p \in pins[x] : r[1] \in p[2] .. p[3]

OwedInv == (\A x \in Searcher : Owed(x)) /\ SearchComplete

RowsInv == FilesInv /\ SegmentsInv /\ TasksInv /\ VacuumInv /\ OwedInv

-----------------------------------------------------------------------------
(* And of those among them in which every merge finds a free slot: one that *)
(* gives up leaves files on disk that the pool does not have.              *)

NoGiveUp == [][\A t \in Merger : mpc'[t] # "giveup"]_vars
NoneGivesUp == \A t \in Merger : mpc[t] # "giveup"

\* A per_seg_mutex is its owner's until he unlocks it.  By then a merge
\* thread's slots have left the list, and may have been cleaned up.
Writing == {"reserve", "replace"}
Holding == {"reload", "write", "giveup"} \cup Writing

Locked ==
    /\ \A t \in Merger :
         LET k == task[t] IN
         /\ mpc[t] = "lock2" => seg(k.lo).mutex = t
         /\ mpc[t] \in Holding => seg(k.lo).mutex = t /\ seg(k.hi).mutex = t
         /\ mpc[t] = "unlock" =>
               \A i \in {k.lo, k.hi} :
                  i \notin Linked /\ (seg(i).ref_count = 0 \/ seg(i).mutex = t)
    /\ vpc = "apply" => seg(vidx).mutex = "vacuum"

\* The thread has written the next version of the segment in slot i.
Rebuilt(i) == \E t \in Merger :
    mpc[t] \in Writing /\ task[t].lo = i /\ task[t].hi = i

\* The pool has the latest version of each segment, or is about to get it.
Newest ==
    /\ \A i \in Linked :
          seg(i).version = LatestVersion(seg(i).start, seg(i).end) \/ Rebuilt(i)
    /\ \A t \in Merger : mpc[t] \in Writing =>
          task[t].version = LatestVersion(task[t].start, task[t].end)
    /\ rpc = "register" => seg(ridx).version = LatestVersion(rsid, rsid)

\* What SEGMENT_UPDATE_VACUUM has found in the list stays there under its
\* mutex, which an upgrade would not wait for.
StaysListed == upgrades = {} /\ (vpc = "apply" /\ ~retry => vidx \in Linked)

VersionInv == Locked /\ Newest /\ NoneGivesUp

-----------------------------------------------------------------------------
(* What a restart would find, where no merge gives up.                     *)

\* The segment in slot i as its files are named, and the files of that name.
Name(i) == [start |-> seg(i).start, end |-> seg(i).end, version |-> seg(i).version]
Named(f, g) == f.start = g.start /\ f.end = g.end /\ f.version = g.version

Has(g, r)   == \E f \in files : Named(f, g) /\ r \in f.rows
Shows(g, r) == \E f \in files : Named(f, g) /\ r \in f.rows \ f.mask

Covers(g, r)    == r[1] \in g.start .. g.end
Within(f, s, e) == s <= f.start /\ f.end <= e

\* The file is one of those in ScanFiles.
Scanned(f) ==
    /\ f \in files
    /\ \A h \in files : h.start <= f.start /\ f.end <= h.end =>
          h.start = f.start /\ h.end = f.end /\ h.version <= f.version

\* No file reaches beyond a segment of the list, or beyond what takes its place.
Nested ==
    \A f \in files :
        \/ \E i \in Linked : Within(f, seg(i).start, seg(i).end)
        \/ \E t \in Merger : mpc[t] \in Writing /\ Within(f, task[t].start, task[t].end)
        \/ f.start = rsid /\ rsid \notin registered

Contents ==
    /\ \A f \in files : f.rows \subseteq RowsOf(f.start .. f.end)
    /\ dead \cup gone \subseteq RowsOf(registered)

\* A merge thread's sources are the files of the segments it has claimed.
Sources ==
    \A t \in Merger : mpc[t] \in {"lock", "lock2", "reload", "write"} =>
        /\ task[t].src = {Name(task[t].lo), Name(task[t].hi)}
        /\ \A r \in task[t].rows : \E g \in task[t].src : Has(g, r)

\* Nothing on disk offers r, or is going to.
Clean(r) ==
    /\ \A f \in files : Scanned(f) => r \notin f.rows \ f.mask
    /\ \A t \in Merger : mpc[t] = "write" => r \notin task[t].rows \ task[t].mask

\* VACUUM has dealt with the segment of r in this pass.
Dealt(r) ==
    \/ \A g \in todo : ~Covers(g, r)
    \/ vpc \in {"apply", "unpin", "check", "answer"} /\ ~retry /\ Covers(Current, r)

Swept ==
    /\ \A r \in gone : Clean(r)
    /\ \A r \in doomed : Dealt(r) => Clean(r)
    /\ \A g \in todo : \A r \in doomed :
         Covers(g, r) /\ ~Shows(g, r) /\ (vpc = "next" \/ g # Current) => Clean(r)
    /\ vpc \in {"sent", "lock"} => \A r \in doomed : ~Shows(Current, r)

\* A bitmap that VACUUM writes after a merge thread has reloaded it is one for
\* which the merge thread makes its task wait.
Awaited(t, g) ==
    /\ g = Current
    /\ vpc = "sent" \/ (vpc = "lock" /\ vidx \in {task[t].lo, task[t].hi})

Reloaded ==
    \A t \in Merger : mpc[t] = "write" =>
        \A g \in task[t].src : \A r \in task[t].rows \ task[t].mask :
            Covers(g, r) => Shows(g, r) \/ Awaited(t, g)

\* VACUUM has an entry of files[] in hand from VacuumSegment to VacuumAnswer.
Passing ==
    /\ vpc = "idle" => todo = {} /\ doomed = {}
    /\ vpc \notin {"idle", "next"} => todo # {}

DiskInv == Nested /\ Contents /\ Sources /\ Swept /\ Reloaded /\ Passing

============================================================================
