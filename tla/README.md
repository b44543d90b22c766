# A TLA+ verification of the PostgreSQL-V vector index

PostgreSQL-V gives PostgreSQL an LSM-structured vector index: inserts go to
memtables in shared memory, a background worker flushes full memtables to
immutable segment files, and a separate worker process holds the segments in
memory, searches them, merges them and rebuilds them. Its own code, some 27,000
lines of C under `src/postgresqlv/src/`, is a handful of data structures shared
by PostgreSQL backends, two background workers and the POSIX threads inside one
of them, with spin loops, reference counts, version numbers and several kinds of
locks between them. That concurrency is what this project models and checks.

| file | what it is |
|---|---|
| `Memtables.tla` | memtable slots, rotation, flush, search snapshot, VACUUM's memtable passes |
| `MemtablesProofs.tla` | reference counts, pins and roles of the slots of `Memtables`, proved for all parameters |
| `MemtablesRowProofs.tla` | writers, durability, reachability of rows and completeness of searches, proved |
| `MemtablesVacuumProofs.tla` | VACUUM's memtable passes, proved |
| `SegmentPool.tla` | the worker's segment pool, segment files, merge threads, search, VACUUM's segment pass |
| `SegmentPoolProofs.tla` | list, pins, claims, rows and searches of the pool, proved as long as no slot is recycled |
| `SegmentVersionProofs.tla` | versions in the pool and on disk, and what a restart would find, proved where every merge finds a slot |
| `StatusPages.tla` | the WAL-logged pages that say which memtables exist and what is in them |
| `IndexSlots.tla` | the life of an index slot: claim, recovery, load, flush, for several indexes |
| `IndexSlotsProofs.tla` | its three invariants, proved |
| `TaskService.tla` | what the task ring promises: a synchronous call |
| `TaskRing.tla` | task ring, result slots, the worker's main loop and threads; implements `TaskService` |
| `TaskRingProofs.tla` | the refinement, proved |
| `Recovery.tla` | crashes, and `recover_lsm_index_internal` |
| `FetchQueue.tla` | segment files on their way to a standby |
| `FetchQueueProofs.tla` | its two invariants and an action property, proved |
| `Standby.tla` | replay, adoption and tombstone redo on a standby |
| `MC<module>.tla` | the modules for TLC: symmetry sets, the file kinds of `FetchQueue` |
| `MC<module>_<instance>.cfg` | one instance per run, and one per divergence of section 11 |
| `PROJECT.json` | components, runs, source map, mutants, hazards, theorems |

Check a run with `tlc -config MCSegmentPool_vacuum.cfg MCSegmentPool`, the
proofs of a module with `tlapm TaskRingProofs.tla`, from a few seconds to a few
minutes each. A definition commented `Deviation` is
a plausible mistake: `PROJECT.json` names the property that notices it when it
replaces the definition it deviates from.

## 1. Inventory

All paths are relative to `src/postgresqlv/src/`.

| component | state | operations | who runs it |
|---|---|---|---|
| memtables (`lsmindex.c`, `lsmindex.h`) | slots with `ref_count`, `sealed`, `flush_claimed`, `current_size`, `tids`, `ready`, `bitmap`; per index `growing_memtable_idx`, `memtable_idxs`, `next_segment_id` | insert, rotate, search, bulk delete | backends |
| flush worker (`lsmbackground.c`) | `flushed_not_released` | claim, wait for publishers, write segment, register it, unlink, release | one background worker |
| status pages (`statuspage.c`) | WAL-logged pages: which memtables exist, which rows they hold | register, add, release, read at recovery | backends |
| segment files (`lsmindex_io.c`) | index, bitmap, mapping, offset and metadata files, named by sid range, version and bitmap subversion | flush, load, scan, write bitmap | everybody |
| segment pool (`lsm_segment.c`) | array of slots, list in sid order, reference counts, `insert_idx` | reserve, register, replace, cleanup, find | threads of the vector index worker |
| vector index worker (`vector_index_worker.c`) | task queues, thread pools | regular and vacuum updates, mmap upgrade, merge, rebuild, search, load and drop of indexes | threads of one process |
| task ring (`tasksend.c`, `ringbuffer.c`) | ring of tasks, result slot per backend, latches | send, wait, answer | backends and the worker |
| slot lifecycle, recovery (`lsmindex.c`, `index_recovery_worker.c`) | state of each index slot | claim, recover from status pages, wait until queryable | backends, recovery worker |
| replication (`replication_*.c`, `segment_fetcher.c`, `segment_adoption.c`, `segment_vacuum_redo.c`, `standby_memtable.c`, `pending_fetch_queue.c`) | queue of segments to fetch, standby memtables | emit and replay WAL, ship segments, adopt them, replay tombstones | walreceiver side of a standby |
| vector library binding (`vectorindeximpl.cpp`) | -- | build, search, merge of vector indexes | worker threads |
| pgvector heritage (`hnsw*.c`, `ivf*.c`, `vector.c`, ...) | -- | access method callbacks, data types | backends |

How they meet: an inserter reserves a position in the growing memtable, logs the
row on a status page and publishes it; whoever fills the memtable rotates it
into the queue. The flusher writes it out as segment `sid-sid`, asks the worker
to register that (`SEGMENT_UPDATE_REGULAR`), and only then unlinks the memtable;
the status pages are released later by some inserter. A search snapshots and
pins the memtables, sends the snapshot's sids to the worker, and merges what the
worker finds in the other segments with what it finds itself. VACUUM masks rows
in memtables, then writes new bitmaps for segment files and tells the worker
(`SEGMENT_UPDATE_VACUUM`), which may answer RETRY because a merge thread has
replaced the segment meanwhile.

What is hard here: slots recycled under readers that pin them; a row that moves
from memtable to segment while a search looks at both; sentinel values on which
everybody spins; check-then-act over dropped locks; the two-file-versions problem
of VACUUM against merges; errors in the middle (PostgreSQL's `ereport` unwinds
out of any call); pools, queues and arrays at their limit. `PROJECT.json` lists
the hazards with their lines.

What would make each component correct: memtables, that nothing committed goes
out of reach, counts are exact and everybody gets on; flush, that it persists
published rows only and forgets nothing the disk does not have; pool, that the
list is intact and pinned segments stay; merges, that they neither lose live rows
nor resurrect deleted ones; VACUUM, that a TID given back to the heap is offered
nowhere, now or after a restart; tasks, that each is answered once and to the
right request; recovery and standby, that they rebuild the same set of rows.

## 2. Plan

Done: `Memtables`, `SegmentPool`, `StatusPages`, `IndexSlots`, `TaskService` and
`TaskRing` with the refinement between them, `Recovery`, `FetchQueue`, `Standby`;
proofs of all safety properties that the runs check of `Memtables`, `IndexSlots`,
`TaskRing` (the refinement included) and `FetchQueue`, and of those of `SegmentPool`
that hold as long as no slot of the pool is recycled and, for `VersionsAgree` and
`RestartSound`, every merge finds one. Each module takes from its
neighbours what they were shown to provide: `Recovery` and `Memtables` treat the
status pages as sets of tids, which is what `Recorded` of `StatusPages` says of the
pages; `Standby` takes a pull of a segment as one step, which is what
`SegmentComplete` of `FetchQueue` says of the metadata file; `Memtables`,
`SegmentPool` and `IndexSlots` treat a request to the worker as a call, which is
what `TaskRing` implements. The last two of these are theorems.

Left, in this order:

1. `PagesApart` of `StatusPages` for histories without a moved item, once a chain is
   defined without a fold.
2. An abstract index (a set of live rows; a search returns a set between what was
   live throughout and what was ever inserted) that `Memtables` and `SegmentPool`
   implement, with the pool of `Memtables` refined by `SegmentPool`.
3. Memtable slots shared by several indexes; a restart of the standby in
   `Standby`; the drop of an index.
4. Pure algorithms against reference definitions: `merge_top_k_dedup`, the ready
   prefix of `update_max_ready_id`.

## 3. Memtables

**State.** The fields of `ConcurrentMemTableData` and `LSMIndexData` under their
own names, as functions of the slot. `tids[s][i]` is what the slot's array holds,
including what the slot's previous memtable left there: rotation clears `ready`
and `bitmap` only. The status pages are the sets of sids registered and of rows
added; segment files and the worker's pool are sets of pairs `<<sid, row>>` whose
bitmap bit is clear. `heap` is the fate of each row (`new`, `inserting`, `live`,
`dead`, `gone`: given back to the heap by VACUUM). `orphans`, `unswept` and
`eleft` are history and a bound.

**Steps.** One action per piece of code under one lock or one atomic operation:

| actions | code |
|---|---|
| `InsertBegin`, `TakeFlushed`, `SkipRelease`, `ReleaseStatus`, `ReleaseFlushed`, `Reserve`, `ReserveFull`, `NoGrowing`, `WriteRow`, `Publish` | `insert_lsm_index` |
| `RotateBegin`, `RotateWait`, `RotateAlloc`, `RotateEnqueue`, `RotateInstall` | `rotate_growing_memtable` and what it calls |
| `InsertError`, `SearchError` | `ereport(ERROR)` at any point where the code can raise one |
| `FlushClaim`, `FlushWrite`, `FlushRegister`, `FlushTrack`, `FlushUnlink`, `FlushRelease`, `FlushUnlock` | `lsm_flush_one_pending` |
| `SearchBegin`, `SearchSnapshot`, `WorkerSearch`, `SearchGrowing`, `SearchSealed`, `SearchReturn` | `search_lsm_index`, `vector_search` |
| `VacuumBegin`, `VacuumPinGrowing`, `VacuumPick`, `VacuumPinSealed`, `VacuumMark`, `VacuumUnpin`, `VacuumSegments`, `VacuumEnd` | `bulk_delete_lsm_index` |

**Abstractions.** Vectors, distances and top-k are gone: a search returns the set
of rows it sees. `allocate_new_growing_memtable` takes any free slot, where the
code takes the first. `max_ready_id` is left out, because its readers fall back
to `ready[]`. VACUUM's segment pass is one step here; `SegmentPool` has the
steps. VACUUM's own errors are not modelled. A VACUUM that meets a rotation or
an index without growing memtable does not spin, it skips the memtables
(`lsmindex.c:2179`, `2371`); the rows it misses are recorded in `unswept` and
excluded from `VacuumSweeps`, so that property speaks of the other VACUUMs.

**Runs.**

| run | instance | shows |
|---|---|---|
| `search` | 2 inserters, 1 searcher, 2 slots of one row, queue of 2, 4 rows | `RefCountExact`, `PinnedStable`, `WriterSafe`, `FlushSound`, `NoRowLost`, `SearchComplete`, `Durable` |
| `faults` | recovered without growing memtable, 1 VACUUM, 1 error, 2 rows | `IndInv` (with `TypeOK` in it), `VacuumSweeps` |
| `live` | 2 inserters, flusher, queue of length 1, 3 rows, fairness | `InsertReturns`, `FlushDrains` |

Why these bounds: with one row per memtable every insert is a rotation, and with
two slots every second memtable recycles a slot, so four rows recycle each slot
while it may be pinned. Two inserters are needed for a race between inserters,
and a rotation has one winner and any number of losers. The theorems below cover
every other number of processes, slots, rows and positions for the properties
they are about. `live` has no errors: an insert that fails between reserving and
publishing blocks the flusher for good (hazard at `lsmbackground.c:76`), and a
failed rotation blocks everybody (`lsmindex.c:1654`).

**Fairness.** Weak fairness of each process that is inside an operation. Inserters
and the flusher wait in loops that sleep and look again, LWLocks are granted in
the order of the queue, and the postmaster restarts a worker that ends. Nobody is
obliged to begin an insert, a search or a VACUUM.

**Proofs.** `MemtablesProofs` proves, for every set of backends, searchers
(finite), slots (not empty) and rows, and every capacity and queue length above
zero:

- `IndInvHolds`: `Spec => []IndInv`
- `TypeCorrect`: `TypeOK`
- `RefCountsExact`: `RefCountExact`
- `PinsHold`: `PinnedStable`
- `FlushIsSound`: `FlushSound`

from the assumptions `SlotAssumption`, `RowAssumption`, `SizeAssumption` and
`ProcessAssumption` alone. The reference count is changed by inserters, searches,
flusher and VACUUM without a common lock, and that it is exact is not inductive:
the step that gives back the index's own reference must know that the slot has
no second owning role at that moment. `IndInv` therefore adds to the types and
to `RefCountExact` and `PinnedStable`

- `Shape`, what a program counter says about its process's variables;
- `RotateMutex`, that `MT_IDX_ROTATING` admits one rotator;
- `QueueInv`, that no slot is twice in the queue and the flusher's slot is in it;
- `Roles`, that growing, queued, going, coming, unlinked and orphaned exclude
  each other;
- `Sealing`, that what is in the queue or about to enter it is sealed.

There is one lemma per conjunct with one step per action, lemmas for what
enqueueing and unlinking do to the queue, and counting lemmas on the set of
pinning searches that rest on `FiniteSetTheorems`. `IndInv` is also an invariant
of the run `faults`. `ERROR`s are part of the specification that is proved.
`RefCountExact` together with `PinnedStable` says that `bulk_delete_lsm_index`'s
"should not happen" error on a recycled slot does not happen.

`MemtablesRowProofs` and `MemtablesVacuumProofs` build on that and are about what is
in the slots. Each adds an invariant that is inductive relative to the earlier ones:

| theorem | states | for | invariant |
|---|---|---|---|
| `WriterInvHolds`, `InsertersSafe` | `WriterSafe` | every value of the constants | `WriterInv` |
| `SweepInvHolds`, `VacuumComplete` | `VacuumSweeps` | every value of the constants | `SweepInv` |
| `DurableInvHolds`, `RowsDurable` | `Durable` | `MaxVacuums = 0` | `DurableInv` |
| `ReachInvHolds`, `RowsReachable`, `SearchesComplete` | `NoRowLost`, `SearchComplete` | `MaxVacuums = 0`, `MaxErrors = 0`, `~StartInvalid` | `ReachInv` |

- *Writers.* An inserter holds no reference between `reserve_slot` and
  `publish_slot_release`. What protects it is that the flusher waits until every
  position handed out is published, and that a sid is handed out once. `WriterInv`
  says so: ids are fresh (`FreshIds`), a memtable in use whose segment is on disk is
  the flusher's (`OnDisk`), what waits to leave the status pages is on disk
  (`Registered`), and a writer's memtable is owned (`WriterOwned`).
- *VACUUM.* It marks the growing memtable, then walks a queue that changes under it,
  then the segments. Why nothing escapes is an ordering argument: after step 1 every
  current memtable with a smaller id than the one marked is in the queue
  (`SweepOrder`), a doomed row is in no younger one, and as long as it is offered it
  is so under an id that is not yet swept (`Sweeping`). `DiskSound` and `Newest` tie
  a segment to its memtable and the growing memtable to the last id.
- *Rows.* What is about to be published is on the status page and in the array, and
  what is on the page of a flushed sid is in the segment (`Logged`). For searches
  there must be no memtable left behind (`NoOrphan`), segment and pool must have all
  the rows of their memtable (`SegmentExact`), and each row a search owes is found
  already, in a memtable it pins, or under a sid that its snapshot leaves to the
  worker (`Awaiting`).

The hypotheses of the last two lines are what the code needs. With a VACUUM a
recycled slot's stale tids are masked (divergence 2), with an ERROR in a rotation
or an index recovered without growing memtable, memtables are orphaned
(divergence 1): each makes `NoRowLost` false. They are the setting of the run
`search`, for any number of backends, searches, slots, rows, positions and any length
of the queue. TLC has checked `WriterInv` with `SweepInv` on the instance of `faults`
(684,576 states) and on one with two VACUUMs (553,641), `WriterInv` with `DurableInv`
on one with an ERROR and no growing memtable (328,263), and `WriterInv`, `DurableInv`
and `ReachInv` on that of `search` (491,714).

Only model-checked: `InsertReturns` and `FlushDrains`, which are liveness.

## 4. SegmentPool

**State.** `flushed_segments` is the array of the pool with the fields of
`FlushedSegmentData`; `head_idx`, `tail_idx` and `insert_idx` are the pool's.
`files` is the set of segment files, each a record of sid range, version, rows
and the mask of its latest bitmap subversion; flushing publishes a version by its
metadata file, which is written last, so it is one step. A row is `<<sid, k>>`.
`registered` are the sids put into the pool so far, `dead` the rows deleted and
`gone` those VACUUM has given back.

**Steps.**

| actions | code |
|---|---|
| `FlushSegment` | the flusher writes the next memtable's files and sends the task |
| `RegularFind`, `RegularReserve`, `RegularLoad`, `RegularRegister` | `SEGMENT_UPDATE_REGULAR`: look for a duplicate, reserve, load, register, each under its own lock |
| `Upgrade` | `InternalSegmentUpgrade`: an mmapped segment moves to a new slot |
| `MergeScan`, `MergeClaim` | choose under the read lock, claim under the write lock |
| `MergeLoad`, `MergeLock`, `MergeLock2`, `MergeReload`, `MergeWrite`, `MergeReserve`, `MergeGiveUp`, `MergeReplace`, `MergeUnlock` | phases 1 to 4 of `rebuild_index_pool` and `merge_adjacent_segments_pool` |
| `SearchBegin`, `SearchPin`, `SearchSegments`, `SearchDrop`, `SearchCheck`, `SearchEnd` | `vector_search` and the thread that finishes the search; giving back a reference is the code's two atomic operations |
| `VacuumBegin`, `VacuumSegment`, `VacuumAnswer`, `VacuumEnd` | step 3 of `bulk_delete_lsm_index` |
| `UpdateFind`, `UpdateLock`, `UpdateApply`, `UpdateDrop`, `UpdateDropCheck` | `SEGMENT_UPDATE_VACUUM` |

**Abstractions.** Sizes, thresholds and the deletion ratio, which decide when a
merge is due, are nondeterministic: any eligible segment may be merged with the
neighbour the code would choose, any with masked rows rebuilt. Bitmaps are sets
of rows and not bit positions; what that hides, a bitmap applied to a version of
another layout, is stated as `VersionsAgree`. An allocation failure in a merge
ends like `MergeGiveUp` and is not modelled separately. WAL records of merges and
VACUUM, dropping an index and the standby's use of the pool are left out. The
index `-1` used by `SEGMENT_UPDATE_REGULAR` on a full pool is taken as the death
of the worker (`rpc = "crash"`).

**Runs.**

| run | instance | shows |
|---|---|---|
| `segment_search` | 1 merge thread, 1 search, 2 segments and 1 flush, 6 slots, 2 merges | `ListIntact`, `PinnedIntact`, `SearchComplete` |
| `segment_vacuum` | 2 merge threads, 1 VACUUM, 3 segments, 2 merges or rebuilds, fairness | `NoRowLost`, `RestartSound`, `VersionsAgree`, `VacuumReturns`, `CompactionEnds` |
| `segment_full` | cold start with mmap, 2 segments and 2 flushes, 5 slots | `NoRowLost` while the pool fills up |

Why these bounds: two segments are one merge; three let two merge threads want
the same one and let a merged segment be rebuilt or merged again. One row per
segment suffices since only "masked or not" matters, and a merged segment has
two. One VACUUM deletes any subset of the rows, begun at any time.

What the passing runs do *not* show, because it is not so. The double cleanup
of `decrement_flushed_segment_ref_count` (decrement, then load, `lsm_segment.c:158-161`)
and the claim of stale indexes are harmful as soon as slots are recycled while
they are under way. `segment_search` has one merge thread (the default is two)
and slots enough that a slot freed by the search is not needed again before the
search is over; `segment_vacuum` has no flush. With 4 slots and 2 flushes
`ListIntact` fails in `segment_search`; with an mmap upgrade too. With VACUUM
added to `segment_full`, `VersionsAgree` and `RestartSound` fail: a merge that
finds no slot leaves its files behind, and a restart prefers them to the ones
VACUUM has been updating since. `VersionsAgree` also fails without that, with an
mmap upgrade in the instance: `InternalSegmentUpgrade` does not take the
`per_seg_mutex` of the slot it replaces, so a `SEGMENT_UPDATE_VACUUM` that has it
does not hold up the merge threads of the new slot; while it waits for nothing more
than its own turn a rebuild can write the next version of the segment, and the
bitmap that it then writes as a subversion of that version is for the rows of the
old one. `PoolSwept` also fails without any merge when an
upgrade copies the bitmap while `SEGMENT_UPDATE_VACUUM` is at it.

**Fairness.** Weak fairness of each thread that has work in hand. They are POSIX
threads of one process; `per_seg_mutex` is held for a bounded time, and the lock
order (lower sid first; no `per_seg_mutex` is waited for under `seg_lock`) is part
of the model, so `CompactionEnds` and `VacuumReturns` include the absence of
deadlock. Weak fairness is enough because the holder of a mutex keeps stepping
and the number of merges is bounded by `MaxCompactions`. That bound matters to
`VacuumReturns`: each RETRY is caused by one merge, so the run shows that finitely
many merges cost finitely many retries, and not that VACUUM outruns merges that
never stop.

**Proofs** (`SegmentPoolProofs`). Since the properties fail once a slot is recycled
under a stale claim, the theorems have a hypothesis, `NoRewind`: no cleanup moves
`insert_idx` back, that is, `cleanup_flushed_segment` finds `seg_lock` taken by
somebody each time the slot lies below `insert_idx`. Under it, for any number of merge threads,
searches, VACUUMs, segments, rows and slots:

| theorem | states |
|---|---|
| `PoolInvariant` | the inductive invariant below |
| `ListStaysIntact` | `ListIntact` |
| `PinsStayIntact` | `PinnedIntact` |
| `RowsStay` | `NoRowLost` |
| `SearchesComplete` | `SearchComplete` |
| `ReferencesExact` | `RefExact`: one reference for the list, one per search that pins the slot, one for the `SEGMENT_UPDATE_VACUUM` at work on it |
| `ClaimsHold` | `ClaimHolds`: what a merge thread has claimed stays linked, adjacent and nobody else's |
| `PoolTypes` | `TypeOK` |
| `OnlyReadersRewind` | `NoRewind` itself, where there are no searches and no VACUUMs: flushing, upgrades and merges clean up under the write lock |
| `MergesLoseNothing` | hence `ListIntact` and `NoRowLost` there, with no hypothesis about the behaviour; `segment_full` is such an instance |

The first eight need `NoRewind`; it leaves in all interleavings of merges, upgrades,
searches and VACUUM, the full pool, the giving up of merges, and slots cleaned up
under whoever still names them.

None of these properties is inductive. What makes them so, in two halves that
need each other, is at the end of `SegmentPool.tla`:

- `PoolInv`. `ListInv` says that the slots of the walk are a `Chain`, linked both
  ways: all edits of the list are then shown to make a chain of a chain, and that
  the walk of a chain is the chain (`WalkChain`) is the one place where the recursion
  of `Walk` is unfolded, by induction on the least counterexample (`Least`) and the
  pigeonhole principle. `Reserving` gives a reserved slot one owner. `Used` slots are
  those that have been in the list; `InHand` says that whatever a thread names is one
  of them, so that a slot can only be filled while nobody names it. This is what
  recycling breaks. `Retired` says that what has left the list is not eligible any
  more, which is why a stale choice of `traverse_and_check_priority_pool` fails at the
  claim. `Claims` and `Adjoining` keep two threads' claims apart and claimed
  neighbours adjacent, also while a choice waits for the lock.
- `RowsInv`. `FilesInv`: one set of files per name, with all live rows, and a version
  number never exceeds the number of files, so the next version is new.
  `SegmentsInv`: a slot with a reference has the rows of its file and all live rows
  of its range. `TasksInv`: so has what a merge thread has built, at each of its
  labels; this is where the second look at the bitmaps matters. `OwedInv`: until it
  has looked, each row that a search owes is in the range of a segment it pins.

Each conjunct has a lemma `...Step`, each kind of change of the pool (`Marks`,
`Reserves`, `Fills`, `Appends`, `Swaps`, `Cleans`) lemmas about what it leaves
alone. The assumptions are those of `PoolSizeAssumption`; that the searches are
finitely many is needed to count references. Before it was proved, the invariant was
checked by TLC on instances with two merge threads, a search and a VACUUM.

**Proofs about versions and about the disk** (`SegmentVersionProofs`). The files of a slot are found by
the sids it holds and by version, and `get_next_segment_version` looks at the disk,
not at the pool. That the two agree is `VersionsAgree`; it is proved under a second
hypothesis, `NoGiveUp`: no merge finds the pool full after it has written its files
(those files are what disk and pool disagree about from then on).

| theorem | states |
|---|---|
| `VersionInvariant` | `VersionInv`, below |
| `VersionsStay` | `VersionsAgree`, with `~ColdStart`: no segment is left for an mmap upgrade, which takes no mutex (above) |
| `RestartStaysSound` | `RestartSound`, upgrades or not |

`VersionInv` has two parts. `Locked`: from `MergeLock` and `MergeLock2` to
`MergeUnlock` the mutexes of the two slots are the merge thread's, although in
between `replace_flushed_segments_n` takes the slots out of the list and the last
reference may clear them (`cleanup_flushed_segment` resets the slot, its mutex with
it, and `MutexMoves` lists whatever else changes one); and while the bitmap is being applied the
slot's mutex is that of `SEGMENT_UPDATE_VACUUM`. `Newest`: a slot of the list has the latest
version on disk, except for the slot that one thread has rebuilt and is about to
replace (`Rebuilt`), and that thread has the latest. A version is written for a range by
whoever has claimed it, and by the flusher for a sid that nobody has yet, so the
proof needs that ranges in the list are disjoint (`ChainDisjoint`, from the chain of
`PoolInv`) and that a range is in one claim (`ClaimsApart`). `VersionsStay` adds
`StaysListed`: what `SEGMENT_UPDATE_VACUUM` has found under its mutex stays in the list,
since whoever would replace it holds that mutex. The one assumption beyond those of
`PoolSizeAssumption` is `ThreadAssumption`, that the identities of the mutexes' owners differ.

`RestartSound` compares the files of a scan, which are those nobody's range covers,
with what the heap has given back; the pool is not in it, but its proof goes through the
pool, for it is the claims on slots that keep the writers of files apart. `DiskInv` is
what had to be said:

- `Nested`: no file reaches beyond a segment of the list, or beyond what a merge thread
  has written to take its place, or it is the flusher's newest. So a scan takes exactly
  the latest files of those ranges (`Top`, `TopScanned`, `ScannedTop`), one for each
  registered sid (`ScannedOnce`, `ScannedCovers`), although it looks at names of files
  only. A merge that gives up would break this for good: its files cover segments that
  are merged and vacuumed on.
- `Contents`, `Sources`: files have rows of their own sids only, and a merge thread's rows
  are in the files of the slots it has claimed, which are files of the scan as long as
  it has not written (`Newest`; `SourceScanned`).
- `Clean(r)`: no file of a scan offers row `r`, and no merge thread is about to write
  one that does. Once true it stays so for a deleted row (`CleanStays`): a flush is of
  other sids, and a merge thread reloads the bitmaps of its sources after it has built.
- `Swept`: which rows are clean how far into VACUUM's pass. A doomed row is when its
  segment has been dealt with (`Dealt`), which after a RETRY is not so until the new
  entries of `files[]` have been; and it is whenever the files of an entry still to come
  do not offer it. At the start of the pass and after a RETRY this needs that the scan
  covers every registered sid (`SweptBegin`, `AnswerCovers`). At the end nothing is left to do, so
  what `ambulkdelete` lets the heap reuse is clean.
- `Reloaded`: a merge thread that has reloaded its bitmaps has what its sources' files
  say, but for the one VACUUM has written since and whose task then waits for a
  mutex of that thread (`Awaited`). When `SEGMENT_UPDATE_VACUUM` gets the mutex, the slot has been
  replaced, which its check of version and place notices, and the answer is RETRY;
  if the check passes, no merge thread has the old bitmap (`LockedClean`).

Before it was proved TLC had checked `DiskInv` on instances with two merge threads,
flushes and a VACUUM. Of `SegmentPool` only the liveness properties are now
model-checked only.

`CHECK_DEADLOCK FALSE` appears where the bounds on rows, merges, searches and
VACUUMs let an instance come to rest.

## 5. StatusPages

**State.** The meta page (`freePageHead`, `freePageTail`, `max_memtable_sid`); the
array of memtable items, as a sequence of pages that are sequences of items
`[sid, head, insert]`; for every other page `nextblkno` and the tids on it. Of
shared memory only what decides the order of calls: the growing memtable,
`next_segment_id`, and the slots handed out. `kept` and `published` are history;
`misdirected` records that `StatusUpdateInsertPage` hit an item of another
memtable.

**Steps.** One action per WAL record, since a crash can fall between any two of
them and another process can come in between: `FindMemtableInsertPage`, `WalkOn`,
`Extend`, `AddItem` and `StatusUpdateInsertPage` are `AddToStatusMemtable`;
`UpdateMaxMemtableSid`, `NextArrayPage` and `RegisterStatusMemtable` are the
registration; `ReleaseStatusMemtable` and `RemoveFromStatusMemtable` are one step
each. A page that `Extend` has just linked stays locked until its first tid is on
it (`Unlocked`).

**Abstractions.** Free space is a number of tids or items. The walk over the array
that finds an item is one step. A crash between the extension of the relation and
the record that links the new page, which leaks a page, is left out. `Crash` takes
the pages as they are: what WAL that was not flushed adds to that is in `Recovery`.
A recovered memtable that is already in a file may be released at any time.

**Run.** `pages`: 2 backends, memtables of two rows, one tid per page and two items
per page of the array, three memtables, 5 inserts, one removal, one crash. So every
second insert extends a chain, from the free list or the file; the array gets a
second page; two inserts race for one memtable and leave its insert page behind
the tail. `Recorded`: recovery would read, for every registered memtable, exactly
the tids added and not removed. `PagesApart`: every page is in one chain or in the
free list, none twice, none forgotten. The second is what makes the first hold in
the next life of a page, and it needs the walk to the tail in
`ReleaseStatusMemtable`: the comment there says the insert page is the tail, and
the deviation that trusts it is caught. Both are stated for histories without a
misdirected update; that such a history exists is divergence 12 of section 11.
Once an update is misdirected, chains share pages, and nothing is claimed. Both are
only model-checked: a chain is a fold over `nextblkno`, and what a fold computes is
beyond the provers.

## 6. IndexSlots

**State.** `SharedLSMIndexBuffer` with the states FREE, RECOVERING, WRITABLE,
LOADING_INDEX and QUERYABLE of its slots; the memtables and the segment pool behind
each slot; per index the segment files and the sids on the status pages; backends,
the recovery worker with its latch, the flusher, and the maintenance queue with its
threads. `gaveup` are the segments whose registration ran into the five minutes of
`wait_for_slot_queryable`.

**Steps.** `claim_or_find_lsm_index_slot` is `ClaimFound`, `ClaimFree`,
`ClaimLabel`, `ClaimSignal` and `ClaimReset`: the state is changed, the slot
labelled, the worker signalled in separate steps. `ensure_index_loaded` is
`EnsureLoaded`, `WinLoad`, `LoadError`, `LoadSubmit`, `LoadPublish`, `LoadWaited`. The
worker's loop is `WorkerStart` to `WorkerScanned`, a recovery `RecoverOpen` and
`RecoverPublish` or `RecoverFail`. The flusher writes, sends and unlinks; a thread
takes a task and loads (`LoadScan`, `LoadFill`) or registers (`WaitQueryable`,
`WaitGiveUp`, `Register`).

**Abstractions.** A wait on `state_cv` is the guard of the step after it, as every
change of state is followed by a broadcast. Memtables are sids. The timeout of the
poll may strike at any time. A load that the worker cannot finish, slots of CREATE
INDEX and the ERROR of a buffer that is full (two indexes have two slots) are not
explored.

**Run.** `slots`: 2 readers, 1 writer, 2 indexes, 2 slots, 1 maintenance thread, 2
operations, one failed recovery, one failed load, one death of the worker.
`SlotOwned`, `Served`, `NoDuplicate` as invariants; `ResolveReturns` and
`FlushAnswered` under weak fairness of every process. One thread is the hard case
for `FlushAnswered`: the flush may stand before the load it waits for, and only the
give-up of the poll lets both go on. `SlotOwned` and `Served` exclude histories in
which a failed recovery has given a slot back, for a backend that waits on it can
find it claimed for another index: it looks at the state of the slot only.

**Fairness.** The postmaster restarts the recovery worker (`bgw_restart_time`,
`vector.c:227`), threads and backends are scheduled; no failure has to happen.

**Proofs.** `IndexSlotsProofs`, for any sets of readers, writers and indexes, any
number of slots, threads, operations and failures, in three layers that are each
inductive relative to those before:

- `LifeInv` (types; `SlotLife`, what a process's place says of the state of its slot;
  `Recovering`, that a slot in recovery is left alone; `TasksAwaited`, that each task
  in the queue or with a thread is the one its client waits for, once; `PoolShape`)
  gives `LoadedOnce`: `NoDuplicate`. The load fills an empty pool because registration
  waits for QUERYABLE, and QUERYABLE is set by the one backend that won the load.
- `OwnInv` (`Claimed`, `Labelled`, `OwnMemtables`) gives `OneSlotPerIndex`: `SlotOwned`.
  The window is that between the claim of a slot and its label, in which a lock-free
  scan does not find it; the buffer lock is held in it.
- `ServeInv` (`Untouched`, `Flushing`, `AllKept`) gives `QueryableServesAll`: `Served`.
  A file is served by a memtable, or by the pool, or by a load that has its name in
  its scan; the flusher gives a memtable up only when one of the latter holds.

`OwnInv` and `ServeInv` speak of histories in which no slot was given back, as do the
properties. The assumption `"flusher" \notin Reader \cup Writer` keeps the flusher apart
from the backends. `IndInv`, the three together, was checked by TLC on the instance of
`slots` and on a larger one (105,468 and 342,783 states). Only model-checked:
`ResolveReturns`, `FlushAnswered`.

## 7. TaskRing and TaskService

`TaskService` is the promise: a client asks, gets one whole answer to that request
and returns. `TaskRing` is how it is kept: a ring of `MaxBackends` tasks under a
lock, a result slot per process that is written and polled without one, latches
that are hints, a main loop that splits a search into a task per segment and
passes maintenance on to a bounded queue, search threads that count down, and a
worker that may be restarted.

**Refinement.** `Implements == Service!Spec` with `busy` the calls under way, `asked`
their number and `answer` what the client would read from its slot by now: nothing
until `status` (or `maint_done`) is set, the right answer if the slot holds count,
payload and status of this request, and otherwise a value that no request of
`TaskService` has. So a slot that is published before it is written, written twice
or by the wrong request is a step that `TaskService` has not. Request numbers are
history: the code stores none.

**Abstractions.** `load` stands for IndexBuild and IndexLoad. A search finds some of
its segments' rows; only their number matters. A restart of the worker takes its
threads and queues with it; the requests lost that way, and those dropped by a full
maintenance queue (`DropMaint`), are in `lost`, and their clients wait for ever, as
in the code. `Conserved` and `CallReturns` are about the others.

**Run.** `tasks`: 2 backends and the startup process, a ring of two slots for three
clients, a maintenance queue of one, 2 requests of up to 2 segments, one restart.
`Conserved`, `Implements`, and `CallReturns` under weak fairness of the clients that
wait, of the worker and of its threads. `CallReturns` is where the timeout of the
main loop's `WaitLatch` is needed: without it, a task announced to the process
number of a worker that is gone stays in the ring, and the deviation shows it.

**Proofs.** `TaskRingProofs`, for any finite set of backends, any auxiliary processes, threads, requests,
segments, restarts and any length of the maintenance queue:

- `Invariant`: `Spec => []IndInv`
- `RequestsConserved`: `Conserved`
- `RingImplementsService`: `Spec => Implements`, initial states and each step.

`IndInv` says where tasks can be. Whatever is live in the ring, queued, held by a
thread or being searched is the request its client waits for (`AllCurrent`), in one
place only (`Single`), and a request that waits and is not lost is somewhere
(`Somewhere`). `ThreadShape`, `SearchShape` and `Answered` add what has been written to
the result slot at each stage: that is what makes the step that sets the status word
an answer of `TaskService`, and every step before it a stutter. The proof of the first
group goes by how a step moves tasks (nothing, one from the ring to a thread, all of
a dead worker's into `lost`, ...), so an action is classified once and each conjunct
is shown once per kind of move. The ring's window is arithmetic modulo `ring_size`;
its lemmas come first. TLC checked `IndInv` on the instance of `tasks` (92,573 states)
and with 2 threads, a queue of 2 and 3 requests (707,405). Only model-checked:
`CallReturns`.

## 8. Recovery

**State.** Heap, status pages and `max_memtable_sid`, with all the states they had
since the WAL was last flushed (`past`); the segment files, which are written
directly and survive as they are; memtables, pool and the flusher's progress, which
do not. A row is its tid and the number of its insert, as a tid whose insert was
lost is used again.

**Steps.** A commit flushes the WAL. `Crash` takes the pages back to any state in
`past`. Recovery is `RecoverScan`, step 1 (`RecoverUnregistered`: entries of sids
that were never registered are masked in the files), step 2 (`RecoverMissing`:
entries without their tid on the pages) and step 3 (`RecoverMemtables`: the
memtables beyond the last file are rebuilt). A second crash may come between them.

**Abstractions.** Status pages are sets of tids per sid (`StatusPages` is about their
layout). A merge is one step. Deletion and VACUUM are left out.

**Run.** `recovery`: memtables of two rows, sids up to 6, 4 inserts, 2 crashes, 2
merges. `CommittedVisible` and `LostInvisible` together say that recovery masks
neither too much nor too little. Excepted from the first are histories in which a
sid was given out twice: divergence 11. Recovery need not end: a crash after the
last memtable was released and before the next one was registered leaves no sid,
and `sids[0]` is read through NULL (`lsmindex.c:743`). `RecoveryEnds` states what is
missing; no run claims it. The properties are only model-checked: what recovery
takes from the directory is a fold over the files in order.

## 9. FetchQueue

**State.** The entry files of the queue (absent, PENDING, FETCHING, FAILED), the
segment's files and the `.tmp` beside each, told apart as names and inodes, each
fetcher's place in its pull, and the replay position.

**Steps.** `dpv_queue_enqueue` by replay; for each fetcher `Start`, the sweep of
worker 0 over orphaned claims, `dpv_queue_pop_pending`, `Open`, `Receive`, `Rename`
per file, `MarkDone`, `MarkFailed`. Faults: a request refused, a stream that breaks,
an ERROR of any worker while it adopts, a crash of the standby with replay from a
restartpoint. A rename fails when a peer has taken the shared `.tmp` away, and the
`unlink` after it (`RenameUndone`, `segment_fetcher.c:399`) removes what a peer may
have put there since.

**Abstractions.** The primary's `replication_server` is its answers. The five files of
a segment are two, since index, mapping, offset and bitmap are pulled alike; a file
arrives in `Chunks` reads. The kernel does not crash: what was written stays. The
sweep's read and write of an entry (`pending_fetch_queue.c:340-344`) are one step. In
between, a live worker can only turn its own claim into FAILED or remove the entry
(the descriptor then writes to an unlinked file), so what this hides is a FAILED
entry that the sweep turns back into a pending one.

**Run.** `fetch`: 2 fetchers, 2 segments, 2 faults. `SegmentComplete`: a metadata file
means a whole segment. `NothingDropped`: an announced segment is in the queue or
here. `Settles`: under weak fairness of the workers every entry is, again and again,
done or FAILED, or a claim that died with a worker other than worker 0 and that
worker 0 has not swept since (the history `left`). Such a claim may stay
FETCHING for ever: only worker 0 sweeps, when it starts, and the entry "will simply
wait until worker 0 comes back to demote" (`segment_fetcher.c:587`). `SegmentComplete` excludes segments that two workers
pulled at once, which happens when worker 0 is restarted next to a live peer: its
sweep demotes the peer's claim. FAILED is final: neither the sweep nor a second replay of the
record touches such an entry, although a broken connection is enough to get there
(`segment_fetcher.c:633`). So nothing here claims that every segment arrives.

**Proofs.** `FetchQueueProofs`, for any number of fetchers, segments, chunks and faults
and any list of file kinds that ends with the metadata:

- `MetadataMarksWhole`: `SegmentComplete`
- `NoSegmentForgotten`: `NothingDropped`
- `FilesStay`: no step takes away a file that has its final name.

The inductive invariant adds `Shape` (what a fetcher's place says of its record),
`Alone` (a segment that was never shared has one puller, and its entry says so),
`Progress` (the files before the one in hand are whole, and what has been received is
in the `.tmp` that the descriptor points to) and `Arrived`. `Progress` is why the order
of the files matters: the metadata file is pulled when all others are whole. TLC
checked it on the instance of `fetch` (806,328 states) and on one with two chunks per
file. Only model-checked: `Settles`.

## 10. Standby

**State.** The primary as of the record replayed last; the standby's slot, memtables
with their bitmaps, segment pool, files with their latest bitmaps; the queue; the
tombstone being replayed; each fetcher with the ADOPT task it waits for. `lost` are
tombstones the code gives up; `twice` are sids whose memtable two adoptions covered
at once. Both are histories: no step reads them, but for the bound below.

**Steps.** Replay of register, insert, segment records (of a flush, a merge, a
rebuild) and tombstones, these as `dpv_apply_vacuum_tombstones`: `FindMemtable`,
`apply_entries_to_memtable`, `apply_to_disk_file_for_sid`, `VacuumPin`,
`VacuumApply`, `GiveUp`. The load of the index in three steps. Each fetcher:
`pull_all_files`, `CoverScan`, `AdoptLoad`, `AdoptDecide`, `AdoptCommit` (with the
re-validation and its retries), `fetcher_release_covered_memtables`, `Unlock`.
Bitmaps are read by position, so that applying one to another layout does what it
does (`AsBitsOf`).

**Abstractions.** One tombstone per record. Entries of the queue are pulled in any
order and whole. No pins of searches, no restart of the standby, no give-up of
`wait_for_slot_queryable`, no index that is missing from the buffer.

**Run.** `standby`: two fetchers (the default of
`replication_fetch_parallelism`), three sids of one row, one tombstone, versions up to
2, room for every memtable; 852,853 states. `RowsVisible`, `TombstonesKept`,
`PoolDisjoint`, `RedoNeverErrors` and, under weak fairness of a replay, a load and a
fetch that have begun, `ReplayGoesOn`. The three are in each other's way: replay
waits for the lock of a memtable that a fetcher holds while its adoption waits for
the load.

Two adoptions decide and commit in any order, so the re-validation fails, decides
anew and gives up after `MAX_ADOPT_RETRIES`; without it (`AdoptCommitBlind`)
`PoolDisjoint` is violated. It excepts the sids in `twice`: for two adoptions that
cover the same memtable the re-validation is not enough (divergence 10), and
`TombstonesKept` excepts their rows, which the overlap brings back.

`MaxAtWork` bounds the instance, not the code: once a row is deleted and the last
memtable is there, at most one fetcher is at work and `twice` is empty (`Explored`, a
guard of the registration, of the tombstone record and of the pull). Before one or
the other has happened both fetchers run freely: over three sids without a
tombstone, and over two with one. Fetchers that are idle are alike, and the pull is
the step of one of them.

`TombstonesKept` says little about a tombstone that comes before the load:
`IndexLoadRead` puts into `lost` what the files it scans lack (divergence 9).

The bounds stay below what breaks the code: with two rows per memtable and two
tombstones a version of the standby and one of the primary have the same number, the
fast path of `segment_vacuum_redo.c:333` takes positions of another layout, and `TombstonesKept`
fails; with `MEMTABLE_NUM = 1` and four sids the sealed memtable that finds no room
(`standby_memtable.c:130`) takes its rows with it, and `RowsVisible` fails. For the
same reason no theorem states these properties: they are not true for every value
of the constants.

## 11. Divergences

Where the code does something else than a comment says, an instance with that one
property shows it. These instances end with a counterexample; no run depends on
them.

1. `MCMemtables_orphan.cfg`, `NoRowLost`. Of an index recovered without growing
   memtable `lsmindex.c:1145` says "it will be allocated in the insert path". Two
   backends that both saw `MT_IDX_INVALID` both rotate, since neither 1637 nor 1650
   looks at `growing_memtable_idx` again: the second overwrites the growing memtable
   of the first, whose rows no search and no flush sees until the next recovery.
2. `MCMemtables_stale.cfg`, `NoRowLost`. `lsmindex.c:2414`: "immutable memtables are
   sealed, so all slots are valid". Inserters may still be between `reserve_slot`
   and `publish_slot_release`, and `tids[]` holds what the slot's previous memtable
   left: VACUUM masks a position for a dead TID there, and the row written to it a
   moment later is committed and invisible.
3. `MCMemtables_pool.cfg`, `PoolSwept`. `lsmindex.c:2169` and 2337 end in "notify the
   index worker to update the bitmap (latest segment files)". The notification asks
   for version 0 (2288), which no segment has, is answered RETRY, and the answer is
   cast to void.
4. `MCSegmentPool_reuse.cfg`, `NoRowLost`. `vector_index_worker.c:1649`: the indexes
   "are already ordered by segment_id_start". They were, under a read lock that was
   dropped before the claim (1036), which does not look at the sids again; a slot
   recycled in between makes `replace_flushed_segments_n` drop live segments.
5. `MCSegmentPool_wrap.cfg`, `ReserveFinds`. `lsm_segment.c:212`:
   "reserve_flushed_segment will eventually wrap around and find the slot". It scans
   from `insert_idx` to the end (63) and never wraps; `SEGMENT_UPDATE_REGULAR` then
   indexes the array with -1.
6. `MCSegmentPool_window.cfg`, `PoolSwept`. `vector_index_worker.c:358`: "Segment
   merged away -> tell caller to retry against the new segment". Between the files
   (1592) and the list (1653) the new segment is on disk only: VACUUM's retry finds
   nothing left to do, and the pool keeps the rows.
7. `MCTaskRing_late.cfg`, `AnswerFresh`. `tasksend.c:55`: a backend "can no longer"
   "read a stale/half-written result slot". A search that raises ERROR after it has
   sent its task leaves it with the worker, whose answer can be taken for the next
   one's: result slots carry no request number.
8. `MCFetchQueue_meta.cfg`, `HarmlessOverwrite`. `segment_fetcher.c:446`: overwriting
   the per-index metadata "with identical content is harmless". Two fetchers share
   its `.tmp` (251): the rename of one takes the file away from the other, whose own
   rename fails, and its entry ends as FAILED, which is final.
9. `MCStandby_loss.cfg`, `NoSilentLoss`. `segment_vacuum_redo.c:230`: "no silent loss".
   A tombstone applied to a file before the index is loaded is not carried over to
   the next file that covers the row; the load brings the row back.
10. `MCStandby_overlap.cfg`, `SoleRepresentation`. `segment_adoption.c:408`: the walk "always
    displaces both predecessor kinds", so that the new segment is "the sole rep for
    that range". With two fetchers the re-validation (572) looks at the predecessors
    seen before and not at what another adoption has added since: two that cover
    the same memtable both commit.
11. `MCRecovery_reuse.cfg`, `FlushedOnDisk`. `lsmindex.c:1072`: "those sids are already
    flushed to disk as segments". After a crash that lost a registration, a sid is
    given out again that a file has already; at the next recovery its memtable is
    taken for flushed, and committed rows are gone.
12. `MCStatusPages_moved.cfg`, `Directed`. `StatusUpdateInsertPage` (`statuspage.c:456`)
    writes to an offset that was read under a lock given up since; the release of
    another memtable has moved the items (`PageIndexTupleDelete`). The insert page of
    a foreign memtable is overwritten: its next tids go to another chain, and its
    release puts pages into the free list that are still in use.

## 12. Not modelled

Out of reach or without state of its own: the numeric index library, pgvector's
data types, k-means and graph code, GUCs. Not yet: when merges are due (sizes,
thresholds and the pool's statistics, which are counted twice at
`vector_index_worker.c:1347`), drop of an index, CREATE INDEX, memtable slots shared
by several indexes, VACUUM's errors, an ERROR of `XLogInsert` under
`dpv_wal_emit_mutex` (`vector_index_worker.c:199`), the primary's side of the
shipping beyond its answers, and a restart of the standby together with adoption.
A search on an index that recovery left without growing memtable spins until
somebody inserts (`lsmindex.c:2024`); the module has it, no property is about it.

Out of the proof system's reach, and left to TLC: liveness, which needs fairness and
ENABLED (`InsertReturns`, `FlushDrains`, `VacuumReturns`, `CompactionEnds`,
`ResolveReturns`, `FlushAnswered`, `CallReturns`, `Settles`, `ReplayGoesOn`), and facts
about recursively defined data such as the walk of a page chain (`Recorded`,
`PagesApart`) or recovery's pass over the segment files (`CommittedVisible`, `LostInvisible`).
Not true for every value of the constants, and so checked on instances that stay
below the divergences: the properties of `Standby`. The safety properties of
`SegmentPool` are proved under hypotheses about the behaviour, section 4.
