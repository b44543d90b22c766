------------------------------ MODULE Standby ------------------------------
(***************************************************************************)
(* One index on a hot standby.                                             *)
(*                                                                         *)
(* The startup process replays the WAL: memtables are built up again, and  *)
(* a segment the primary has made is only announced to the fetchers, which *)
(* pull its files and have it adopted into the segment pool in the place   *)
(* of the memtables and segments it covers.  Rows deleted on the primary   *)
(* arrive in the WAL as tombstones and go to whatever holds the row here:  *)
(* a memtable, a file, a segment of the pool, or several of these.         *)
(*                                                                         *)
(* The primary is what makes the WAL: its step and the redo of its record  *)
(* are one action.  Files never change after their record, so that a pull  *)
(* may come at any later time.  A row stands for its tid.                  *)
(***************************************************************************)
EXTENDS Integers, Sequences, FiniteSets, SequencesExt

CONSTANTS
    Fetcher,                  \* pgvector.replication_fetch_parallelism of them
    MEMTABLE_NUM,             \* sealed memtables of an index
    MAX_SEGMENTS_COUNT,       \* slots of the segment pool
    MAX_VACUUM_REDO_RETRIES,
    MAX_ADOPT_RETRIES,
    Capacity,                 \* rows of a memtable
    LastSid,                  \* bound: the last memtable
    MaxVacuums,               \* bound on the tombstone records
    MaxVersion,               \* bound on the versions of one range
    MaxAtWork                 \* bound on the fetchers at work at once as soon as
                              \* rows are deleted and the last memtable is there

ASSUME StandbyAssumption ==
    /\ {MEMTABLE_NUM, MAX_SEGMENTS_COUNT, MAX_VACUUM_REDO_RETRIES,
        MAX_ADOPT_RETRIES, Capacity, LastSid} \subseteq Nat \ {0}
    /\ {MaxVacuums, MaxVersion, MaxAtWork} \subseteq Nat

VARIABLES
    \* the primary as of the record replayed last: the rows of each memtable
    \* (-1: not registered), its segments, the rows it has vacuumed
    rows, primary, dead,
    \* shared memory: the slot's state, growing_memtable_id (0: none), the sids
    \* of memtable_idxs, the bitmaps of the memtables, the segment pool as the
    \* bitmap of each of its segments
    slot, growing, sealed, mask, pool,
    \* the disk: entries of the fetch queue, the latest bitmap of each segment
    queue, bitmap,
    \* the load of the index: the segments it scanned
    scanned,
    \* the replay of a tombstone record
    redo,
    \* the fetchers, each with the ADOPT task it waits for
    fetcher,
    \* history: tombstones that the code gives up; sids whose memtable two
    \* adoptions covered at once
    lost, twice

primaryVars  == <<rows, primary, dead>>
memtableVars == <<growing, sealed, mask>>
loadVars     == <<slot, scanned>>

histVars     == <<lost, twice>>

vars == <<primaryVars, loadVars, memtableVars, pool, queue, bitmap, redo,
          fetcher, histVars>>

-----------------------------------------------------------------------------
(* Segments.                                                               *)

FirstSid == 1
Sid == FirstSid .. LastSid
Row == Sid \X (1 .. Capacity)

NoSid == 0

\* A segment: its range and version, its mapping file, and the rows that are
\* masked in the bitmap file the primary made with it.
Segment(lo, hi, v, mapping, base) ==
    [start |-> lo, end |-> hi, version |-> v, map |-> mapping, base |-> base]

Covers(g, s)     == g.start <= s /\ s <= g.end
Sids(g)          == g.start .. g.end
SameRange(g, h)  == g.start = h.start /\ g.end = h.end
Overlaps(g, h)   == g.start <= h.end /\ h.start <= g.end
RowsOf(g)        == ToSet(g.map)

\* The part of the mapping that belongs to sid s: the offset file.
Slice(g, s) == SelectSeq(g.map, LAMBDA r : r[1] = s)

\* Set bits are positions: the rows at the positions that are set for h in a
\* bitmap of segment g.
AsBitsOf(g, set, h) ==
    {h.map[i] : i \in {j \in DOMAIN h.map : j \in DOMAIN g.map /\ g.map[j] \in set}}

MemtableRows(s) == {<<s, i>> : i \in 1 .. rows[s]}

Memtables == (sealed \cup {growing}) \ {NoSid}

\* Files of one range count in their latest version.
Latest(files) ==
    {g \in files : \A h \in files : SameRange(g, h) => h.version <= g.version}

\* scan_segment_metadata_files: by start, the larger range first, without the
\* ranges that begin within one taken before.  Ranges are nested or disjoint.
scan_segment_metadata_files ==
    LET files == Latest(DOMAIN bitmap)
    IN  {g \in files : \A h \in files \ {g} : ~(h.start <= g.start /\ g.end <= h.end)}

\* The bound of MaxAtWork: what is explored when the rows in deleted are, the
\* last memtable has n rows (-1: it is not there) and the fetchers fs are at
\* work.  With all three, two adoptions have not covered a memtable at once.
Explored(deleted, n, fs) ==
    deleted = {} \/ n = -1 \/ (Cardinality(fs) <= MaxAtWork /\ twice = {})

AtWork == {f \in Fetcher : fetcher[f].pc # "idle"}

-----------------------------------------------------------------------------
(* The WAL of memtables and segments.                                      *)

Idle == [pc |-> "idle", row |-> <<NoSid, 0>>, version |-> 0, idx |-> 0,
         handled |-> FALSE, tries |-> 0, target |-> {}]

Flushed(s) == \E g \in primary : Covers(g, s)

\* redo_register_memtable, dpv_standby_register_memtable: a newer memtable
\* becomes the growing one; there may be no room in memtable_idxs for the one
\* it seals.
dpv_standby_register_memtable(s) ==
    /\ redo.pc = "idle"
    /\ rows[s] = -1 /\ rows[s - 1] # -1
    /\ rows' = [rows EXCEPT ![s] = 0]
    /\ Explored(dead, rows'[LastSid], AtWork)
    /\ mask' = [mask EXCEPT ![s] = {}]
    /\ LET seals == IF s > growing THEN growing ELSE s
       IN  sealed' = IF seals # NoSid /\ Cardinality(sealed) < MEMTABLE_NUM
                       THEN sealed \cup {seals} ELSE sealed
    /\ growing' = IF s > growing THEN s ELSE growing
    /\ UNCHANGED <<primary, dead, loadVars, pool, queue, bitmap, redo, fetcher, histVars>>

\* redo_add_to_memtable, dpv_standby_add_to_memtable.  Inserts into a memtable
\* that is full, and sealed for that, may still be under way.
dpv_standby_add_to_memtable(s) ==
    /\ redo.pc = "idle"
    /\ rows[s] \in 0 .. Capacity - 1
    /\ rows' = [rows EXCEPT ![s] = @ + 1]
    /\ UNCHANGED <<primary, dead, loadVars, memtableVars, pool, queue, bitmap, redo,
                   fetcher, histVars>>

\* redo_segment_created, redo_segment_replaced: g is queued for the fetchers.
Announce(g, olds) ==
    /\ redo.pc = "idle"
    /\ primary' = (primary \ olds) \cup {g}
    /\ queue' = queue \cup {g}
    /\ UNCHANGED <<rows, dead, loadVars, pool, bitmap, redo, fetcher, histVars>>

\* The memtable of sid s as a segment.
FlushOf(s) ==
    LET all == [i \in 1 .. Capacity |-> <<s, i>>]
    IN  Segment(s, s, 1, all, ToSet(all) \cap dead)

\* Deviation: the memtable is released with the record of its segment.
FlushReleases(s) ==
    /\ rows[s] = Capacity /\ ~Flushed(s)
    /\ Announce(FlushOf(s), {})
    /\ sealed' = sealed \ {s} /\ growing' = IF growing = s THEN NoSid ELSE growing
    /\ UNCHANGED mask

\* A memtable is flushed when all its slots are filled.
Flush(s) ==
    /\ rows[s] = Capacity /\ ~Flushed(s)
    /\ Announce(FlushOf(s), {})
    /\ UNCHANGED memtableVars

\* merge_adjacent_segments: rows and bitmaps are put together.  Versions count
\* from 1 for every range.
Merge(g, h) ==
    /\ g.end + 1 = h.start
    /\ Announce(Segment(g.start, h.end, 1, g.map \o h.map,
                        (RowsOf(g) \cup RowsOf(h)) \cap dead), {g, h})
    /\ UNCHANGED memtableVars

\* rebuild_index: the masked rows are left out.
Rebuild(g) ==
    /\ RowsOf(g) \cap dead # {} /\ g.version < MaxVersion
    /\ Announce(Segment(g.start, g.end, g.version + 1,
                        SelectSeq(g.map, LAMBDA r : r \notin dead), {}), {g})
    /\ UNCHANGED memtableVars

-----------------------------------------------------------------------------
(* The replay of a tombstone, dpv_apply_vacuum_tombstones.                 *)

\* emit_vacuum_tombstones on the primary: the row with its position among the
\* rows of its sid, and the version of the segment it is in (0: a memtable).
redo_vacuum_tombstones(r) ==
    LET owner == {g \in primary : Covers(g, r[1])}
        version == IF owner = {} THEN 0 ELSE (CHOOSE g \in owner : TRUE).version
        slice == IF owner = {} THEN [i \in 1 .. Capacity |-> <<r[1], i>>]
                 ELSE Slice(CHOOSE g \in owner : TRUE, r[1])
    IN  /\ redo.pc = "idle"
        /\ Cardinality(dead) < MaxVacuums
        /\ Explored({r}, rows[LastSid], AtWork)
        /\ r[2] <= rows[r[1]] /\ r \notin dead
        /\ dead' = dead \cup {r}
        /\ redo' = [Idle EXCEPT !.pc = "find", !.row = r, !.version = version,
                       !.idx = CHOOSE i \in DOMAIN slice : slice[i] = r]
        /\ UNCHANGED <<rows, primary, loadVars, memtableVars, pool, queue, bitmap,
                       fetcher, histVars>>

redoFrame == <<primaryVars, loadVars, growing, sealed, queue, fetcher, twice>>

\* apply_to_memtable_for_sid, phase A: under mt_lock.
FindMemtable ==
    /\ redo.pc = "find"
    /\ redo' = [redo EXCEPT !.pc = IF redo.row[1] \in Memtables THEN "lock" ELSE "disk"]
    /\ UNCHANGED <<redoFrame, mask, pool, bitmap, lost>>

VacuumLocked(s) ==
    \E f \in Fetcher : s \in fetcher[f].cover

\* Phase B: vacuum_lock is exclusive.  A memtable that was released while the
\* lock was waited for still has its memtable_id, and takes the tombstone.
apply_entries_to_memtable ==
    LET s == redo.row[1]
    IN  /\ redo.pc = "lock" /\ ~VacuumLocked(s)
        /\ mask' = [mask EXCEPT ![s] = @ \cup ({redo.row} \cap MemtableRows(s))]
        /\ redo' = [redo EXCEPT !.pc = "disk", !.handled = TRUE]
        /\ UNCHANGED <<redoFrame, pool, bitmap, lost>>

\* The row a tombstone is for in the file of segment g: by position when the
\* version is that of the primary's segment, else by tid.
Hit(g) ==
    LET slice == Slice(g, redo.row[1])
    IN  IF redo.version = g.version
          THEN {slice[i] : i \in {redo.idx} \cap DOMAIN slice}
          ELSE {redo.row} \cap RowsOf(g)

\* apply_to_disk_file_for_sid: the bitmap of the file is written under its
\* next subversion, then the worker is told.
apply_to_disk_file_for_sid ==
    LET found == {g \in scan_segment_metadata_files : Covers(g, redo.row[1])}
    IN  /\ redo.pc = "disk" /\ redo.tries < MAX_VACUUM_REDO_RETRIES
        /\ \/ /\ found = {}
              /\ redo' = IF redo.handled THEN Idle ELSE [redo EXCEPT !.pc = "ERROR"]
              /\ UNCHANGED bitmap
           \/ \E g \in found :
                /\ bitmap' = [bitmap EXCEPT ![g] = @ \cup Hit(g)]
                /\ redo' = [redo EXCEPT !.pc = "task", !.tries = @ + 1, !.target = {g}]
        /\ UNCHANGED <<redoFrame, mask, pool, lost>>

\* The retries are used up: a WARNING.
GiveUp ==
    /\ redo.pc = "disk" /\ redo.tries = MAX_VACUUM_REDO_RETRIES
    /\ redo' = Idle
    /\ lost' = lost \cup {redo.row}
    /\ UNCHANGED <<redoFrame, mask, pool, bitmap>>

\* SEGMENT_UPDATE_VACUUM, step 1: a slot that is loading is waited for; the
\* segment is pinned.
VacuumPin ==
    /\ redo.pc = "task"
    /\ \/ slot = "writable" /\ redo' = Idle
       \/ /\ slot = "queryable"
          /\ LET same == {g \in DOMAIN pool : \A t \in redo.target : SameRange(g, t)}
             IN  \/ same = {} /\ redo' = [redo EXCEPT !.pc = "disk"]
                 \/ \E g \in same :
                      redo' = IF g \in redo.target THEN [redo EXCEPT !.pc = "apply"]
                                                   ELSE [redo EXCEPT !.pc = "disk"]
    /\ UNCHANGED <<redoFrame, mask, pool, bitmap, lost>>

\* Step 2, under per_seg_mutex: the segment must still be in the pool.  The
\* bitmap that is loaded is the one of the latest version of the range.
VacuumApply ==
    /\ redo.pc = "apply"
    /\ \A g \in redo.target :
         IF g \in DOMAIN pool
           THEN LET h == CHOOSE x \in Latest(DOMAIN bitmap) : SameRange(x, g)
                IN  /\ pool' = [pool EXCEPT ![g] = @ \cup AsBitsOf(h, bitmap[h], g)]
                    /\ lost' = IF h = g THEN lost ELSE lost \cup {redo.row}
                    /\ redo' = Idle
           ELSE /\ redo' = [redo EXCEPT !.pc = "disk"]
                /\ UNCHANGED <<pool, lost>>
    /\ UNCHANGED <<redoFrame, mask, bitmap>>

-----------------------------------------------------------------------------
(* The load of the index, by the first search.                             *)

IndexLoadScan ==
    /\ slot = "writable"
    /\ slot' = "loading"
    /\ scanned' = scan_segment_metadata_files
    /\ UNCHANGED <<primaryVars, memtableVars, pool, queue, bitmap, redo, fetcher, histVars>>

\* The bitmaps come from the files.  Nothing carries a tombstone from a file or
\* a memtable to the next file while the index is not loaded: what a scanned
\* file lacks is lost, but for the tombstone that is being replayed.
IndexLoadRead ==
    /\ slot = "loading"
    /\ slot' = "loaded"
    /\ pool' = [g \in scanned |-> bitmap[g]]
    /\ lost' = lost \cup {r \in dead : r # redo.row /\ \E g \in scanned :
                                         r \in RowsOf(g) \ bitmap[g]}
    /\ UNCHANGED <<primaryVars, memtableVars, scanned, queue, bitmap, redo, fetcher,
                   twice>>

IndexLoadPublish ==
    /\ slot = "loaded"
    /\ slot' = "queryable"
    /\ scanned' = {}
    /\ UNCHANGED <<primaryVars, memtableVars, pool, queue, bitmap, redo, fetcher, histVars>>

-----------------------------------------------------------------------------
(* The fetchers.                                                           *)

NoTask == [pc |-> "idle", seg |-> {}, cover |-> {}, groups |-> {}, bits |-> {},
           preds |-> {}, tries |-> 0, status |-> 0]

fetchFrame == <<primaryVars, loadVars, redo>>

Set(f, c) == fetcher' = [fetcher EXCEPT ![f] = c]

\* dpv_queue_pop_pending, pull_all_files: entries come in any order.  Fetchers
\* that are idle are all alike, one of them stands for the others.
pull_all_files(f, g) ==
    /\ AtWork # Fetcher /\ f = CHOOSE x \in Fetcher \ AtWork : TRUE
    /\ g \in queue
    /\ Explored(dead, rows[LastSid], AtWork \cup {f})
    /\ queue' = queue \ {g}
    /\ bitmap' = [h \in DOMAIN bitmap \cup {g} |-> IF h = g THEN g.base ELSE bitmap[h]]
    /\ Set(f, [NoTask EXCEPT !.pc = "pulled", !.seg = {g}])
    /\ UNCHANGED <<fetchFrame, memtableVars, pool, histVars>>

\* The memtables that g covers, locked against tombstones from now on, and the
\* tombstones they have.
CoverScan(f) ==
    /\ fetcher[f].pc = "pulled"
    /\ \E g \in fetcher[f].seg :
         LET cover == Memtables \cap Sids(g)
         IN  /\ Set(f, [fetcher[f] EXCEPT !.pc = "adopt", !.cover = cover,
                           !.groups = UNION {mask[s] : s \in cover}])
             /\ twice' = twice \cup {s \in cover : \E x \in Fetcher \ {f} :
                                                    s \in fetcher[x].cover}
    /\ UNCHANGED <<fetchFrame, memtableVars, pool, queue, bitmap, lost>>

Reserved == {f \in Fetcher : fetcher[f].pc \in {"decide", "commit"}}

\* Deviation: an index that nobody loads is waited for.
AdoptLoadWaits(f) ==
    /\ fetcher[f].pc = "adopt" /\ slot = "queryable"
    /\ \E g \in fetcher[f].seg :
         Set(f, [fetcher[f] EXCEPT !.pc = "decide", !.bits = bitmap[g]])
    /\ UNCHANGED <<fetchFrame, memtableVars, pool, queue, bitmap, histVars>>

\* SEGMENT_UPDATE_ADOPT waits for a slot that is loading.  dpv_pool_adopt takes
\* a slot of the pool and loads the bitmap of the file, without a lock.
AdoptLoad(f) ==
    /\ fetcher[f].pc = "adopt"
    /\ \/ /\ slot = "writable"
          /\ Set(f, [fetcher[f] EXCEPT !.pc = "release", !.status = 2])
       \/ /\ slot = "queryable"
          /\ IF Cardinality(DOMAIN pool) + Cardinality(Reserved) < MAX_SEGMENTS_COUNT
               THEN \E g \in fetcher[f].seg :
                      Set(f, [fetcher[f] EXCEPT !.pc = "decide", !.bits = bitmap[g]])
               ELSE Set(f, [fetcher[f] EXCEPT !.pc = "release", !.status = 1])
    /\ UNCHANGED <<fetchFrame, memtableVars, pool, queue, bitmap, histVars>>

\* The case that applies to g: what it replaces, or that it is stale.
Stale(g, cover) ==
    \/ \E p \in DOMAIN pool : SameRange(p, g) /\ g.version <= p.version
    \/ \E p \in DOMAIN pool : ~SameRange(p, g) /\ Sids(g) \subseteq Sids(p)
    \/ \E p \in DOMAIN pool : Overlaps(p, g) /\ p.end > g.end
    \/ \E s \in Sids(g) \ cover : ~\E p \in DOMAIN pool : Covers(p, s)

\* The segments of the pool that g replaces.
Predecessors(g) == {p \in DOMAIN pool : Overlaps(p, g)}

AdoptDecide(f) ==
    /\ fetcher[f].pc = "decide"
    /\ \E g \in fetcher[f].seg :
         Set(f, IF Stale(g, fetcher[f].cover)
                  THEN [fetcher[f] EXCEPT !.pc = "release", !.status = 1]
                  ELSE [fetcher[f] EXCEPT !.pc = "commit",
                           !.preds = Predecessors(g)])
    /\ UNCHANGED <<fetchFrame, memtableVars, pool, queue, bitmap, histVars>>

\* Deviation: the tombstones of replaced segments are not carried over.
CarriedGroups(c, g) == c.groups \cap RowsOf(g)

\* The tombstones that go into segment g: those of the segments it replaces,
\* and those of the memtables unless it replaces its own earlier version.
Carried(c, g) ==
    LET rebuilt == \E p \in c.preds : SameRange(p, g)
    IN  ((UNION {pool[p] : p \in c.preds}) \cup (IF rebuilt THEN {} ELSE c.groups))
          \cap RowsOf(g)

\* Deviation: what was decided is not re-validated.
AdoptCommitBlind(f) ==
    LET c == [fetcher[f] EXCEPT !.preds = @ \cap DOMAIN pool]
    IN  /\ c.pc = "commit"
        /\ \E g \in c.seg :
              pool' = [h \in (DOMAIN pool \ c.preds) \cup {g} |->
                         IF h = g THEN c.bits \cup Carried(c, g) ELSE pool[h]]
        /\ Set(f, [c EXCEPT !.pc = "release", !.status = 0])
        /\ UNCHANGED <<fetchFrame, memtableVars, queue, bitmap, histVars>>

\* Under the per_seg_mutex of each predecessor: all still there, or decide anew.
AdoptCommit(f) ==
    LET c == fetcher[f]
    IN  /\ c.pc = "commit"
        /\ IF c.preds \subseteq DOMAIN pool
             THEN /\ \E g \in c.seg :
                       pool' = [h \in (DOMAIN pool \ c.preds) \cup {g} |->
                                  IF h = g THEN c.bits \cup Carried(c, g) ELSE pool[h]]
                  /\ Set(f, [c EXCEPT !.pc = "release", !.status = 0])
             ELSE /\ Set(f, IF c.tries + 1 = MAX_ADOPT_RETRIES
                              THEN [c EXCEPT !.pc = "release", !.status = 1]
                              ELSE [c EXCEPT !.pc = "decide", !.tries = @ + 1])
                  /\ UNCHANGED pool
        /\ UNCHANGED <<fetchFrame, memtableVars, queue, bitmap, histVars>>

\* Deviation: every memtable up to the end of the range is dropped.
DropMemtablesBefore(g) ==
    /\ sealed' = {s \in sealed : s > g.end}
    /\ growing' = IF growing <= g.end THEN NoSid ELSE growing
    /\ UNCHANGED mask

\* Memtables in the range are dropped.
DropMemtables(g) ==
    /\ sealed' = sealed \ Sids(g)
    /\ growing' = IF growing \in Sids(g) THEN NoSid ELSE growing
    /\ UNCHANGED mask

\* fetcher_release_covered_memtables, unless the segment was stale.
fetcher_release_covered_memtables(f) ==
    /\ fetcher[f].pc = "release"
    /\ IF fetcher[f].status = 1
         THEN UNCHANGED memtableVars
         ELSE \E g \in fetcher[f].seg : DropMemtables(g)
    /\ Set(f, [fetcher[f] EXCEPT !.pc = "unlock"])
    /\ UNCHANGED <<fetchFrame, pool, queue, bitmap, histVars>>

\* The vacuum_locks are released and the entry is DONE.
Unlock(f) ==
    /\ fetcher[f].pc = "unlock"
    /\ Set(f, NoTask)
    /\ UNCHANGED <<fetchFrame, memtableVars, pool, queue, bitmap, histVars>>

-----------------------------------------------------------------------------
\* CREATE INDEX has made the segment of the first sid, which has arrived.
Init ==
    LET first == Segment(FirstSid, FirstSid, 1,
                         [i \in 1 .. Capacity |-> <<FirstSid, i>>], {})
    IN  /\ rows = [s \in Sid |-> IF s = FirstSid THEN Capacity ELSE -1]
        /\ primary = {first} /\ dead = {}
        /\ slot = "writable" /\ scanned = {}
        /\ growing = NoSid /\ sealed = {} /\ mask = [s \in Sid |-> {}]
        /\ pool = [g \in {} |-> {}]
        /\ queue = {} /\ bitmap = [g \in {first} |-> {}]
        /\ redo = Idle
        /\ fetcher = [f \in Fetcher |-> NoTask]
        /\ lost = {} /\ twice = {}

Replay ==
    \/ \E s \in Sid \ {FirstSid} : dpv_standby_register_memtable(s)
    \/ \E s \in Sid : dpv_standby_add_to_memtable(s)
    \/ \E s \in Sid : Flush(s)
    \/ \E g, h \in primary : Merge(g, h)
    \/ \E g \in primary : Rebuild(g)
    \/ \E r \in Row : redo_vacuum_tombstones(r)

Redo ==
    \/ FindMemtable
    \/ apply_entries_to_memtable
    \/ apply_to_disk_file_for_sid
    \/ GiveUp
    \/ VacuumPin
    \/ VacuumApply

Load ==
    \/ IndexLoadRead
    \/ IndexLoadPublish

Fetch(f) ==
    \/ \E g \in queue : pull_all_files(f, g)
    \/ CoverScan(f)
    \/ AdoptLoad(f)
    \/ AdoptDecide(f)
    \/ AdoptCommit(f)
    \/ fetcher_release_covered_memtables(f)
    \/ Unlock(f)

Next ==
    \/ Replay
    \/ Redo
    \/ IndexLoadScan
    \/ Load
    \/ \E f \in Fetcher : Fetch(f)

Spec == Init /\ [][Next]_vars

\* The startup process goes on with a record it has begun, a load that has
\* begun ends, and fetchers poll the queue.
FairSpec ==
    /\ Spec
    /\ WF_vars(Redo) /\ WF_vars(Load)
    /\ \A f \in Fetcher : WF_vars(Fetch(f))

-----------------------------------------------------------------------------
(* Properties.                                                             *)

Replayed == {r \in Row : r[2] <= rows[r[1]]}

\* What a search finds: the memtables and the pool, which it loads first when
\* that has not been done.
Visible ==
    LET files == scan_segment_metadata_files
    IN  (UNION {MemtableRows(s) \ mask[s] : s \in Memtables})
          \cup (IF slot = "queryable"
                  THEN UNION {RowsOf(g) \ pool[g] : g \in DOMAIN pool}
                  ELSE UNION {RowsOf(g) \ bitmap[g] : g \in files})

\* A row that was replayed and not deleted is found, wherever its segment is
\* on its way from the primary to the pool.
RowsVisible ==
    slot \in {"writable", "queryable"} => Replayed \ dead \subseteq Visible

\* A tombstone that was replayed has its effect, in whatever order the files
\* that hold the row arrive, load and replace each other; but for the ones
\* that the code gives up.
TombstonesKept ==
    redo.pc = "idle" /\ slot = "queryable" =>
        \A r \in Visible \cap dead : r \in lost \/ r[1] \in twice

\* Segments of the pool are disjoint, in whatever order two adoptions decide
\* and commit; but for the sids of memtables that both cover, which the
\* re-validation does not look at.
PoolDisjoint ==
    slot = "queryable" =>
        \A g, h \in DOMAIN pool : g # h => Sids(g) \cap Sids(h) \subseteq twice

\* There is always a memtable or a file for a tombstone: the startup process
\* does not stop with an ERROR.
RedoNeverErrors == redo.pc # "ERROR"

\* Replay and fetchers wait for each other and for the load, never for ever.
ReplayGoesOn ==
    /\ []<>(redo.pc = "idle")
    /\ \A f \in Fetcher : []<>(fetcher[f].pc = "idle")

\* "so the new segment is the sole rep for that range": no two segments of
\* the pool overlap, those that were adopted at once included.
SoleRepresentation ==
    slot = "queryable" =>
        \A g, h \in DOMAIN pool : Overlaps(g, h) => g = h

\* "no silent loss": no tombstone is given up.
NoSilentLoss == lost = {}

=============================================================================
