------------------------------ MODULE Recovery ------------------------------
(***************************************************************************)
(* Crash and recovery of one index.                                        *)
(*                                                                         *)
(* Three kinds of state meet again after a crash:                          *)
(*   - the heap and the status pages, which the WAL takes back to a prefix *)
(*     of their history that holds at least everything committed           *)
(*   - the segment files, written directly, which all survive              *)
(*   - the memtables and the segment pool, which are gone                  *)
(* recover_lsm_index_internal masks what is in the files and not on the    *)
(* status pages, and rebuilds the memtables that are not in the files.     *)
(*                                                                         *)
(* A row is its heap tid and the number of the insert that made it: a tid  *)
(* is used again when the insert was lost.                                 *)
(***************************************************************************)
EXTENDS Integers, Sequences, FiniteSets, FiniteSetsExt, SequencesExt

CONSTANTS
    START_SEGMENT_ID,  \* the segment of CREATE INDEX
    Capacity,          \* rows of a memtable
    LastSid,           \* bound: the last sid that is given out
    MaxInserts,        \* bound on the inserts
    MaxCrashes,        \* bound on the crashes
    MaxMerges          \* bound on the merges

ASSUME RecoveryAssumption ==
    /\ {START_SEGMENT_ID, Capacity} \subseteq Nat \ {0}
    /\ LastSid \in Nat /\ LastSid > START_SEGMENT_ID
    /\ {MaxInserts, MaxCrashes, MaxMerges} \subseteq Nat

VARIABLES
    \* the heap and the status pages: max_memtable_sid, the tids of every
    \* memtable that is registered
    heap, max_sid, status,
    \* what these were since the WAL was flushed last: a crash may end there
    past,
    \* history: the committed rows, and how many inserts there were
    committed, inserts,
    \* the directory of segment files
    files,
    \* shared memory: the memtables by sid, the growing one (0: none), the one
    \* being registered (0: none), next_segment_id, flushed_not_released
    mem, growing, rotating, next_segment_id, flushed_not_released,
    \* the segment pool, and whether it has been loaded
    pool, loaded,
    \* the flusher's segment, written and not yet announced (0: none)
    flushing,
    \* recovery: where it is, the files it scanned
    rpc, scanned,
    \* history: a sid was given out that a file had already
    reused,
    crashes, merges

pageVars == <<heap, max_sid, status>>
walVars  == <<pageVars, past, committed, inserts>>
memVars  == <<mem, growing, rotating, next_segment_id, flushed_not_released>>
poolVars == <<pool, loaded>>
recVars  == <<rpc, scanned>>
counters == <<crashes, merges>>

vars == <<walVars, files, memVars, poolVars, flushing, recVars, reused, counters>>

Sid == START_SEGMENT_ID .. LastSid
Row == [tid : 1 .. MaxInserts, num : 1 .. MaxInserts]

\* The sids on the status pages, and the pages as a whole.
StatusSids == DOMAIN status
Pages == [heap |-> heap, max_sid |-> max_sid, status |-> status]

\* A change of the pages is WAL-logged, not flushed.
Logged == past' = past \cup {Pages}

\* The sealed memtables are flushed in the order they were sealed in.
Sealed == DOMAIN mem \ {growing}

-----------------------------------------------------------------------------
(* The files.                                                              *)

\* An entry is a row under the sid of its memtable; mask is the latest bitmap.
File(s, e, v, entries, mask) ==
    [start |-> s, end |-> e, version |-> v, entries |-> entries, mask |-> mask]

find_latest_segment_version(s, e) ==
    Max({f.version : f \in {g \in files : g.start = s /\ g.end = e}} \cup {0})

\* Files of one segment, of the latest version.
Latest == {f \in files : f.version = find_latest_segment_version(f.start, f.end)}

Before(f, g) == f.start < g.start \/ (f.start = g.start /\ f.end > g.end)

\* scan_segment_metadata_files: in the order of start, the larger scope first,
\* without those that overlap one taken before.
scan_segment_metadata_files ==
    FoldLeft(LAMBDA acc, f : IF acc = <<>> \/ f.start > Last(acc).end
                               THEN Append(acc, f) ELSE acc,
             <<>>, SetToSortSeq(Latest, Before))

\* load_and_set_segment: what the pool holds of the file.
Segment(f) == [start |-> f.start, end |-> f.end,
               rows |-> {x.row : x \in f.entries \ f.mask}]

-----------------------------------------------------------------------------
(* Inserts.                                                                *)

\* A row goes to the heap, to the memtable and to its status page.
Insert ==
    /\ rpc = "up" /\ growing # 0 /\ rotating = 0
    /\ Cardinality(mem[growing]) < Capacity
    /\ inserts < MaxInserts
    /\ inserts' = inserts + 1
    /\ LET r == [tid |-> Min(1 .. MaxInserts \ {q.tid : q \in heap}),
                 num |-> inserts + 1] IN
       /\ heap' = heap \cup {r}
       /\ mem' = [mem EXCEPT ![growing] = @ \cup {r}]
       /\ status' = [status EXCEPT ![growing] = @ \cup {r.tid}]
       \* the heap record comes first, and may be the last one that survives
       /\ past' = past \cup {Pages, [Pages EXCEPT !.heap = @ \cup {r}]}
    /\ UNCHANGED <<max_sid, committed, files, growing, rotating, next_segment_id,
                   flushed_not_released, poolVars, flushing, recVars, reused, counters>>

\* A commit flushes the WAL.
Commit(r) ==
    /\ rpc = "up" /\ r \in heap \ committed
    /\ \E s \in DOMAIN mem : r \in mem[s]
    /\ committed' = committed \cup {r}
    /\ past' = {}
    /\ UNCHANGED <<pageVars, inserts, files, memVars, poolVars, flushing, recVars,
                   reused, counters>>

\* An insert first takes flushed memtables off the status pages, one by one.
ReleaseStatusMemtable ==
    /\ rpc = "up" /\ flushed_not_released # {}
    /\ LET s == Min(flushed_not_released) IN
       /\ status' = [t \in StatusSids \ {s} |-> status[t]]
       /\ flushed_not_released' = flushed_not_released \ {s}
    /\ Logged
    /\ UNCHANGED <<heap, max_sid, committed, inserts, files, mem, growing, rotating,
                   next_segment_id, poolVars, flushing, recVars, reused, counters>>

\* rotate_growing_memtable: the memtable is full, or recovery left none.
\* UpdateMaxMemtableSid has its own record ...
UpdateMaxMemtableSid ==
    /\ rpc = "up" /\ rotating = 0 /\ next_segment_id <= LastSid
    /\ growing # 0 => Cardinality(mem[growing]) = Capacity
    /\ rotating' = next_segment_id
    /\ next_segment_id' = next_segment_id + 1
    /\ max_sid' = next_segment_id
    /\ Logged
    /\ UNCHANGED <<heap, status, committed, inserts, files, mem, growing,
                   flushed_not_released, poolVars, flushing, recVars, reused, counters>>

\* ... before RegisterStatusMemtable; then the new memtable is the growing one
\* and the old one is sealed.
RegisterStatusMemtable ==
    /\ rpc = "up" /\ rotating # 0
    /\ status' = [s \in StatusSids \cup {rotating} |->
                    IF s = rotating THEN {} ELSE status[s]]
    /\ mem' = [s \in DOMAIN mem \cup {rotating} |->
                 IF s = rotating THEN {} ELSE mem[s]]
    /\ growing' = rotating /\ rotating' = 0
    /\ reused' = (reused \/ \E f \in files : f.start <= rotating /\ rotating <= f.end)
    /\ Logged
    /\ UNCHANGED <<heap, max_sid, committed, inserts, files, next_segment_id,
                   flushed_not_released, poolVars, flushing, recVars, counters>>

-----------------------------------------------------------------------------
(* Flush, load and merge.                                                  *)

\* flush_segment_to_disk: a new version, with nothing masked.
FlushWrite ==
    /\ rpc = "up" /\ flushing = 0 /\ Sealed # {}
    /\ LET s == Min(Sealed) IN
       /\ files' = files \cup
            {File(s, s, find_latest_segment_version(s, s) + 1,
                  {[sid |-> s, row |-> r] : r \in mem[s]}, {})}
       /\ flushing' = s
    /\ UNCHANGED <<walVars, memVars, poolVars, recVars, reused, counters>>

\* SEGMENT_UPDATE_REGULAR, skipped when the pool has the segment, and the
\* handoff: the memtable goes, its sid may be released.
FlushHandoff ==
    /\ rpc = "up" /\ flushing # 0
    /\ pool' = IF loaded /\ ~\E g \in pool : g.start = flushing /\ g.end = flushing
                 THEN pool \cup {Segment(CHOOSE f \in Latest : f.start = flushing
                                                              /\ f.end = flushing)}
                 ELSE pool
    /\ flushed_not_released' = flushed_not_released \cup {flushing}
    /\ mem' = [s \in DOMAIN mem \ {flushing} |-> mem[s]]
    /\ flushing' = 0
    /\ UNCHANGED <<walVars, files, growing, rotating, next_segment_id, loaded, recVars,
                   reused, counters>>

\* IndexLoad.
Load ==
    /\ rpc = "up" /\ ~loaded
    /\ pool' = {Segment(f) : f \in ToSet(scan_segment_metadata_files)}
    /\ loaded' = TRUE
    /\ UNCHANGED <<walVars, files, memVars, flushing, recVars, reused, counters>>

\* A merge of two neighbours keeps their rows and bitmaps in a file of its own.
Merge(g, h) ==
    /\ rpc = "up" /\ loaded /\ merges < MaxMerges
    /\ g.end + 1 = h.start
    /\ LET Src(x) == CHOOSE f \in Latest : f.start = x.start /\ f.end = x.end
           new == File(g.start, h.end, find_latest_segment_version(g.start, h.end) + 1,
                       Src(g).entries \cup Src(h).entries,
                       Src(g).mask \cup Src(h).mask) IN
       /\ files' = files \cup {new}
       /\ pool' = (pool \ {g, h}) \cup {Segment(new)}
    /\ merges' = merges + 1
    /\ UNCHANGED <<walVars, memVars, loaded, flushing, recVars, reused, crashes>>

-----------------------------------------------------------------------------
(* Crash and recovery.                                                     *)

\* The pages go back to a point after the last flush of the WAL; the files
\* stay; memory is lost.
Crash ==
    /\ crashes < MaxCrashes
    /\ crashes' = crashes + 1
    /\ \E p \in past \cup {Pages} :
         heap' = p.heap /\ max_sid' = p.max_sid /\ status' = p.status
    /\ past' = {}
    /\ mem' = <<>> /\ growing' = 0 /\ rotating' = 0 /\ next_segment_id' = 0
    /\ flushed_not_released' = {}
    /\ pool' = {} /\ loaded' = FALSE
    /\ flushing' = 0
    /\ rpc' = "down" /\ scanned' = <<>>
    /\ UNCHANGED <<committed, inserts, files, reused, merges>>

RecoverStep(l) ==
    /\ rpc' = l
    /\ UNCHANGED <<walVars, memVars, poolVars, flushing, reused, counters>>

\* The sids of the status pages are read, and the directory.
RecoverScan ==
    /\ rpc = "down" /\ StatusSids # {}
    /\ scanned' = scan_segment_metadata_files
    /\ RecoverStep("step1")
    /\ UNCHANGED files

\* No sid: sids is NULL, and reading sids[0] crashes the server once more.
RecoverNoSid ==
    /\ rpc = "down" /\ StatusSids = {}
    /\ UNCHANGED vars

\* The last sid whose registration is complete.
max_memtable_sid == IF Max(StatusSids) = max_sid THEN max_sid ELSE max_sid - 1

Entries == UNION {f.entries : f \in files}

\* A new bitmap for every scanned file, with its entries in bad masked too.
MaskFiles(bad) ==
    LET hit == {f \in files : \E g \in ToSet(scanned) :
                  g.start = f.start /\ g.end = f.end /\ g.version = f.version} IN
    files' = (files \ hit) \cup {[f EXCEPT !.mask = @ \cup (f.entries \cap bad)] : f \in hit}

\* Step 1: entries under sids that were never registered.
RecoverUnregistered ==
    /\ rpc = "step1"
    /\ MaskFiles({x \in Entries : x.sid > max_memtable_sid})
    /\ RecoverStep("step2")
    /\ UNCHANGED scanned

\* Deviation: entries without their tid are left alone.
RecoverMissingKept ==
    /\ rpc = "step2"
    /\ RecoverStep("step3")
    /\ UNCHANGED <<files, scanned>>

\* Step 2: entries under a sid that is on the status pages, without their tid.
RecoverMissing ==
    /\ rpc = "step2"
    /\ MaskFiles({x \in Entries : x.sid \in StatusSids
                                  /\ x.row.tid \notin status[x.sid]})
    /\ RecoverStep("step3")
    /\ UNCHANGED scanned

\* The rows that a memtable is rebuilt with: those whose tid is in the heap.
Fetched(s) == {r \in heap : r.tid \in status[s]}

\* Step 3: the memtables of the sids beyond the last file; the sids up to it
\* wait for their release.  Then the slot is WRITABLE.
Rebuild(last) ==
    LET build == {s \in StatusSids : s > last} IN
    /\ rpc = "step3"
    /\ mem' = [s \in build |-> Fetched(s)]
    /\ growing' = IF max_sid \in build THEN max_sid ELSE 0
    /\ next_segment_id' = Max(StatusSids) + 1
    /\ flushed_not_released' = StatusSids \ build
    /\ rpc' = "up"
    /\ UNCHANGED <<walVars, files, rotating, poolVars, flushing, scanned, reused,
                   counters>>

\* Deviation: the sid after the last file is taken for flushed.
RecoverMemtablesLess == Rebuild(Last(scanned).end + 1)

RecoverMemtables == Rebuild(Last(scanned).end)

-----------------------------------------------------------------------------
(* The specification.                                                      *)

\* The index was built, with its first segment empty and the first memtable
\* registered, and all of that is flushed.
Init ==
    /\ heap = {} /\ max_sid = START_SEGMENT_ID + 1
    /\ status = [s \in {START_SEGMENT_ID + 1} |-> {}]
    /\ past = {} /\ committed = {} /\ inserts = 0
    /\ files = {File(START_SEGMENT_ID, START_SEGMENT_ID, 1, {}, {})}
    /\ mem = [s \in {START_SEGMENT_ID + 1} |-> {}]
    /\ growing = START_SEGMENT_ID + 1 /\ rotating = 0
    /\ next_segment_id = START_SEGMENT_ID + 2
    /\ flushed_not_released = {}
    /\ pool = {Segment(f) : f \in files} /\ loaded = TRUE
    /\ flushing = 0
    /\ rpc = "up" /\ scanned = <<>>
    /\ reused = FALSE
    /\ crashes = 0 /\ merges = 0

Recover ==
    \/ RecoverScan \/ RecoverNoSid \/ RecoverUnregistered \/ RecoverMissing
    \/ RecoverMemtables

Next ==
    \/ Insert \/ \E r \in heap : Commit(r)
    \/ ReleaseStatusMemtable \/ UpdateMaxMemtableSid \/ RegisterStatusMemtable
    \/ FlushWrite \/ FlushHandoff \/ Load
    \/ \E g, h \in pool : Merge(g, h)
    \/ Crash \/ Recover

Spec == Init /\ [][Next]_vars

FairSpec == Spec /\ WF_vars(Recover)

-----------------------------------------------------------------------------
(* Properties.                                                             *)

\* Type correctness of the pages, the files, memory and recovery.
TypeOK ==
    /\ heap \subseteq Row /\ max_sid \in Sid
    /\ StatusSids \subseteq Sid
    /\ \A s \in StatusSids : status[s] \subseteq 1 .. MaxInserts
    /\ committed \subseteq Row /\ inserts \in 0 .. MaxInserts
    /\ \A f \in files : /\ f.start \in Sid /\ f.end \in Sid /\ f.version \in Nat
                        /\ f.mask \subseteq f.entries
    /\ DOMAIN mem \subseteq Sid
    /\ \A s \in DOMAIN mem : mem[s] \subseteq Row /\ Cardinality(mem[s]) <= Capacity
    /\ growing \in DOMAIN mem \cup {0} /\ flushing \in DOMAIN mem \cup {0}
    /\ rotating \in Sid \cup {0}
    /\ flushed_not_released \subseteq Sid
    /\ rpc \in {"up", "down", "step1", "step2", "step3"}

\* What a search returns: the rows of the memtables and of the pool, or of what
\* a load would bring into it.
Visible ==
    UNION {mem[s] : s \in DOMAIN mem}
    \cup UNION {g.rows : g \in IF loaded THEN pool
                  ELSE {Segment(f) : f \in ToSet(scan_segment_metadata_files)}}

\* A committed row is found by every search, however often the server crashed
\* and wherever its memtable was between insert, flush, release and merge.
\* Excepted are histories in which a sid was given out a second time.
CommittedVisible == rpc = "up" /\ ~reused => committed \subseteq Visible

\* No search returns a row whose insert was lost: its tid belongs to no row or,
\* worse, to another row by now, although the segment files that survived the
\* crash still have it.
LostInvisible == rpc = "up" => Visible \subseteq heap

\* "those sids are already flushed to disk as segments"
\* (recover_lsm_index_internal, step 3): the rows of every registered memtable
\* that is not rebuilt are in the files.
FlushedOnDisk == rpc = "up" => committed \subseteq Visible

\* Recovery ends: the slot gets WRITABLE unless the server crashes again.
RecoveryEnds == rpc # "up" ~> rpc = "up"

=============================================================================
