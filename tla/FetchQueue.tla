----------------------------- MODULE FetchQueue -----------------------------
(***************************************************************************)
(* Segment files on their way to a standby.                                *)
(*                                                                         *)
(* The startup process replays SEGMENT_CREATED and SEGMENT_REPLACED into a *)
(* queue of entry files.  Each segment_fetcher worker claims an entry,     *)
(* pulls the files of the segment from the replication_server of the       *)
(* primary, has the segment adopted and removes the entry.                 *)
(*                                                                         *)
(* A file arrives through <path>.tmp, which open(O_CREAT | O_TRUNC) makes  *)
(* or empties and rename(2) moves to its place.  Two workers that pull the *)
(* same path share the .tmp: names and inodes are told apart here.         *)
(* Files that workers did not close survive a crash of the standby as they *)
(* are; the kernel is not taken down.                                      *)
(***************************************************************************)
EXTENDS Integers, Sequences, FiniteSets, Functions, SequencesExt

CONSTANTS
    Worker,        \* the fetchers, pgvector.replication_fetch_parallelism
    Sweeper,       \* worker 0, the one that recovers the queue when it starts
    Segments,      \* bound: how many segments the WAL announces
    Kinds,         \* the files of a segment in the order they are pulled in
    Chunks,        \* how many reads a file takes to arrive
    MaxFaults      \* bound on broken connections, ERRORs and crashes together

ASSUME FetchQueueAssumption ==
    /\ Sweeper \in Worker
    /\ {Segments, Chunks} \subseteq Nat \ {0}
    /\ Kinds \in Seq({"index", "mapping", "offset", "bitmap", "metadata"})
    /\ Kinds # <<>> /\ IsInjective(Kinds) /\ Last(Kinds) = "metadata"
    /\ MaxFaults \in Nat

VARIABLES
    \* _pending_fetches: the status of the entry file of each segment
    entry,
    \* the directory of the index: the chunks held by each file, and by the
    \* .tmp next to it
    file, tmp,
    \* each worker: pc, the entry it works on, the file it pulls, what the
    \* inode it writes is called by now (its .tmp, the file itself, or nothing
    \* any more), the chunks it has written, the entries it has yet to sweep
    fetcher,
    \* how far the WAL is replayed, and how far it was at most
    pos, replayed,
    \* history: the segments that two workers worked on at once; the claims
    \* that died with a worker other than worker 0
    shared, left,
    faults

diskVars == <<file, tmp>>
walVars  == <<pos, replayed>>

vars == <<entry, diskVars, fetcher, walVars, shared, left, faults>>

-----------------------------------------------------------------------------
(* Files.                                                                  *)

\* A segment, by range and version, in the order of its WAL record; 0 owns
\* the file that all segments of the index share.
Segment  == 1 .. Segments
PerIndex == 0

IndexMetadata == <<PerIndex, "index_metadata">>
File == {IndexMetadata} \cup (Segment \X ToSet(Kinds))

\* The contents of a path that names nothing.
Absent == {0}

Exists(f) == file[f] # Absent
Whole(f)  == file[f] = 1 .. Chunks

\* The workers after the inodes of file f were renamed: was[n] is what the
\* inode that was called n is called now.
Renamed(f, was) ==
    [w \in Worker |->
        IF fetcher[w].file = f /\ fetcher[w].fd \in DOMAIN was
          THEN [fetcher[w] EXCEPT !.fd = was[@]] ELSE fetcher[w]]

-----------------------------------------------------------------------------
(* The queue.                                                              *)

Idle(pc) == [pc |-> pc, seg |-> PerIndex, file |-> IndexMetadata,
             fd |-> "none", got |-> 0, sweep |-> {}]

\* redo_segment_created, redo_segment_replaced: an entry that exists already,
\* whatever its status, is left alone.
dpv_queue_enqueue ==
    /\ pos < Segments
    /\ entry' = [entry EXCEPT ![pos + 1] = IF @ = "absent" THEN "PENDING" ELSE @]
    /\ pos' = pos + 1
    /\ replayed' = IF pos = replayed THEN pos + 1 ELSE replayed
    /\ UNCHANGED <<diskVars, fetcher, shared, left, faults>>

\* flock makes the claim of a PENDING entry exclusive.
dpv_queue_pop_pending(w, s) ==
    /\ fetcher[w].pc = "loop" /\ entry[s] = "PENDING"
    /\ entry' = [entry EXCEPT ![s] = "FETCHING"]
    /\ fetcher' = [fetcher EXCEPT ![w] = [Idle("request") EXCEPT !.seg = s]]
    /\ shared' = IF \E x \in Worker \ {w} : fetcher[x].seg = s
                   THEN shared \cup {s} ELSE shared
    /\ left' = left \ {s}
    /\ UNCHANGED <<diskVars, walVars, faults>>

\* dpv_queue_mark on the way to the next entry; marking an entry that is
\* gone does nothing.
MarkDone(w) ==
    /\ fetcher[w].pc = "adopt"
    /\ entry' = [entry EXCEPT ![fetcher[w].seg] = "absent"]
    /\ fetcher' = [fetcher EXCEPT ![w] = Idle("loop")]
    /\ UNCHANGED <<diskVars, walVars, shared, left, faults>>

\* Deviation: errors of the primary are not told from success.
MarkFailedAsDone(w) ==
    /\ fetcher[w].pc = "failed"
    /\ entry' = [entry EXCEPT ![fetcher[w].seg] = "absent"]
    /\ fetcher' = [fetcher EXCEPT ![w] = Idle("loop")]
    /\ UNCHANGED <<diskVars, walVars, shared, left, faults>>

MarkFailed(w) ==
    /\ fetcher[w].pc = "failed"
    /\ entry' = [entry EXCEPT ![fetcher[w].seg] =
                    IF @ = "absent" THEN "absent" ELSE "FAILED"]
    /\ fetcher' = [fetcher EXCEPT ![w] = Idle("loop")]
    /\ UNCHANGED <<diskVars, walVars, shared, left, faults>>

\* segment_fetcher_main: worker 0 sweeps the queue before its loop.
Start(w) ==
    /\ fetcher[w].pc = "down"
    /\ fetcher' = [fetcher EXCEPT ![w] =
          IF w = Sweeper THEN [Idle("sweep") EXCEPT !.sweep = Segment]
                         ELSE Idle("loop")]
    /\ UNCHANGED <<entry, diskVars, walVars, shared, left, faults>>

\* Deviation: the sweep cleans temporary files only.
SweepEntryKeeps(w, s) ==
    /\ fetcher[w].pc = "sweep" /\ s \in fetcher[w].sweep
    /\ fetcher' = [fetcher EXCEPT ![w].sweep = @ \ {s}]
    /\ left' = left \ {s}
    /\ UNCHANGED <<entry, diskVars, walVars, shared, faults>>

\* dpv_queue_recover_on_startup, one entry: no lock is taken.
SweepEntry(w, s) ==
    /\ fetcher[w].pc = "sweep" /\ s \in fetcher[w].sweep
    /\ entry' = [entry EXCEPT ![s] = IF @ = "FETCHING" THEN "PENDING" ELSE @]
    /\ fetcher' = [fetcher EXCEPT ![w].sweep = @ \ {s}]
    /\ left' = left \ {s}
    /\ UNCHANGED <<diskVars, walVars, shared, faults>>

SweepEnd(w) ==
    /\ fetcher[w].pc = "sweep" /\ fetcher[w].sweep = {}
    /\ fetcher' = [fetcher EXCEPT ![w].pc = "loop"]
    /\ UNCHANGED <<entry, diskVars, walVars, shared, left, faults>>

-----------------------------------------------------------------------------
(* Pulling.                                                                *)

\* handle_one_connection has answered DPV_RESULT_OK and the size: the .tmp is
\* opened, and emptied when it is there.
Open(w) ==
    /\ fetcher[w].pc = "request"
    /\ tmp' = [tmp EXCEPT ![fetcher[w].file] = {}]
    /\ fetcher' = [fetcher EXCEPT ![w].pc = "stream", ![w].fd = "tmp", ![w].got = 0]
    /\ UNCHANGED <<entry, file, walVars, shared, left, faults>>

\* One read of the socket, written at the worker's own offset to the inode it
\* opened, whatever that is called by now.
Receive(w) ==
    LET c == fetcher[w]
        Plus(fd, held) == IF c.fd = fd THEN held \cup {c.got + 1} ELSE held
    IN  /\ c.pc = "stream" /\ c.got < Chunks
        /\ tmp'  = [tmp  EXCEPT ![c.file] = Plus("tmp", @)]
        /\ file' = [file EXCEPT ![c.file] = Plus("file", @)]
        /\ fetcher' = [fetcher EXCEPT ![w].got = @ + 1]
        /\ UNCHANGED <<entry, walVars, shared, left, faults>>

\* What pull_all_files pulls when there is nothing left.
NoFile == <<PerIndex, "none">>

\* Deviation: the metadata file is pulled first.
NextFileMetadataFirst(s, f) ==
    IF f = IndexMetadata
      THEN IF Exists(<<s, "metadata">>) THEN NoFile ELSE <<s, "metadata">>
      ELSE LET k == IF f[2] = "metadata" THEN 0
                    ELSE CHOOSE n \in DOMAIN Kinds : Kinds[n] = f[2]
           IN  IF k + 1 = Len(Kinds) THEN NoFile ELSE <<s, Kinds[k + 1]>>

\* pull_all_files: what comes after file f of segment s, and NoFile when
\* nothing does.  With its metadata there, a segment is not pulled again.
NextFile(s, f) ==
    IF f = IndexMetadata
      THEN IF Exists(<<s, "metadata">>) THEN NoFile ELSE <<s, Kinds[1]>>
      ELSE LET k == CHOOSE n \in DOMAIN Kinds : Kinds[n] = f[2]
           IN  IF k = Len(Kinds) THEN NoFile ELSE <<s, Kinds[k + 1]>>

\* fsync, close and rename; the rename takes what is called .tmp by now, and
\* fails when that is nothing.
Rename(w) ==
    LET c == fetcher[w]
        next == NextFile(c.seg, c.file)
    IN  /\ c.pc = "stream" /\ c.got = Chunks
        /\ tmp[c.file] # Absent
        /\ file' = [file EXCEPT ![c.file] = tmp[c.file]]
        /\ tmp' = [tmp EXCEPT ![c.file] = Absent]
        /\ fetcher' = [Renamed(c.file, [tmp |-> "file", file |-> "none"]) EXCEPT
              ![w] = IF next = NoFile THEN [Idle("adopt") EXCEPT !.seg = c.seg]
                     ELSE [Idle("request") EXCEPT !.seg = c.seg, !.file = next]]
        /\ UNCHANGED <<entry, walVars, shared, left, faults>>

Failed(w) == [Idle("failed") EXCEPT !.seg = fetcher[w].seg]

\* What is called .tmp by now is unlinked, and the pull is given up.
Unlink(w) ==
    LET f == fetcher[w].file
    IN  /\ tmp' = [tmp EXCEPT ![f] = Absent]
        /\ fetcher' = [Renamed(f, [tmp |-> "none"]) EXCEPT ![w] = Failed(w)]
        /\ UNCHANGED <<entry, file, walVars, shared, left>>

RenameFails(w) ==
    /\ fetcher[w].pc = "stream" /\ fetcher[w].got = Chunks
    /\ tmp[fetcher[w].file] = Absent
    /\ fetcher' = [fetcher EXCEPT ![w].pc = "unlink"]
    /\ UNCHANGED <<entry, diskVars, walVars, shared, left, faults>>

\* The unlink after a rename that failed; a peer may have made a .tmp since.
RenameUndone(w) ==
    /\ fetcher[w].pc = "unlink"
    /\ Unlink(w)
    /\ UNCHANGED faults

\* connect_primary, a short write, no answer, or an answer that is not OK.
RequestFails(w) ==
    /\ fetcher[w].pc = "request" /\ faults < MaxFaults
    /\ faults' = faults + 1
    /\ fetcher' = [fetcher EXCEPT ![w] = Failed(w)]
    /\ UNCHANGED <<entry, diskVars, walVars, shared, left>>

\* The stream ends early, or cannot be written or synced.
StreamFails(w) ==
    /\ fetcher[w].pc = "stream" /\ faults < MaxFaults
    /\ faults' = faults + 1
    /\ Unlink(w)

-----------------------------------------------------------------------------
(* Workers that fail.                                                      *)

\* An ERROR while the segment is adopted (the task ring is full, the index
\* is not writable any more): the worker, any of them, exits and is started
\* again; its entry stays FETCHING.
Error(w) ==
    /\ fetcher[w].pc = "adopt" /\ faults < MaxFaults
    /\ faults' = faults + 1
    /\ fetcher' = [fetcher EXCEPT ![w] = Idle("down")]
    /\ left' = IF w = Sweeper THEN left ELSE left \cup {fetcher[w].seg}
    /\ UNCHANGED <<entry, diskVars, walVars, shared>>

\* Every process of the standby is gone; replay goes on from a restartpoint.
\* A .tmp that stays is emptied by the next open, so that it is as good as gone.
Crash ==
    /\ faults < MaxFaults
    /\ faults' = faults + 1
    /\ fetcher' = [w \in Worker |-> Idle("down")]
    /\ tmp' = [f \in File |-> Absent]
    /\ pos' \in 0 .. pos
    /\ left' = {}
    /\ UNCHANGED <<entry, file, replayed, shared>>

-----------------------------------------------------------------------------
Init ==
    /\ entry = [s \in Segment |-> "absent"]
    /\ file = [f \in File |-> Absent] /\ tmp = [f \in File |-> Absent]
    /\ fetcher = [w \in Worker |-> Idle("down")]
    /\ pos = 0 /\ replayed = 0 /\ shared = {} /\ left = {}
    /\ faults = 0

Pull(w) ==
    \/ Open(w)
    \/ Receive(w)
    \/ Rename(w)
    \/ RenameFails(w)
    \/ RenameUndone(w)

Work(w) ==
    \/ Start(w)
    \/ \E s \in Segment : SweepEntry(w, s)
    \/ SweepEnd(w)
    \/ \E s \in Segment : dpv_queue_pop_pending(w, s)
    \/ Pull(w)
    \/ MarkDone(w)
    \/ MarkFailed(w)

Next ==
    \/ dpv_queue_enqueue
    \/ \E w \in Worker : Work(w)
    \/ \E w \in Worker : RequestFails(w) \/ StreamFails(w) \/ Error(w)
    \/ Crash

Spec == Init /\ [][Next]_vars

\* Workers are restarted by the postmaster, a reader of the socket gets the
\* next chunk or an end, and a worker in its loop polls the queue every second.
FairSpec == Spec /\ \A w \in Worker : WF_vars(Work(w))

-----------------------------------------------------------------------------
(* Properties.                                                             *)

\* The metadata file marks a whole segment, for every later reader of the
\* directory: whatever crashed or broke while the segment was pulled, by one
\* worker at a time, the other four files are there and whole.
SegmentComplete ==
    \A s \in Segment \ shared :
        Exists(<<s, "metadata">>) => \A k \in ToSet(Kinds) : Whole(<<s, k>>)

\* No segment of the WAL is forgotten: its entry is in the queue, or its
\* files have arrived.
NothingDropped ==
    \A s \in 1 .. replayed : entry[s] # "absent" \/ Exists(<<s, "metadata">>)

\* An entry does not stay in the queue for ever: the segment arrives, or the
\* entry is FAILED.  A claim that dies with worker 0, or in a crash, is taken
\* over; one that dies with another worker while worker 0 runs may be left as
\* it is, but "until worker 0 comes back to demote" it only.
Settles ==
    \A s \in Segment :
        []<>(\/ entry[s] \in {"absent", "FAILED"}
             \/ entry[s] = "FETCHING" /\ s \in left)

\* "overwriting it with identical content is harmless": two pulls of the
\* per-index metadata do not disturb each other, and as long as nothing
\* fails and each entry has one worker, no entry becomes FAILED.
HarmlessOverwrite ==
    faults = 0 /\ shared = {} =>
        \A s \in Segment : entry[s] # "FAILED"

\* A worker that is pulling is alone on its segment.
ClaimedOnce == shared = {}

-----------------------------------------------------------------------------
(* The inductive invariant behind the first two properties.                *)

\* The states of a worker.
FetcherType ==
    [pc : {"down", "sweep", "loop", "request", "stream", "unlink", "adopt", "failed"},
     seg : {PerIndex} \cup Segment, file : File, fd : {"tmp", "file", "none"},
     got : 0 .. Chunks, sweep : SUBSET Segment]

\* Type correctness of the queue, the directory and the workers.
TypeOK ==
    /\ entry \in [Segment -> {"absent", "PENDING", "FETCHING", "FAILED"}]
    /\ file \in [File -> SUBSET (0 .. Chunks)] /\ tmp \in [File -> SUBSET (0 .. Chunks)]
    /\ fetcher \in [Worker -> FetcherType]
    /\ pos \in 0 .. Segments /\ replayed \in pos .. Segments
    /\ shared \subseteq Segment /\ left \subseteq Segment /\ faults \in 0 .. MaxFaults

\* A worker has an entry from the claim to the mark, and pulls the metadata
\* of the index or a file of that entry.
Shape ==
    \A w \in Worker :
        /\ fetcher[w].seg # PerIndex
             <=> fetcher[w].pc \in {"request", "stream", "unlink", "adopt", "failed"}
        /\ fetcher[w].file = IndexMetadata \/ fetcher[w].file[1] = fetcher[w].seg

\* A segment that is not shared has one worker at most.
Alone ==
    \A w, x \in Worker :
        w # x /\ fetcher[w].seg = fetcher[x].seg
          => fetcher[w].seg \in shared \cup {PerIndex}

\* What a worker alone on its segment has done when it pulls file k: every
\* file before it is whole, its .tmp holds what it has written and nothing
\* else, and the metadata file, which comes last, is not there.
Progress ==
    \A w \in Worker :
      LET c == fetcher[w] IN
      c.seg \notin shared /\ c.file # IndexMetadata =>
        /\ ~Exists(<<c.seg, "metadata">>)
        /\ \A m, n \in DOMAIN Kinds :
              n < m /\ Kinds[m] = c.file[2] => Whole(<<c.seg, Kinds[n]>>)
        /\ c.pc = "stream" => c.fd = "tmp" /\ tmp[c.file] = 1 .. c.got

\* A segment is adopted when its metadata file is there.
Arrived ==
    \A w \in Worker :
        fetcher[w].pc = "adopt" => Exists(<<fetcher[w].seg, "metadata">>)

IndInv ==
    /\ TypeOK /\ Shape /\ Alone /\ Progress /\ Arrived
    /\ SegmentComplete /\ NothingDropped

=============================================================================
