--------------------------- MODULE FetchQueueProofs ---------------------------
(***************************************************************************)
(* Proofs about FetchQueue, for any number of workers, segments, files of  *)
(* a segment, chunks of a file and faults.  IndInv is shown to be          *)
(* inductive, one lemma per conjunct; the theorems at the end are its      *)
(* consequences.                                                           *)
(***************************************************************************)
EXTENDS FetchQueue, TLAPS

USE DEF diskVars, walVars

-----------------------------------------------------------------------------
(* The files of a segment.                                                 *)

\* pull_all_files pulls a list of different files, the metadata last.
LEMMA KindsList ==
    /\ Len(Kinds) \in Nat \ {0} /\ DOMAIN Kinds = 1 .. Len(Kinds)
    /\ Kinds[Len(Kinds)] = "metadata"
    /\ \A m, n \in DOMAIN Kinds : Kinds[m] = Kinds[n] => m = n
    /\ \A k : k \in ToSet(Kinds) <=> \E n \in DOMAIN Kinds : Kinds[n] = k
    /\ "metadata" \in ToSet(Kinds)
<1>1. Len(Kinds) \in Nat \ {0} /\ DOMAIN Kinds = 1 .. Len(Kinds)
  BY FetchQueueAssumption
<1>2. Kinds[Len(Kinds)] = "metadata"
  BY FetchQueueAssumption DEF Last
<1>3. \A m, n \in DOMAIN Kinds : Kinds[m] = Kinds[n] => m = n
  BY FetchQueueAssumption DEF IsInjective
<1>4. \A k : k \in ToSet(Kinds) <=> \E n \in DOMAIN Kinds : Kinds[n] = k
  BY DEF ToSet
<1> QED
  BY <1>1, <1>2, <1>3, <1>4

\* A file of the directory is the metadata of the index or a file of one segment.
LEMMA FileNames ==
    /\ IndexMetadata \in File
    /\ IndexMetadata[1] = PerIndex
    /\ \A s \in Segment : \A k \in ToSet(Kinds) :
         /\ <<s, k>> \in File /\ <<s, k>> # IndexMetadata
         /\ <<s, k>> # NoFile /\ <<s, k>>[1] = s /\ <<s, k>>[2] = k
    /\ \A f \in File : f # IndexMetadata =>
         f[1] \in Segment /\ f[2] \in ToSet(Kinds) /\ f = <<f[1], f[2]>>
    /\ PerIndex \notin Segment
<1>1. PerIndex \notin Segment
  BY FetchQueueAssumption DEF PerIndex, Segment
<1>2. IndexMetadata[1] = PerIndex
  BY DEF IndexMetadata
<1>3. ASSUME NEW s \in Segment, NEW k \in ToSet(Kinds)
      PROVE  /\ <<s, k>> \in File /\ <<s, k>> # IndexMetadata
             /\ <<s, k>> # NoFile /\ <<s, k>>[1] = s /\ <<s, k>>[2] = k
  BY <1>1 DEF File, IndexMetadata, NoFile
<1>4. ASSUME NEW f \in File, f # IndexMetadata
      PROVE  f[1] \in Segment /\ f[2] \in ToSet(Kinds) /\ f = <<f[1], f[2]>>
  BY <1>4 DEF File
<1> QED
  BY <1>1, <1>2, <1>3, <1>4 DEF File

\* A whole file exists, and so does one with any chunk in it.
LEMMA Contents ==
    /\ 1 .. Chunks # Absent
    /\ \A held : \A n \in Nat : held \cup {n + 1} # Absent
<1>1. 1 \in 1 .. Chunks /\ 1 \notin Absent
  BY FetchQueueAssumption DEF Absent
<1>2. ASSUME NEW held, NEW n \in Nat PROVE held \cup {n + 1} # Absent
  BY n + 1 # 0 /\ n + 1 \in held \cup {n + 1} DEF Absent
<1> QED
  BY <1>1, <1>2

\* The metadata file is asked about at the start, and comes after the last file.
LEMMA NextFileIs ==
    ASSUME NEW s \in Segment, NEW f \in File, f = IndexMetadata \/ f[1] = s
    PROVE  \/ /\ NextFile(s, f) = NoFile /\ f = IndexMetadata
              /\ Exists(<<s, "metadata">>)
           \/ NextFile(s, f) = NoFile /\ f = <<s, "metadata">>
           \/ /\ NextFile(s, f) = <<s, Kinds[1]>> /\ f = IndexMetadata
              /\ ~Exists(<<s, "metadata">>)
           \/ \E k \in DOMAIN Kinds : /\ k + 1 \in DOMAIN Kinds
                                      /\ f = <<s, Kinds[k]>>
                                      /\ NextFile(s, f) = <<s, Kinds[k + 1]>>
<1>1. CASE f = IndexMetadata
  BY <1>1 DEF NextFile
<1>2. CASE f # IndexMetadata
  <2> DEFINE k == CHOOSE n \in DOMAIN Kinds : Kinds[n] = f[2]
  <2>1. f = <<s, f[2]>> /\ f[2] \in ToSet(Kinds)
    BY <1>2, FileNames
  <2>2. k \in DOMAIN Kinds /\ Kinds[k] = f[2]
    BY <2>1, KindsList
  <2>3. NextFile(s, f) = IF k = Len(Kinds) THEN NoFile ELSE <<s, Kinds[k + 1]>>
    BY <1>2 DEF NextFile
  <2> HIDE DEF k
  <2>4. CASE k = Len(Kinds)
    BY <2>1, <2>2, <2>3, <2>4, KindsList
  <2>5. CASE k # Len(Kinds)
    <3>1. k + 1 \in DOMAIN Kinds
      BY <2>2, <2>5, KindsList
    <3> QED
      BY <2>1, <2>2, <2>3, <2>5, <3>1
  <2> QED
    BY <2>4, <2>5
<1> QED
  BY <1>1, <1>2

\* After a file of a segment comes another file of that segment, or none.
LEMMA NextFileOf ==
    ASSUME NEW s \in Segment, NEW f \in File, f = IndexMetadata \/ f[1] = s,
           NextFile(s, f) # NoFile
    PROVE  /\ NextFile(s, f) \in File /\ NextFile(s, f) # IndexMetadata
           /\ NextFile(s, f)[1] = s
<1>1. \A n \in DOMAIN Kinds : <<s, Kinds[n]>> \in File /\ <<s, Kinds[n]>> # IndexMetadata
                             /\ <<s, Kinds[n]>>[1] = s
  BY KindsList, FileNames
<1>2. PICK n \in DOMAIN Kinds : NextFile(s, f) = <<s, Kinds[n]>>
  <2>1. 1 \in DOMAIN Kinds
    BY KindsList
  <2>2. \/ NextFile(s, f) = <<s, Kinds[1]>>
        \/ \E k \in DOMAIN Kinds : k + 1 \in DOMAIN Kinds /\ NextFile(s, f) = <<s, Kinds[k + 1]>>
    BY NextFileIs
  <2> QED
    BY <2>1, <2>2
<1> QED
  BY <1>1, <1>2

-----------------------------------------------------------------------------
(* What a step does to the workers.                                        *)

\* The step of worker w changes no other worker but for the name of its inode,
\* and that only if both pull the same file.
OthersKeep(w) ==
    \A x \in Worker \ {w} :
        /\ fetcher'[x].pc = fetcher[x].pc /\ fetcher'[x].seg = fetcher[x].seg
        /\ fetcher'[x].file = fetcher[x].file /\ fetcher'[x].got = fetcher[x].got
        /\ fetcher'[x].sweep = fetcher[x].sweep
        /\ fetcher[x].file # fetcher[w].file => fetcher'[x] = fetcher[x]

\* A worker that starts over has no segment and no file open.
LEMMA IdleTyped ==
    ASSUME NEW p \in {"down", "sweep", "loop", "request", "adopt", "failed"},
           NEW s \in {PerIndex} \cup Segment
    PROVE  /\ Idle(p) \in FetcherType
           /\ [Idle(p) EXCEPT !.seg = s] \in FetcherType
           /\ \A f \in File : [Idle(p) EXCEPT !.seg = s, !.file = f] \in FetcherType
           /\ [Idle(p) EXCEPT !.sweep = Segment] \in FetcherType
<1>1. IndexMetadata \in File /\ 0 \in 0 .. Chunks /\ {} \in SUBSET Segment
  BY FileNames, FetchQueueAssumption
<1>2. Idle(p) \in FetcherType
  BY <1>1 DEF Idle, FetcherType
<1>3. [Idle(p) EXCEPT !.seg = s] \in FetcherType
  BY <1>2 DEF FetcherType
<1>4. ASSUME NEW f \in File PROVE [Idle(p) EXCEPT !.seg = s, !.file = f] \in FetcherType
  BY <1>2 DEF FetcherType
<1>5. [Idle(p) EXCEPT !.sweep = Segment] \in FetcherType
  BY <1>2 DEF FetcherType
<1> QED
  BY <1>2, <1>3, <1>4, <1>5

\* rename(2) changes the other workers in what their inode is called only.
LEMMA RenameEffect ==
    ASSUME TypeOK, Shape, NEW w \in Worker, Rename(w)
    PROVE  /\ OthersKeep(w)
           /\ fetcher' \in [Worker -> FetcherType]
           /\ fetcher[w].seg \in Segment
           /\ fetcher'[w] =
                LET next == NextFile(fetcher[w].seg, fetcher[w].file) IN
                IF next = NoFile THEN [Idle("adopt") EXCEPT !.seg = fetcher[w].seg]
                ELSE [Idle("request") EXCEPT !.seg = fetcher[w].seg, !.file = next]
<1> DEFINE next == NextFile(fetcher[w].seg, fetcher[w].file)
           new == IF next = NoFile THEN [Idle("adopt") EXCEPT !.seg = fetcher[w].seg]
                  ELSE [Idle("request") EXCEPT !.seg = fetcher[w].seg, !.file = next]
           was == [tmp |-> "file", file |-> "none"]
<1>1. fetcher[w] \in FetcherType /\ fetcher[w].pc = "stream"
  BY DEF TypeOK, Rename, FetcherType
<1>2. fetcher[w].seg \in Segment
  BY <1>1 DEF Shape, FetcherType
<1>3. next = NoFile \/ next \in File
  <2>1. fetcher[w].file \in File
    BY <1>1 DEF FetcherType
  <2>2. fetcher[w].file = IndexMetadata \/ fetcher[w].file[1] = fetcher[w].seg
    BY Zenon DEF Shape
  <2> QED
    BY <1>2, <2>1, <2>2, NextFileOf
<1>4. new \in FetcherType
  BY <1>2, <1>3, IdleTyped
<1>5. fetcher' = [Renamed(fetcher[w].file, was) EXCEPT ![w] = new]
  BY DEF Rename
<1>6. Renamed(fetcher[w].file, was) \in [Worker -> FetcherType]
  BY DEF Renamed, TypeOK, FetcherType
<1>7. \A x \in Worker \ {w} :
         fetcher'[x] = IF fetcher[x].file = fetcher[w].file /\ fetcher[x].fd \in DOMAIN was
                       THEN [fetcher[x] EXCEPT !.fd = was[@]] ELSE fetcher[x]
  BY <1>5 DEF Renamed
<1>8. OthersKeep(w)
  BY <1>7, ZenonT(40) DEF OthersKeep, TypeOK, FetcherType
<1>9. fetcher'[w] = new
  BY <1>5, <1>6
<1> HIDE DEF new
<1>10. fetcher' \in [Worker -> FetcherType]
  BY <1>4, <1>5, <1>6
<1> QED
  BY <1>2, <1>8, <1>9, <1>10 DEF new

\* unlink(2) changes the other workers in the same way, after a broken stream
\* as after a rename that failed.
LEMMA UnlinkEffect ==
    ASSUME TypeOK, Shape, NEW w \in Worker, StreamFails(w) \/ RenameUndone(w)
    PROVE  /\ OthersKeep(w)
           /\ fetcher' \in [Worker -> FetcherType]
           /\ fetcher[w].seg \in Segment
           /\ fetcher'[w] = Failed(w)
           /\ Unlink(w)
<1> DEFINE was == [tmp |-> "none"]
<1>0. Unlink(w)
  BY DEF StreamFails, RenameUndone
<1>1. fetcher[w] \in FetcherType /\ fetcher[w].pc \in {"stream", "unlink"}
  BY DEF TypeOK, StreamFails, RenameUndone, FetcherType
<1>2. fetcher[w].seg \in Segment
  BY <1>1 DEF Shape, FetcherType
<1>3. Failed(w) \in FetcherType
  BY <1>2, IdleTyped DEF Failed
<1>4. fetcher' = [Renamed(fetcher[w].file, was) EXCEPT ![w] = Failed(w)]
  BY <1>0 DEF Unlink
<1>5. Renamed(fetcher[w].file, was) \in [Worker -> FetcherType]
  BY DEF Renamed, TypeOK, FetcherType
<1>6. \A x \in Worker \ {w} :
         fetcher'[x] = IF fetcher[x].file = fetcher[w].file /\ fetcher[x].fd \in DOMAIN was
                       THEN [fetcher[x] EXCEPT !.fd = was[@]] ELSE fetcher[x]
  BY <1>4 DEF Renamed
<1>7. OthersKeep(w)
  BY <1>6, ZenonT(40) DEF OthersKeep, TypeOK, FetcherType
<1> QED
  BY <1>0, <1>2, <1>3, <1>4, <1>5, <1>7

-----------------------------------------------------------------------------
(* The conjuncts of the invariant.                                         *)

\* Types are preserved.
LEMMA TypeStep ==
    ASSUME IndInv, Next
    PROVE  TypeOK'
<1> USE DEF IndInv
<1>0. /\ entry \in [Segment -> {"absent", "PENDING", "FETCHING", "FAILED"}]
      /\ file \in [File -> SUBSET (0 .. Chunks)] /\ tmp \in [File -> SUBSET (0 .. Chunks)]
      /\ fetcher \in [Worker -> FetcherType]
      /\ Segments \in Nat /\ Chunks \in Nat /\ MaxFaults \in Nat
      /\ Absent \in SUBSET (0 .. Chunks) /\ {} \in SUBSET (0 .. Chunks)
  BY FetchQueueAssumption DEF TypeOK, FetcherType, Absent
<1>s. TypeOK' <=>
      /\ entry' \in [Segment -> {"absent", "PENDING", "FETCHING", "FAILED"}]
      /\ file' \in [File -> SUBSET (0 .. Chunks)] /\ tmp' \in [File -> SUBSET (0 .. Chunks)]
      /\ fetcher' \in [Worker -> FetcherType]
      /\ pos' \in 0 .. Segments /\ replayed' \in pos' .. Segments
      /\ shared' \subseteq Segment /\ left' \subseteq Segment /\ faults' \in 0 .. MaxFaults
  BY DEF TypeOK, FetcherType
<1>i. \A p \in {"down", "loop"} : Idle(p) \in FetcherType
  BY IdleTyped, ZenonT(40) DEF PerIndex
<1>f. ASSUME NEW w \in Worker, fetcher[w].seg \in Segment PROVE Failed(w) \in FetcherType
  BY <1>f, IdleTyped, ZenonT(40) DEF Failed
<1>1. ASSUME NEW w \in Worker, Start(w) PROVE TypeOK'
  BY <1>1, <1>0, <1>s, <1>i, <1>f, IdleTyped DEF Start, TypeOK
<1>2. ASSUME NEW w \in Worker, NEW s \in Segment, SweepEntry(w, s) PROVE TypeOK'
  BY <1>2, <1>0, <1>s, <1>i, <1>f DEF SweepEntry, TypeOK, FetcherType
<1>3. ASSUME NEW w \in Worker, SweepEnd(w) PROVE TypeOK'
  BY <1>3, <1>0, <1>s, <1>i, <1>f, SMTT(40) DEF SweepEnd, TypeOK, FetcherType
<1>4. ASSUME NEW w \in Worker, NEW s \in Segment, dpv_queue_pop_pending(w, s)
      PROVE  TypeOK'
  BY <1>4, <1>0, <1>s, <1>i, <1>f, IdleTyped DEF dpv_queue_pop_pending, TypeOK
<1>5. ASSUME NEW w \in Worker, Open(w) PROVE TypeOK'
  <2>1. fetcher' \in [Worker -> FetcherType]
    <3> DEFINE new == [fetcher[w] EXCEPT !.pc = "stream", !.fd = "tmp", !.got = 0]
    <3>1. fetcher[w] \in FetcherType /\ 0 \in 0 .. Chunks
      BY <1>0
    <3>2. new \in FetcherType
      BY <3>1 DEF FetcherType
    <3>3. fetcher' = [fetcher EXCEPT ![w] = new]
      BY <1>5, <1>0 DEF Open
    <3> HIDE DEF new
    <3> QED
      BY <1>0, <3>2, <3>3
  <2> QED
    BY <1>5, <1>0, <1>s, <2>1 DEF Open, TypeOK
<1>6. ASSUME NEW w \in Worker, Receive(w) PROVE TypeOK'
  <2>1. fetcher[w].got \in 0 .. Chunks /\ fetcher[w].got < Chunks
    BY <1>6, <1>0 DEF Receive, FetcherType
  <2>2. fetcher[w].got + 1 \in 0 .. Chunks
    BY <1>0, <2>1
  <2>3. fetcher' \in [Worker -> FetcherType]
    <3> DEFINE new == [fetcher[w] EXCEPT !.got = fetcher[w].got + 1]
    <3>1. new \in FetcherType
      BY <1>0, <2>2 DEF FetcherType
    <3>2. fetcher' = [fetcher EXCEPT ![w] = new]
      BY <1>6, <1>0 DEF Receive
    <3> HIDE DEF new
    <3> QED
      BY <1>0, <3>1, <3>2
  <2> DEFINE written(held, fd) == IF fetcher[w].fd = fd
                                    THEN held \cup {fetcher[w].got + 1} ELSE held
  <2>w. \A fd : \A held \in SUBSET (0 .. Chunks) : written(held, fd) \in SUBSET (0 .. Chunks)
    BY <2>2
  <2>f. fetcher[w].file \in File
    BY <1>0 DEF FetcherType
  <2>6. /\ tmp' = [tmp EXCEPT ![fetcher[w].file] = written(tmp[fetcher[w].file], "tmp")]
        /\ file' = [file EXCEPT ![fetcher[w].file] = written(file[fetcher[w].file], "file")]
    BY <1>6 DEF Receive
  <2> HIDE DEF written
  <2>4. tmp' \in [File -> SUBSET (0 .. Chunks)]
    BY <1>0, <2>w, <2>f, <2>6
  <2>5. file' \in [File -> SUBSET (0 .. Chunks)]
    BY <1>0, <2>w, <2>f, <2>6
  <2> QED
    BY <1>6, <1>0, <1>s, <2>3, <2>4, <2>5 DEF Receive, TypeOK
<1>7. ASSUME NEW w \in Worker, Rename(w) PROVE TypeOK'
  BY <1>7, <1>0, <1>s, <1>i, <1>f, RenameEffect DEF Rename, TypeOK
<1>8. ASSUME NEW w \in Worker, RenameFails(w) PROVE TypeOK'
  <2>1. fetcher' \in [Worker -> FetcherType]
    BY <1>8, <1>0 DEF RenameFails, FetcherType
  <2> QED
    BY <1>8, <1>0, <1>s, <2>1 DEF RenameFails, TypeOK
<1>9. ASSUME NEW w \in Worker, MarkDone(w) PROVE TypeOK'
  BY <1>9, <1>0, <1>s, <1>i, <1>f DEF MarkDone, TypeOK
<1>10. ASSUME NEW w \in Worker, MarkFailed(w) PROVE TypeOK'
  BY <1>10, <1>0, <1>s, <1>i, <1>f DEF MarkFailed, TypeOK
<1>11. ASSUME NEW w \in Worker, RequestFails(w) PROVE TypeOK'
  <2>1. fetcher[w].seg \in Segment
    BY <1>11, <1>0 DEF RequestFails, Shape, FetcherType
  <2> QED
    BY <1>11, <1>0, <1>s, <1>f, <2>1 DEF RequestFails, TypeOK
<1>12. ASSUME NEW w \in Worker, StreamFails(w) \/ RenameUndone(w) PROVE TypeOK'
  <2>1. fetcher' \in [Worker -> FetcherType] /\ Unlink(w)
    BY <1>12, UnlinkEffect
  <2>2. tmp' \in [File -> SUBSET (0 .. Chunks)]
    BY <2>1, <1>0 DEF Unlink
  <2>3. faults' \in 0 .. MaxFaults /\ UNCHANGED <<entry, file, walVars, shared, left>>
    BY <1>12, <1>0, <2>1 DEF StreamFails, RenameUndone, Unlink, TypeOK
  <2> QED
    BY <1>0, <1>s, <2>1, <2>2, <2>3 DEF TypeOK
<1>13. ASSUME NEW w \in Worker, Error(w) PROVE TypeOK'
  <2>1. fetcher[w].seg \in Segment
    BY <1>13, <1>0 DEF Error, Shape, FetcherType
  <2> QED
    BY <1>13, <1>0, <1>s, <1>i, <2>1 DEF Error, TypeOK
<1>14. CASE dpv_queue_enqueue
  BY <1>14, <1>0, <1>s, <1>i, <1>f DEF dpv_queue_enqueue, TypeOK, Segment
<1>15. CASE Crash
  BY <1>15, <1>0, <1>s, <1>i, <1>f DEF Crash, TypeOK
<1> QED
  BY <1>1, <1>2, <1>3, <1>4, <1>5, <1>6, <1>7, <1>8, <1>9, <1>10,
     <1>11, <1>12, <1>13, <1>14, <1>15 DEF Next, Work, Pull

\* The step of a worker leaves the other workers alone, but for the renames.
LEMMA OthersKept ==
    ASSUME IndInv, NEW w \in Worker,
           Work(w) \/ RequestFails(w) \/ StreamFails(w) \/ Error(w)
    PROVE  OthersKeep(w)
<1> USE DEF IndInv
<1>1. CASE Rename(w)
  BY <1>1, RenameEffect
<1>2. CASE StreamFails(w) \/ RenameUndone(w)
  BY <1>2, UnlinkEffect
<1>3. CASE /\ ~Rename(w) /\ ~StreamFails(w) /\ ~RenameUndone(w)
           /\ \A x \in Worker \ {w} : fetcher'[x] = fetcher[x]
  BY <1>3 DEF OthersKeep
<1>4. ASSUME ~Rename(w), ~StreamFails(w), ~RenameUndone(w), NEW x \in Worker \ {w}
      PROVE  fetcher'[x] = fetcher[x]
  <2>1. fetcher \in [Worker -> FetcherType]
    BY DEF TypeOK, FetcherType
  <2> QED
    BY <1>4, <2>1 DEF Work, Pull, Start, SweepEntry, SweepEnd, dpv_queue_pop_pending,
      Open, Receive, RenameFails, MarkDone, MarkFailed, RequestFails, Error
<1> QED
  BY <1>1, <1>2, <1>3, <1>4

\* A step keeps the shape of the worker that takes it.
LEMMA ShapeStep ==
    ASSUME IndInv, Next
    PROVE  Shape'
<1> USE DEF IndInv
<1>t. fetcher \in [Worker -> FetcherType]
  BY DEF TypeOK, FetcherType
<1> DEFINE Fits(x) == /\ fetcher'[x].seg # PerIndex
                         <=> fetcher'[x].pc \in {"request", "stream", "unlink", "adopt", "failed"}
                      /\ \/ fetcher'[x].file = IndexMetadata
                         \/ fetcher'[x].file[1] = fetcher'[x].seg
<1>w. ASSUME NEW w \in Worker, Fits(w),
             Work(w) \/ RequestFails(w) \/ StreamFails(w) \/ Error(w)
      PROVE  Shape'
  BY <1>w, OthersKept DEF Shape, OthersKeep
<1>p. \A s \in Segment : s # PerIndex
  BY FileNames
<1>1. ASSUME NEW w \in Worker, Start(w) PROVE Shape'
  BY <1>1, <1>t, <1>w, <1>p DEF Start, Work, Idle
<1>2. ASSUME NEW w \in Worker, NEW s \in Segment, SweepEntry(w, s) PROVE Shape'
  BY <1>2, <1>t, <1>w, <1>p DEF SweepEntry, Shape, Work, Pull, FetcherType
<1>3. ASSUME NEW w \in Worker, SweepEnd(w) PROVE Shape'
  BY <1>3, <1>t, <1>w, <1>p DEF SweepEnd, Shape, Work, Pull, FetcherType
<1>4. ASSUME NEW w \in Worker, NEW s \in Segment, dpv_queue_pop_pending(w, s) PROVE Shape'
  BY <1>4, <1>t, <1>w, <1>p DEF dpv_queue_pop_pending, Work, Idle
<1>5. ASSUME NEW w \in Worker, Open(w) PROVE Shape'
  <2>1. /\ fetcher'[w].seg = fetcher[w].seg /\ fetcher'[w].file = fetcher[w].file
        /\ fetcher[w].pc = "request" /\ fetcher'[w].pc = "stream"
    BY <1>5, <1>t DEF Open, FetcherType
  <2>2. Fits(w)
    BY <2>1 DEF Shape
  <2> QED
    BY <1>5, <1>w, <2>2 DEF Work, Pull
<1>6. ASSUME NEW w \in Worker, Receive(w) PROVE Shape'
  BY <1>6, <1>t, <1>w, <1>p DEF Receive, Shape, Work, Pull, FetcherType
<1>7. ASSUME NEW w \in Worker, Rename(w) PROVE Shape'
  <2> DEFINE next == NextFile(fetcher[w].seg, fetcher[w].file)
  <2>1. /\ fetcher[w].seg \in Segment
        /\ fetcher'[w] =
             IF next = NoFile THEN [Idle("adopt") EXCEPT !.seg = fetcher[w].seg]
             ELSE [Idle("request") EXCEPT !.seg = fetcher[w].seg, !.file = next]
    BY <1>7, RenameEffect
  <2>2. next = NoFile \/ next[1] = fetcher[w].seg
    <3>1. fetcher[w].file \in File
      BY <1>t DEF FetcherType
    <3>2. fetcher[w].file = IndexMetadata \/ fetcher[w].file[1] = fetcher[w].seg
      BY DEF Shape
    <3> QED
      BY <2>1, <3>1, <3>2, NextFileOf
  <2> HIDE DEF next
  <2>3. Fits(w)
    BY <2>1, <2>2, <1>p DEF Idle
  <2> QED
    BY <1>7, <1>w, <2>3 DEF Work, Pull
<1>8. ASSUME NEW w \in Worker, RenameFails(w) PROVE Shape'
  BY <1>8, <1>t, <1>w, <1>p DEF RenameFails, Shape, Work, Pull, Failed, Idle, FetcherType
<1>9. ASSUME NEW w \in Worker, MarkDone(w) PROVE Shape'
  BY <1>9, <1>t, <1>w, <1>p DEF MarkDone, Work, Idle
<1>10. ASSUME NEW w \in Worker, MarkFailed(w) PROVE Shape'
  BY <1>10, <1>t, <1>w, <1>p DEF MarkFailed, Work, Idle
<1>11. ASSUME NEW w \in Worker, RequestFails(w) PROVE Shape'
  BY <1>11, <1>t, <1>w, <1>p DEF RequestFails, Shape, Failed, Idle, FetcherType
<1>12. ASSUME NEW w \in Worker, StreamFails(w) \/ RenameUndone(w) PROVE Shape'
  <2>1. fetcher'[w] = Failed(w) /\ fetcher[w].seg \in Segment
    BY <1>12, UnlinkEffect
  <2>2. Fits(w)
    BY <2>1, <1>p DEF Failed, Idle
  <2> QED
    BY <1>12, <1>w, <2>2 DEF Work, Pull
<1>13. ASSUME NEW w \in Worker, Error(w) PROVE Shape'
  BY <1>13, <1>t, <1>w, <1>p DEF Error, Shape, Failed, Idle, FetcherType
<1>14. CASE dpv_queue_enqueue
  BY <1>14, <1>t, <1>w, <1>p DEF dpv_queue_enqueue, Shape
<1>15. CASE Crash
  BY <1>15, <1>t, <1>w, <1>p DEF Crash, Shape, Idle
<1> QED
  BY <1>1, <1>2, <1>3, <1>4, <1>5, <1>6, <1>7, <1>8, <1>9, <1>10,
     <1>11, <1>12, <1>13, <1>14, <1>15 DEF Next, Work, Pull

\* Only dpv_queue_pop_pending gives a worker a segment.
LEMMA SegKept ==
    ASSUME IndInv, NEW w \in Worker,
           Work(w) \/ RequestFails(w) \/ StreamFails(w) \/ Error(w),
           \A s \in Segment : ~dpv_queue_pop_pending(w, s)
    PROVE  fetcher'[w].seg \in {fetcher[w].seg, PerIndex} /\ shared' = shared
<1> USE DEF IndInv
<1>t. fetcher \in [Worker -> FetcherType]
  BY DEF TypeOK, FetcherType
<1>1. CASE Rename(w)
  <2>1. fetcher'[w].seg = fetcher[w].seg
    BY <1>1, RenameEffect, ZenonT(40) DEF Idle
  <2> QED
    BY <1>1, <2>1 DEF Rename
<1>2. CASE StreamFails(w) \/ RenameUndone(w)
  <2>1. fetcher'[w] = Failed(w) /\ Unlink(w)
    BY <1>2, UnlinkEffect
  <2> QED
    BY <2>1 DEF Unlink, Failed, Idle
<1>3. CASE Open(w) \/ Receive(w)
  BY <1>3, <1>t DEF Open, Receive, FetcherType
<1>4. CASE Start(w) \/ SweepEnd(w) \/ \E s \in Segment : SweepEntry(w, s)
  BY <1>4, <1>t DEF Start, SweepEntry, SweepEnd, Idle, FetcherType
<1>5. CASE RenameFails(w) \/ RequestFails(w)
  BY <1>5, <1>t DEF RenameFails, RequestFails, Failed, Idle, FetcherType
<1>6. CASE MarkDone(w) \/ MarkFailed(w) \/ Error(w)
  BY <1>6, <1>t DEF MarkDone, MarkFailed, Error, Idle
<1> QED
  BY <1>1, <1>2, <1>3, <1>4, <1>5, <1>6 DEF Work, Pull

\* A claim that takes a segment from another worker marks it as shared.
LEMMA AloneStep ==
    ASSUME IndInv, Next
    PROVE  Alone'
<1> USE DEF IndInv
<1>1. ASSUME NEW w \in Worker, NEW s \in Segment, dpv_queue_pop_pending(w, s)
      PROVE  Alone'
  <2>1. fetcher'[w].seg = s
    BY <1>1 DEF dpv_queue_pop_pending, TypeOK, Idle
  <2>2. \A x \in Worker \ {w} : fetcher'[x].seg = fetcher[x].seg
    BY <1>1 DEF dpv_queue_pop_pending, TypeOK
  <2>3. shared \subseteq shared'
        /\ \A x \in Worker \ {w} : fetcher[x].seg = s => s \in shared'
    BY <1>1 DEF dpv_queue_pop_pending
  <2> QED
    BY <2>1, <2>2, <2>3 DEF Alone
<1>2. ASSUME NEW w \in Worker,
             Work(w) \/ RequestFails(w) \/ StreamFails(w) \/ Error(w),
             \A s \in Segment : ~dpv_queue_pop_pending(w, s)
      PROVE  Alone'
  BY <1>2, SegKept, OthersKept DEF Alone, OthersKeep
<1>3. CASE dpv_queue_enqueue
  BY <1>3 DEF dpv_queue_enqueue, Alone
<1>4. CASE Crash
  BY <1>4 DEF Crash, Alone, Idle
<1> QED
  BY <1>1, <1>2, <1>3, <1>4 DEF Next

\* A worker writes to, renames and unlinks the file it pulls and no other.
LEMMA DiskKept ==
    ASSUME IndInv, NEW w \in Worker,
           Work(w) \/ RequestFails(w) \/ StreamFails(w) \/ Error(w),
           NEW f \in File, f # fetcher[w].file
    PROVE  file'[f] = file[f] /\ tmp'[f] = tmp[f]
<1> USE DEF IndInv
<1>1. CASE Open(w)
  BY <1>1 DEF Open, TypeOK
<1>2. CASE Receive(w)
  BY <1>2 DEF Receive, TypeOK
<1>3. CASE Rename(w)
  <2>1. file' = [file EXCEPT ![fetcher[w].file] = tmp[fetcher[w].file]]
        /\ tmp' = [tmp EXCEPT ![fetcher[w].file] = Absent]
    BY <1>3 DEF Rename
  <2> QED
    BY <2>1 DEF TypeOK
<1>4. CASE StreamFails(w) \/ RenameUndone(w)
  <2>1. file' = file /\ tmp' = [tmp EXCEPT ![fetcher[w].file] = Absent]
    BY <1>4 DEF StreamFails, RenameUndone, Unlink
  <2> QED
    BY <2>1 DEF TypeOK
<1>5. CASE /\ ~Open(w) /\ ~Receive(w) /\ ~Rename(w)
           /\ ~StreamFails(w) /\ ~RenameUndone(w)
  BY <1>5 DEF Work, Pull, Start, SweepEntry, SweepEnd, dpv_queue_pop_pending,
    RenameFails, MarkDone, MarkFailed, RequestFails, Error
<1> QED
  BY <1>1, <1>2, <1>3, <1>4, <1>5

\* A file that is there stays there.
LEMMA ExistsKept ==
    ASSUME IndInv, Next, NEW f \in File, Exists(f)
    PROVE  Exists(f)'
<1> USE DEF IndInv
<1>1. ASSUME NEW w \in Worker, Receive(w) PROVE Exists(f)'
  <2>1. file' = [file EXCEPT ![fetcher[w].file] =
                   IF fetcher[w].fd = "file" THEN @ \cup {fetcher[w].got + 1} ELSE @]
    BY <1>1 DEF Receive
  <2>2. fetcher[w].got \in Nat
    BY FetchQueueAssumption DEF TypeOK, FetcherType
  <2>3. file'[f] = file[f] \/ file'[f] = file[f] \cup {fetcher[w].got + 1}
    BY <2>1 DEF TypeOK
  <2> QED
    BY <2>2, <2>3, Contents DEF Exists
<1>2. ASSUME NEW w \in Worker, Rename(w) PROVE Exists(f)'
  <2>1. file' = [file EXCEPT ![fetcher[w].file] = tmp[fetcher[w].file]]
        /\ tmp[fetcher[w].file] # Absent
    BY <1>2 DEF Rename
  <2> QED
    BY <2>1 DEF TypeOK, Exists
<1>3. CASE file' = file
  BY <1>3 DEF Exists
<1>4. ASSUME NEW w \in Worker,
             Work(w) \/ RequestFails(w) \/ StreamFails(w) \/ Error(w),
             ~Receive(w), ~Rename(w)
      PROVE  file' = file
  BY <1>4 DEF Work, Pull, Start, SweepEntry, SweepEnd, dpv_queue_pop_pending, Open,
    StreamFails, RenameFails, RenameUndone, Unlink, MarkDone, MarkFailed, RequestFails,
    Error
<1>5. CASE dpv_queue_enqueue \/ Crash
  BY <1>3, <1>5 DEF dpv_queue_enqueue, Crash
<1> QED
  BY <1>1, <1>2, <1>3, <1>4, <1>5 DEF Next

\* A segment that was shared stays shared.
LEMMA SharedGrows ==
    ASSUME IndInv, Next
    PROVE  shared \subseteq shared'
<1>1. ASSUME NEW w \in Worker, NEW s \in Segment, dpv_queue_pop_pending(w, s)
      PROVE  shared \subseteq shared'
  BY <1>1 DEF dpv_queue_pop_pending
<1>2. ASSUME NEW w \in Worker,
             Work(w) \/ RequestFails(w) \/ StreamFails(w) \/ Error(w),
             \A s \in Segment : ~dpv_queue_pop_pending(w, s)
      PROVE  shared \subseteq shared'
  BY <1>2, SegKept
<1>3. CASE dpv_queue_enqueue \/ Crash
  BY <1>3 DEF dpv_queue_enqueue, Crash
<1> QED
  BY <1>1, <1>2, <1>3 DEF Next

\* A file of a segment that is not shared changes when its only worker renames
\* it, whole, to its place, and before the metadata is there.
LEMMA FileChange ==
    ASSUME IndInv, Next, NEW s \in Segment \ shared, NEW k \in ToSet(Kinds),
           file'[<<s, k>>] # file[<<s, k>>]
    PROVE  \E w \in Worker :
              /\ Rename(w) /\ fetcher[w].seg = s /\ fetcher[w].file = <<s, k>>
              /\ ~Exists(<<s, "metadata">>)
              /\ \A m, n \in DOMAIN Kinds :
                    n < m /\ Kinds[m] = k => Whole(<<s, Kinds[n]>>)
              /\ tmp[<<s, k>>] = 1 .. Chunks /\ file'[<<s, k>>] = 1 .. Chunks
<1> USE DEF IndInv
<1>0. <<s, k>> \in File /\ <<s, k>> # IndexMetadata /\ <<s, k>>[1] = s /\ <<s, k>>[2] = k
  BY FileNames
<1>1. PICK w \in Worker : Work(w) \/ RequestFails(w) \/ StreamFails(w) \/ Error(w)
  BY DEF Next, dpv_queue_enqueue, Crash
<1>2. fetcher[w].file = <<s, k>>
  BY <1>0, <1>1, DiskKept
<1>3. fetcher[w].seg = s
  BY <1>0, <1>2 DEF Shape
<1>4. /\ ~Exists(<<s, "metadata">>)
      /\ \A m, n \in DOMAIN Kinds : n < m /\ Kinds[m] = k => Whole(<<s, Kinds[n]>>)
      /\ fetcher[w].pc = "stream" => fetcher[w].fd = "tmp" /\ tmp[<<s, k>>] = 1 .. fetcher[w].got
  BY <1>0, <1>2, <1>3 DEF Progress
<1>5. CASE Rename(w)
  <2>1. file' = [file EXCEPT ![fetcher[w].file] = tmp[fetcher[w].file]]
        /\ fetcher[w].pc = "stream" /\ fetcher[w].got = Chunks
    BY <1>5 DEF Rename
  <2>2. file'[<<s, k>>] = tmp[<<s, k>>]
    BY <1>0, <1>2, <2>1 DEF TypeOK
  <2> QED
    BY <1>2, <1>3, <1>4, <1>5, <2>1, <2>2
<1>6. CASE Receive(w)
  <2>1. file' = [file EXCEPT ![fetcher[w].file] =
                   IF fetcher[w].fd = "file" THEN @ \cup {fetcher[w].got + 1} ELSE @]
        /\ fetcher[w].pc = "stream"
    BY <1>6 DEF Receive
  <2>2. file'[<<s, k>>] = file[<<s, k>>]
    BY <1>0, <1>4, <2>1 DEF TypeOK
  <2> QED
    BY <2>2
<1>7. CASE ~Rename(w) /\ ~Receive(w)
  <2>1. file' = file
    BY <1>1, <1>7 DEF Work, Pull, Start, SweepEntry, SweepEnd, dpv_queue_pop_pending, Open,
      StreamFails, RenameFails, RenameUndone, Unlink, MarkDone, MarkFailed, RequestFails,
      Error
  <2> QED
    BY <2>1
<1> QED
  BY <1>5, <1>6, <1>7

\* The metadata file comes last, so that the rest is whole when it comes.
LEMMA CompleteStep ==
    ASSUME IndInv, Next
    PROVE  SegmentComplete'
<1> USE DEF IndInv
<1> SUFFICES ASSUME NEW s \in Segment \ shared', Exists(<<s, "metadata">>)',
                    NEW k \in ToSet(Kinds)
             PROVE  Whole(<<s, k>>)'
  BY DEF SegmentComplete
<1>0. s \in Segment \ shared
  BY SharedGrows
<1>1. "metadata" \in ToSet(Kinds)
  BY KindsList
<1>2. CASE Exists(<<s, "metadata">>)
  <2>1. Whole(<<s, k>>)
    BY <1>0, <1>2 DEF SegmentComplete
  <2>2. file'[<<s, k>>] = file[<<s, k>>]
    BY <1>0, <1>2, FileChange
  <2> QED
    BY <2>1, <2>2 DEF Whole
<1>3. CASE ~Exists(<<s, "metadata">>)
  <2>1. file'[<<s, "metadata">>] # file[<<s, "metadata">>]
    BY <1>3 DEF Exists
  <2>2. PICK w \in Worker :
              /\ Rename(w) /\ fetcher[w].seg = s /\ fetcher[w].file = <<s, "metadata">>
              /\ \A m, n \in DOMAIN Kinds :
                    n < m /\ Kinds[m] = "metadata" => Whole(<<s, Kinds[n]>>)
              /\ file'[<<s, "metadata">>] = 1 .. Chunks
    BY <1>0, <1>1, <2>1, FileChange
  <2>3. CASE k = "metadata"
    BY <2>2, <2>3 DEF Whole
  <2>4. CASE k # "metadata"
    <3>1. PICK n \in DOMAIN Kinds : Kinds[n] = k
      BY KindsList
    <3>2. n < Len(Kinds) /\ Len(Kinds) \in DOMAIN Kinds
      BY <2>4, <3>1, KindsList
    <3>3. Whole(<<s, k>>)
      BY <2>2, <3>1, <3>2, KindsList
    <3>4. <<s, k>> \in File /\ <<s, k>> # fetcher[w].file
      BY <2>2, <2>4, FileNames
    <3>5. file'[<<s, k>>] = file[<<s, k>>]
      BY <2>2, <3>4, DiskKept DEF Work, Pull
    <3> QED
      BY <3>3, <3>5 DEF Whole
  <2> QED
    BY <2>3, <2>4
<1> QED
  BY <1>2, <1>3

\* What Progress says of worker x.
ProgressOf(x) ==
    fetcher[x].seg \notin shared /\ fetcher[x].file # IndexMetadata =>
      /\ ~Exists(<<fetcher[x].seg, "metadata">>)
      /\ \A m, n \in DOMAIN Kinds :
            n < m /\ Kinds[m] = fetcher[x].file[2] => Whole(<<fetcher[x].seg, Kinds[n]>>)
      /\ fetcher[x].pc = "stream" =>
            fetcher[x].fd = "tmp" /\ tmp[fetcher[x].file] = 1 .. fetcher[x].got

\* The step of a worker does not disturb a worker alone on its segment.
LEMMA ProgressOthers ==
    ASSUME IndInv, Next, NEW w \in Worker,
           Work(w) \/ RequestFails(w) \/ StreamFails(w) \/ Error(w),
           NEW x \in Worker \ {w}
    PROVE  ProgressOf(x)'
<1> USE DEF IndInv
<1> SUFFICES ASSUME fetcher'[x].seg \notin shared', fetcher'[x].file # IndexMetadata
             PROVE  /\ file'[<<fetcher'[x].seg, "metadata">>] = Absent
                    /\ \A m, n \in DOMAIN Kinds :
                          n < m /\ Kinds[m] = fetcher'[x].file[2] =>
                            file'[<<fetcher'[x].seg, Kinds[n]>>] = 1 .. Chunks
                    /\ fetcher'[x].pc = "stream" => /\ fetcher'[x].fd = "tmp"
                                                    /\ tmp'[fetcher'[x].file] = 1 .. fetcher'[x].got
  BY DEF ProgressOf, Exists, Whole
<1>1. fetcher'[x].seg = fetcher[x].seg /\ fetcher'[x].file = fetcher[x].file
  BY OthersKept DEF OthersKeep
<1>2. fetcher[x].seg \notin shared /\ fetcher[x].file # IndexMetadata
  BY <1>1, SharedGrows
<1>3. /\ fetcher[x].file \in File /\ fetcher[x].file[1] = fetcher[x].seg
      /\ fetcher[x].seg \in Segment
  BY <1>2, FileNames DEF TypeOK, FetcherType, Shape
<1>4. fetcher[w].seg # fetcher[x].seg
  BY <1>2, <1>3, FileNames DEF Alone
<1>5. \A k : fetcher[w].file # <<fetcher[x].seg, k>>
  <2> SUFFICES ASSUME NEW k, fetcher[w].file = <<fetcher[x].seg, k>> PROVE FALSE
    OBVIOUS
  <2>1. fetcher[w].file[1] = fetcher[x].seg
    OBVIOUS
  <2>2. fetcher[w].file # IndexMetadata
    BY <1>3, <2>1, FileNames
  <2> QED
    BY <1>4, <2>1, <2>2 DEF Shape
<1>6. fetcher[w].file # fetcher[x].file
  <2>1. fetcher[x].file = <<fetcher[x].seg, fetcher[x].file[2]>>
    BY <1>2, <1>3, FileNames
  <2> QED
    BY <1>5, <2>1
<1>7. fetcher'[x] = fetcher[x]
  BY <1>6, OthersKept DEF OthersKeep
<1>8. tmp'[fetcher[x].file] = tmp[fetcher[x].file]
  BY <1>3, <1>6, DiskKept
<1>9. \A k \in ToSet(Kinds) : file'[<<fetcher[x].seg, k>>] = file[<<fetcher[x].seg, k>>]
  BY <1>3, <1>5, DiskKept, FileNames
<1>10. file'[<<fetcher'[x].seg, "metadata">>] = Absent
  BY <1>1, <1>2, <1>9, KindsList DEF Progress, Exists
<1>11. ASSUME NEW m \in DOMAIN Kinds, NEW n \in DOMAIN Kinds,
              n < m /\ Kinds[m] = fetcher'[x].file[2]
       PROVE  file'[<<fetcher'[x].seg, Kinds[n]>>] = 1 .. Chunks
  <2>1. Whole(<<fetcher[x].seg, Kinds[n]>>)
    BY <1>1, <1>2, <1>11 DEF Progress
  <2>2. Kinds[n] \in ToSet(Kinds)
    BY KindsList
  <2> QED
    BY <1>1, <1>9, <2>1, <2>2 DEF Whole
<1>12. ASSUME fetcher'[x].pc = "stream"
       PROVE  fetcher'[x].fd = "tmp" /\ tmp'[fetcher'[x].file] = 1 .. fetcher'[x].got
  BY <1>2, <1>7, <1>8, <1>12 DEF Progress
<1> QED
  BY <1>10, <1>11, <1>12

\* The rename of a file makes the next one the turn of the worker.
LEMMA ProgressRename ==
    ASSUME IndInv, Next, NEW w \in Worker, Rename(w)
    PROVE  ProgressOf(w)'
<1> USE DEF IndInv
<1> DEFINE s == fetcher[w].seg
           f == fetcher[w].file
           next == NextFile(s, f)
<1>1. /\ s \in Segment
      /\ fetcher'[w] = IF next = NoFile THEN [Idle("adopt") EXCEPT !.seg = s]
                       ELSE [Idle("request") EXCEPT !.seg = s, !.file = next]
  BY RenameEffect
<1>2. f \in File /\ (f = IndexMetadata \/ f[1] = s)
  BY DEF TypeOK, FetcherType, Shape
<1>3. /\ shared' = shared /\ fetcher[w].pc = "stream" /\ fetcher[w].got = Chunks
      /\ file' = [file EXCEPT ![f] = tmp[f]]
  BY DEF Rename
<1>4. \A g \in File : g # f => file'[g] = file[g]
  BY DiskKept DEF Work, Pull
<1>5. file'[f] = tmp[f]
  BY <1>2, <1>3 DEF TypeOK
<1> HIDE DEF next
<1>6. CASE next = NoFile
  BY <1>1, <1>6 DEF ProgressOf, Idle
<1>7. CASE next = <<s, Kinds[1]>> /\ f = IndexMetadata /\ ~Exists(<<s, "metadata">>)
  <2>1. 1 \in DOMAIN Kinds
    BY KindsList
  <2>2. <<s, Kinds[1]>> # NoFile /\ <<s, Kinds[1]>>[2] = Kinds[1]
    BY <1>1, <2>1, FileNames, KindsList
  <2>3. fetcher'[w].seg = s /\ fetcher'[w].file = <<s, Kinds[1]>> /\ fetcher'[w].pc = "request"
    BY <1>1, <1>7, <2>2 DEF Idle
  <2>4. file'[<<s, "metadata">>] = Absent
    BY <1>1, <1>4, <1>7, FileNames, KindsList DEF Exists
  <2>5. \A m, n \in DOMAIN Kinds : ~(n < m /\ Kinds[m] = Kinds[1])
    BY <2>1, KindsList
  <2> QED
    BY <2>2, <2>3, <2>4, <2>5 DEF ProgressOf, Exists, Whole
<1>8. ASSUME NEW k \in DOMAIN Kinds, k + 1 \in DOMAIN Kinds, f = <<s, Kinds[k]>>,
             next = <<s, Kinds[k + 1]>>
      PROVE  ProgressOf(w)'
  <2>1. <<s, Kinds[k + 1]>> # NoFile /\ <<s, Kinds[k + 1]>>[2] = Kinds[k + 1]
    BY <1>1, <1>8, FileNames, KindsList
  <2>2. /\ fetcher'[w].seg = s /\ fetcher'[w].file = <<s, Kinds[k + 1]>>
        /\ fetcher'[w].pc = "request"
    BY <1>1, <1>8, <2>1 DEF Idle
  <2> SUFFICES ASSUME s \notin shared
               PROVE  /\ file'[<<s, "metadata">>] = Absent
                      /\ \A m, n \in DOMAIN Kinds : n < m /\ Kinds[m] = Kinds[k + 1] =>
                            file'[<<s, Kinds[n]>>] = 1 .. Chunks
    BY <1>3, <2>1, <2>2 DEF ProgressOf, Exists, Whole
  <2>3. f # IndexMetadata /\ f[2] = Kinds[k]
    BY <1>1, <1>8, FileNames, KindsList
  <2>4. /\ ~Exists(<<s, "metadata">>)
        /\ \A m, n \in DOMAIN Kinds : n < m /\ Kinds[m] = Kinds[k] => Whole(<<s, Kinds[n]>>)
        /\ tmp[f] = 1 .. Chunks
    BY <1>3, <2>3 DEF Progress
  <2>5. Kinds[k] # "metadata"
    BY <1>8, KindsList
  <2>6. <<s, "metadata">> \in File /\ <<s, "metadata">> # f
    BY <1>1, <1>8, <2>5, FileNames, KindsList
  <2>7. file'[<<s, "metadata">>] = Absent
    BY <1>4, <2>4, <2>6 DEF Exists
  <2>8. ASSUME NEW m \in DOMAIN Kinds, NEW n \in DOMAIN Kinds,
               n < m /\ Kinds[m] = Kinds[k + 1]
        PROVE  file'[<<s, Kinds[n]>>] = 1 .. Chunks
    <3>1. n < k + 1 /\ n \in Nat /\ k \in Nat
      BY <1>8, <2>8, KindsList
    <3>2. CASE n = k
      BY <1>5, <1>8, <2>4, <3>2 DEF Whole
    <3>3. CASE n < k
      <4>1. Whole(<<s, Kinds[n]>>)
        BY <2>4, <3>3
      <4>2. Kinds[n] # Kinds[k] /\ Kinds[n] \in ToSet(Kinds)
        BY <3>1, <3>3, KindsList
      <4>3. <<s, Kinds[n]>> \in File /\ <<s, Kinds[n]>> # f
        BY <1>1, <1>8, <4>2, FileNames
      <4> QED
        BY <1>4, <4>1, <4>3 DEF Whole
    <3> QED
      BY <3>1, <3>2, <3>3
  <2> QED
    BY <2>7, <2>8
<1> QED
  BY <1>1, <1>2, <1>6, <1>7, <1>8, NextFileIs DEF next

\* The worker's own step: a .tmp is emptied when it is opened and grows with
\* what the worker writes; a worker that gives up leaves its file.
LEMMA ProgressStep ==
    ASSUME IndInv, Next
    PROVE  Progress'
<1> USE DEF IndInv
<1>t. fetcher \in [Worker -> FetcherType]
  BY DEF TypeOK, FetcherType
<1>o. (\A x \in Worker : ProgressOf(x)') => Progress'
  BY DEF Progress, ProgressOf
<1>w. ASSUME NEW w \in Worker,
             Work(w) \/ RequestFails(w) \/ StreamFails(w) \/ Error(w), ProgressOf(w)'
      PROVE  Progress'
  BY <1>o, <1>w, ProgressOthers
<1>1. ASSUME NEW w \in Worker, Rename(w) PROVE Progress'
  BY <1>1, <1>w, ProgressRename DEF Work, Pull
<1>2. ASSUME NEW w \in Worker, Open(w) PROVE Progress'
  <2>1. /\ fetcher'[w].seg = fetcher[w].seg /\ fetcher'[w].file = fetcher[w].file
        /\ fetcher'[w].fd = "tmp" /\ fetcher'[w].got = 0
    BY <1>2, <1>t DEF Open, FetcherType
  <2>2. fetcher[w].file \in File
    BY <1>t DEF FetcherType
  <2>3. tmp'[fetcher[w].file] = {} /\ file' = file /\ shared' = shared
    BY <1>2, <2>2 DEF Open, TypeOK
  <2>4. 1 .. 0 = {}
    OBVIOUS
  <2>5. ProgressOf(w)'
    BY <2>1, <2>3, <2>4 DEF ProgressOf, Progress, Exists, Whole
  <2> QED
    BY <1>2, <1>w, <2>5 DEF Work, Pull
<1>3. ASSUME NEW w \in Worker, Receive(w) PROVE Progress'
  <2>1. /\ fetcher'[w].seg = fetcher[w].seg /\ fetcher'[w].file = fetcher[w].file
        /\ fetcher'[w].fd = fetcher[w].fd /\ fetcher'[w].got = fetcher[w].got + 1
        /\ fetcher[w].pc = "stream"
    BY <1>3, <1>t DEF Receive, FetcherType
  <2>2. fetcher[w].file \in File /\ fetcher[w].got \in Nat
    BY <1>t, FetchQueueAssumption DEF FetcherType
  <2>3. CASE fetcher[w].seg \notin shared /\ fetcher[w].file # IndexMetadata
    <3>1. fetcher[w].fd = "tmp" /\ tmp[fetcher[w].file] = 1 .. fetcher[w].got
      BY <2>1, <2>3 DEF Progress
    <3>2. tmp'[fetcher[w].file] = (1 .. fetcher[w].got) \cup {fetcher[w].got + 1}
      BY <1>3, <2>2, <3>1 DEF Receive, TypeOK
    <3>3. (1 .. fetcher[w].got) \cup {fetcher[w].got + 1} = 1 .. fetcher[w].got + 1
      BY <2>2
    <3>4. \A g \in File : file'[g] = file[g]
      BY <1>3, <3>1 DEF Receive, TypeOK
    <3>5. fetcher[w].seg \in Segment
      BY <2>2, <2>3, FileNames DEF Shape
    <3>6. \A k \in ToSet(Kinds) : file'[<<fetcher[w].seg, k>>] = file[<<fetcher[w].seg, k>>]
      BY <3>4, <3>5, FileNames
    <3>7. file'[<<fetcher[w].seg, "metadata">>] = Absent
      BY <2>3, <3>6, KindsList DEF Progress, Exists
    <3>8. ASSUME NEW m \in DOMAIN Kinds, NEW n \in DOMAIN Kinds,
                 n < m /\ Kinds[m] = fetcher[w].file[2]
          PROVE  file'[<<fetcher[w].seg, Kinds[n]>>] = 1 .. Chunks
      <4>1. Whole(<<fetcher[w].seg, Kinds[n]>>) /\ Kinds[n] \in ToSet(Kinds)
        BY <2>3, <3>8, KindsList DEF Progress
      <4> QED
        BY <3>6, <4>1 DEF Whole
    <3>9. ProgressOf(w)'
      BY <2>1, <3>1, <3>2, <3>3, <3>7, <3>8 DEF ProgressOf, Exists, Whole
    <3> QED
      BY <1>3, <1>w, <3>9 DEF Work, Pull
  <2>4. CASE fetcher[w].seg \in shared \/ fetcher[w].file = IndexMetadata
    <3>1. ProgressOf(w)'
      BY <2>1, <2>4, SharedGrows DEF ProgressOf
    <3> QED
      BY <1>3, <1>w, <3>1 DEF Work, Pull
  <2> QED
    BY <2>3, <2>4
<1>4. ASSUME NEW w \in Worker, fetcher'[w].file = IndexMetadata,
             Work(w) \/ RequestFails(w) \/ StreamFails(w) \/ Error(w)
      PROVE  Progress'
  BY <1>4, <1>w DEF ProgressOf
<1>5. ASSUME NEW w \in Worker, StreamFails(w) \/ RenameUndone(w) PROVE Progress'
  <2>1. fetcher'[w].file = IndexMetadata
    BY <1>5, UnlinkEffect DEF Failed, Idle
  <2> QED
    BY <1>4, <1>5, <2>1 DEF Work, Pull
<1>f. ASSUME NEW w \in Worker, RenameFails(w) PROVE Progress'
  <2>1. /\ fetcher'[w].seg = fetcher[w].seg /\ fetcher'[w].file = fetcher[w].file
        /\ fetcher'[w].pc = "unlink"
    BY <1>f, <1>t DEF RenameFails, FetcherType
  <2>2. ProgressOf(w)'
    BY <1>f, <2>1 DEF RenameFails, ProgressOf, Progress, Exists, Whole
  <2> QED
    BY <1>f, <1>w, <2>2 DEF Work, Pull
<1>6. ASSUME NEW w \in Worker,
             Start(w) \/ MarkDone(w) \/ MarkFailed(w)
             \/ RequestFails(w) \/ Error(w)
             \/ \E s \in Segment : dpv_queue_pop_pending(w, s)
      PROVE  Progress'
  <2>1. fetcher'[w].file = IndexMetadata
    BY <1>6, <1>t DEF Start, MarkDone, MarkFailed, RequestFails, Error,
      dpv_queue_pop_pending, Failed, Idle
  <2> QED
    BY <1>4, <1>6, <2>1 DEF Work, Pull
<1>7. ASSUME NEW w \in Worker, SweepEnd(w) \/ \E s \in Segment : SweepEntry(w, s)
      PROVE  Progress'
  <2>1. fetcher[w].pc = "sweep" /\ fetcher'[w].file = fetcher[w].file
    BY <1>7, <1>t DEF SweepEnd, SweepEntry, FetcherType
  <2>2. fetcher[w].file = IndexMetadata
    BY <1>t, <2>1, FileNames DEF Shape, FetcherType
  <2> QED
    BY <1>4, <1>7, <2>1, <2>2 DEF Work
<1>8. CASE dpv_queue_enqueue
  BY <1>8 DEF dpv_queue_enqueue, Progress, Exists, Whole
<1>9. CASE Crash
  BY <1>9, <1>o DEF Crash, ProgressOf, Idle
<1> QED
  BY <1>1, <1>2, <1>3, <1>5, <1>f, <1>6, <1>7, <1>8, <1>9 DEF Next, Work, Pull

\* pull_all_files is done with a segment when its metadata was there or came last.
LEMMA ArrivedStep ==
    ASSUME IndInv, Next
    PROVE  Arrived'
<1> USE DEF IndInv
<1>t. fetcher \in [Worker -> FetcherType]
  BY DEF TypeOK, FetcherType
<1> DEFINE Here(x) == fetcher'[x].pc = "adopt" => file'[<<fetcher'[x].seg, "metadata">>] # Absent
<1>o. (\A x \in Worker : Here(x)) => Arrived'
  BY DEF Arrived, Exists
<1>k. \A s \in Segment : Exists(<<s, "metadata">>) => file'[<<s, "metadata">>] # Absent
  <2>1. \A s \in Segment : <<s, "metadata">> \in File
    BY FileNames, KindsList
  <2> QED
    BY <2>1, ExistsKept DEF Exists
<1>x. ASSUME NEW x \in Worker, fetcher'[x].pc = fetcher[x].pc, fetcher'[x].seg = fetcher[x].seg
      PROVE  Here(x)
  <2>1. CASE fetcher[x].pc = "adopt"
    <3>1. fetcher[x].seg \in Segment
      BY <1>t, <2>1 DEF Shape, FetcherType
    <3> QED
      BY <1>k, <1>x, <2>1, <3>1 DEF Arrived
  <2> QED
    BY <1>x, <2>1
<1> HIDE DEF Here
<1>w. ASSUME NEW w \in Worker,
             Work(w) \/ RequestFails(w) \/ StreamFails(w) \/ Error(w), Here(w)
      PROVE  Arrived'
  BY <1>o, <1>x, <1>w, OthersKept DEF OthersKeep
<1>1. ASSUME NEW w \in Worker, Rename(w) PROVE Arrived'
  <2> DEFINE s == fetcher[w].seg
             f == fetcher[w].file
             next == NextFile(s, f)
  <2>1. /\ s \in Segment
        /\ fetcher'[w] = IF next = NoFile THEN [Idle("adopt") EXCEPT !.seg = s]
                         ELSE [Idle("request") EXCEPT !.seg = s, !.file = next]
    BY <1>1, RenameEffect
  <2>2. f \in File /\ (f = IndexMetadata \/ f[1] = s)
    BY DEF TypeOK, FetcherType, Shape
  <2>3. file'[f] # Absent
    <3>1. file' = [file EXCEPT ![f] = tmp[f]] /\ tmp[f] # Absent
      BY <1>1 DEF Rename
    <3> QED
      BY <2>2, <3>1 DEF TypeOK
  <2> HIDE DEF next
  <2>4. CASE next = NoFile
    <3>1. Exists(<<s, "metadata">>) \/ f = <<s, "metadata">>
      <4>1. \A n \in DOMAIN Kinds : <<s, Kinds[n]>> # NoFile
        BY <2>1, FileNames, KindsList
      <4>2. 1 \in DOMAIN Kinds
        BY KindsList
      <4> QED
        BY <2>1, <2>2, <2>4, <4>1, <4>2, NextFileIs DEF next
    <3>2. file'[<<s, "metadata">>] # Absent
      BY <1>k, <2>1, <2>3, <3>1
    <3>3. fetcher'[w].seg = s
      BY <2>1, <2>4 DEF Idle
    <3> QED
      BY <1>1, <1>w, <3>2, <3>3 DEF Here, Work, Pull
  <2>5. CASE next # NoFile
    <3>1. fetcher'[w].pc = "request"
      BY <2>1, <2>5 DEF Idle
    <3> QED
      BY <1>1, <1>w, <3>1 DEF Here, Work, Pull
  <2> QED
    BY <2>4, <2>5
<1>2. ASSUME NEW w \in Worker, StreamFails(w) \/ RenameUndone(w) PROVE Arrived'
  <2>1. fetcher'[w].pc = "failed"
    BY <1>2, UnlinkEffect DEF Failed, Idle
  <2> QED
    BY <1>2, <1>w, <2>1 DEF Here, Work, Pull
<1>3. ASSUME NEW w \in Worker, ~Rename(w), ~StreamFails(w), ~RenameUndone(w),
             Work(w) \/ RequestFails(w) \/ Error(w)
      PROVE  Arrived'
  <2>1. fetcher'[w].pc # "adopt"
    BY <1>3, <1>t DEF Work, Pull, Start, SweepEntry, SweepEnd, dpv_queue_pop_pending,
      Open, Receive, RenameFails, MarkDone, MarkFailed, RequestFails, Error, Failed, Idle,
      FetcherType
  <2> QED
    BY <1>3, <1>w, <2>1 DEF Here
<1>4. CASE dpv_queue_enqueue
  BY <1>4 DEF dpv_queue_enqueue, Arrived, Exists
<1>5. CASE Crash
  BY <1>5 DEF Crash, Arrived, Idle
<1> QED
  BY <1>1, <1>2, <1>3, <1>4, <1>5 DEF Next

\* An entry leaves the queue by MarkDone, after the files arrived.
LEMMA DroppedStep ==
    ASSUME IndInv, Next
    PROVE  NothingDropped'
<1> USE DEF IndInv
<1>t. /\ fetcher \in [Worker -> FetcherType] /\ Segments \in Nat
      /\ entry \in [Segment -> {"absent", "PENDING", "FETCHING", "FAILED"}]
      /\ pos \in 0 .. Segments /\ replayed \in pos .. Segments
  BY FetchQueueAssumption DEF TypeOK, FetcherType
<1>k. \A s \in Segment : Exists(<<s, "metadata">>) => Exists(<<s, "metadata">>)'
  <2>1. \A s \in Segment : <<s, "metadata">> \in File
    BY FileNames, KindsList
  <2> QED
    BY <2>1, ExistsKept
<1>r. 1 .. replayed \subseteq Segment
  BY <1>t DEF Segment
<1>e. ASSUME replayed' = replayed,
             \A s \in Segment : entry'[s] = "absent" =>
                entry[s] = "absent" \/ Exists(<<s, "metadata">>)
      PROVE  NothingDropped'
  BY <1>e, <1>k, <1>r DEF NothingDropped
<1>1. CASE dpv_queue_enqueue
  <2>1. pos + 1 \in Segment
    BY <1>1, <1>t DEF dpv_queue_enqueue, Segment
  <2>2. entry'[pos + 1] # "absent" /\ \A s \in Segment \ {pos + 1} : entry'[s] = entry[s]
    BY <1>1, <1>t, <2>1 DEF dpv_queue_enqueue
  <2>3. ASSUME NEW s \in 1 .. replayed', s # pos + 1 PROVE s \in 1 .. replayed
    BY <1>1, <1>t, <2>3 DEF dpv_queue_enqueue
  <2> QED
    BY <1>k, <1>r, <2>2, <2>3 DEF NothingDropped
<1>2. ASSUME NEW w \in Worker, MarkDone(w) PROVE NothingDropped'
  <2>1. fetcher[w].seg \in Segment
    BY <1>2, <1>t DEF MarkDone, Shape, FetcherType
  <2>2. Exists(<<fetcher[w].seg, "metadata">>)
    BY <1>2 DEF MarkDone, Arrived
  <2>3. \A s \in Segment : s # fetcher[w].seg => entry'[s] = entry[s]
    BY <1>2, <1>t DEF MarkDone
  <2> QED
    BY <1>2, <1>e, <2>2, <2>3 DEF MarkDone
<1>3. ASSUME NEW w \in Worker, MarkFailed(w) PROVE NothingDropped'
  <2>1. \A s \in Segment : entry'[s] = "absent" => entry[s] = "absent"
    BY <1>3, <1>t DEF MarkFailed
  <2> QED
    BY <1>3, <1>e, <2>1 DEF MarkFailed
<1>4. ASSUME NEW w \in Worker, NEW s \in Segment,
             SweepEntry(w, s) \/ dpv_queue_pop_pending(w, s)
      PROVE  NothingDropped'
  <2>1. \A x \in Segment : entry'[x] = "absent" => entry[x] = "absent"
    BY <1>4, <1>t DEF SweepEntry, dpv_queue_pop_pending
  <2> QED
    BY <1>4, <1>e, <2>1 DEF SweepEntry, dpv_queue_pop_pending
<1>5. ASSUME entry' = entry, replayed' = replayed PROVE NothingDropped'
  BY <1>5, <1>e
<1>6. ASSUME NEW w \in Worker,
             Start(w) \/ SweepEnd(w) \/ Pull(w) \/ RequestFails(w) \/ StreamFails(w) \/ Error(w)
      PROVE  NothingDropped'
  BY <1>5, <1>6 DEF Pull, Start, SweepEnd, Open, Receive, Rename, RenameFails,
    RenameUndone, Unlink, RequestFails, StreamFails, Error
<1>7. CASE Crash
  BY <1>5, <1>7 DEF Crash
<1> QED
  BY <1>1, <1>2, <1>3, <1>4, <1>6, <1>7 DEF Next, Work

-----------------------------------------------------------------------------
(* The theorems.                                                           *)

\* IndInv holds when the standby starts for the first time.
LEMMA IndInvInit ==
    ASSUME Init
    PROVE  IndInv
<1>1. TypeOK
  <2>1. Idle("down") \in FetcherType
    BY IdleTyped DEF PerIndex
  <2>2. Segments \in Nat /\ Chunks \in Nat /\ MaxFaults \in Nat
    BY FetchQueueAssumption
  <2>3. Absent \in SUBSET (0 .. Chunks)
    BY <2>2 DEF Absent
  <2> QED
    BY <2>1, <2>2, <2>3, SMTT(40) DEF Init, TypeOK, FetcherType
<1>2. Shape /\ Alone /\ Progress /\ Arrived
  BY DEF Init, Shape, Alone, Progress, Arrived, Idle
<1>3. ASSUME NEW s \in Segment PROVE ~Exists(<<s, "metadata">>)
  BY FileNames, KindsList DEF Init, Exists
<1>4. SegmentComplete /\ NothingDropped
  BY <1>3 DEF Init, SegmentComplete, NothingDropped
<1> QED
  BY <1>1, <1>2, <1>4 DEF IndInv

\* No step breaks it.
LEMMA IndInvStep ==
    ASSUME IndInv, [Next]_vars
    PROVE  IndInv'
<1>1. CASE Next
  BY <1>1, TypeStep, ShapeStep, AloneStep, ProgressStep, ArrivedStep, CompleteStep,
    DroppedStep DEF IndInv
<1>2. CASE UNCHANGED vars
  BY <1>2 DEF vars, IndInv, TypeOK, Shape, Alone, Progress, Arrived, SegmentComplete,
    NothingDropped, Exists, Whole
<1> QED
  BY <1>1, <1>2

\* The queue of fetches, the directory of the index and the workers keep the
\* inductive invariant: types, one worker per segment that is not shared, its
\* progress through pull_all_files, and the two properties below.
THEOREM Invariant == Spec => []IndInv
<1>1. Init => IndInv
  BY IndInvInit
<1>2. IndInv /\ [Next]_vars => IndInv'
  BY IndInvStep
<1> QED
  BY <1>1, <1>2, PTL DEF Spec

\* For any number of workers, segments, files, chunks, broken connections,
\* ERRORs and crashes: a segment that never had two workers at once and whose
\* metadata file is in the directory has all its files, and they are whole.
THEOREM MetadataMarksWhole == Spec => []SegmentComplete
<1>1. IndInv => SegmentComplete
  BY DEF IndInv
<1> QED
  BY <1>1, Invariant, PTL

\* For any of them: a segment that was replayed has its entry in the queue or
\* its metadata file in the directory, also when two workers shared it.
THEOREM NoSegmentForgotten == Spec => []NothingDropped
<1>1. IndInv => NothingDropped
  BY DEF IndInv
<1> QED
  BY <1>1, Invariant, PTL

\* No step of the standby, a crash included, takes away a file of the directory
\* that a reader may have found: rename(2) only ever replaces it.
THEOREM FilesStay == Spec => [][\A f \in File : Exists(f) => Exists(f)']_vars
<1>1. IndInv /\ [Next]_vars => [\A f \in File : Exists(f) => Exists(f)']_vars
  BY ExistsKept
<1> QED
  BY <1>1, Invariant, PTL DEF Spec

===============================================================================
