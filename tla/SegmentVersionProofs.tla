------------------------ MODULE SegmentVersionProofs ------------------------
(***************************************************************************)
(* Proofs about SegmentPool, going on from SegmentPoolProofs: that the     *)
(* slots of the pool hold the latest version of their segment when its     *)
(* files are read by slot, and that a restart would find on disk what it   *)
(* should, for any number of merge threads, VACUUMs, segments and slots.   *)
(* Here no merge gives up either, and no mutex is taken for another        *)
(* thread's.                                                               *)
(***************************************************************************)
EXTENDS SegmentPoolProofs

USE DEF listVars, poolVars, heapVars, regVars, mergeVars, searchVars, vacVars, seg

-----------------------------------------------------------------------------
(* The list.                                                               *)

\* No two segments of a list start at the same place.
LEMMA ChainFirst ==
    ASSUME NEW segs, NEW h, NEW t, NEW L, Chain(segs, h, t, L)
    PROVE  \A i \in L : segs[h].start <= segs[i].start
<1> DEFINE S == {segs[i].start : i \in L}
<1>1. S \in SUBSET Nat /\ S # {}
  <2>1. h \in L /\ \A i \in L : segs[i].start \in Nat
    BY Zenon DEF Chain
  <2> QED
    BY <2>1
<1>2. PICK x \in S : \A y \in S : x <= y
  BY <1>1, Least, Zenon
<1>3. PICK l \in L : segs[l].start = x
  BY <1>2
<1>4. \A i \in L : segs[l].start <= segs[i].start
  BY <1>2, <1>3
<1>5. CASE l = h
  BY <1>4, <1>5
<1>6. CASE l # h
  <2> DEFINE p == segs[l].prev_idx
  <2>1. p \in L \ {t} /\ segs[p].next_idx = l
    BY <1>6, Zenon DEF Chain
  <2>2. segs[l].start = segs[p].end + 1
    BY <2>1, Zenon DEF Chain
  <2>3. segs[p].start \in Nat /\ segs[p].end \in Nat /\ segs[p].start <= segs[p].end
    BY <2>1, Zenon DEF Chain
  <2>4. segs[l].start <= segs[p].start
    BY <1>4, <2>1
  <2> HIDE DEF p
  <2>5. segs[l].start \in Nat
    BY <1>1, <1>2, <1>3
  <2> QED
    BY <2>2, <2>3, <2>4, <2>5
<1> QED
  BY <1>5, <1>6

\* i and j both have s.
Both(segs, L, s) == \E i, j \in L :
    /\ i # j
    /\ segs[i].start <= s /\ s <= segs[i].end
    /\ segs[j].start <= s /\ s <= segs[j].end

\* What comes before s in a list that has it twice is in it twice.
LEMMA BothBefore ==
    ASSUME NEW segs, NEW h, NEW t, NEW L, Chain(segs, h, t, L), NEW s \in Nat, Both(segs, L, s)
    PROVE  s - 1 \in Nat /\ Both(segs, L, s - 1)
<1>1. PICK i, j \in L : /\ i # j
                        /\ segs[i].start <= s /\ s <= segs[i].end
                        /\ segs[j].start <= s /\ s <= segs[j].end
  BY DEF Both
<1>2. \A k \in L : /\ segs[k].start \in Nat /\ segs[k].end \in Nat
                   /\ segs[k].start <= segs[k].end
  BY Zenon DEF Chain
<1>3. \A k \in L \ {h} : /\ segs[k].prev_idx \in L \ {t}
                         /\ segs[segs[k].prev_idx].next_idx = k
  BY Zenon DEF Chain
<1>4. \A k \in L \ {t} : segs[segs[k].next_idx].start = segs[k].end + 1
  BY Zenon DEF Chain
<1>5. \A k \in L \ {h} : segs[k].start = segs[segs[k].prev_idx].end + 1
  BY <1>3, <1>4
<1>6. \A k \in L : segs[h].start <= segs[k].start
  BY ChainFirst
<1>7. h \in L
  BY Zenon DEF Chain
<1>8. \A k \in L : segs[k].start < s \/ k = h \/ segs[k].start > s
                     \/ (/\ segs[k].prev_idx \in L
                         /\ segs[segs[k].prev_idx].end + 1 = s
                         /\ segs[segs[k].prev_idx].next_idx = k)
  BY <1>2, <1>3, <1>5
<1> DEFINE Before(k) == IF segs[k].start < s THEN k ELSE segs[k].prev_idx
<1>9. ASSUME NEW k \in L, NEW m \in L, k # m, segs[k].start <= s, s <= segs[k].end,
             segs[m].start <= s, s <= segs[m].end
      PROVE  /\ Before(k) \in L /\ segs[Before(k)].start <= s - 1 /\ s - 1 <= segs[Before(k)].end
             /\ segs[k].start < s \/ segs[Before(k)].end = s - 1
             /\ segs[k].start < s \/ segs[Before(k)].next_idx = k
  <2>1. CASE segs[k].start < s
    BY <1>2, <1>9, <2>1
  <2>2. CASE segs[k].start = s
    <3>1. k # h
      <4>1. SUFFICES ASSUME k = h PROVE FALSE
        OBVIOUS
      <4>2. segs[m].start = s /\ m # h
        BY <1>2, <1>6, <2>2, <1>9, <4>1
      <4>3. segs[m].prev_idx \in L /\ segs[segs[m].prev_idx].end + 1 = s
        BY <1>3, <1>5, <4>2
      <4>4. segs[segs[m].prev_idx].start <= segs[segs[m].prev_idx].end
            /\ segs[segs[m].prev_idx].start \in Nat /\ segs[segs[m].prev_idx].end \in Nat
        BY <1>2, <4>3
      <4>5. s <= segs[segs[m].prev_idx].start
        BY <1>6, <2>2, <4>1, <4>3
      <4> QED
        BY <4>3, <4>4, <4>5
    <3>2. segs[k].prev_idx \in L /\ segs[segs[k].prev_idx].end + 1 = s
          /\ segs[segs[k].prev_idx].next_idx = k
      BY <1>3, <1>5, <2>2, <3>1
    <3> QED
      BY <1>2, <2>2, <3>2
  <2> QED
    BY <1>2, <1>9, <2>1, <2>2
<1>10. /\ Before(i) \in L /\ segs[Before(i)].start <= s - 1 /\ s - 1 <= segs[Before(i)].end
       /\ segs[i].start < s \/ segs[Before(i)].end = s - 1
       /\ segs[i].start < s \/ segs[Before(i)].next_idx = i
  BY <1>1, <1>9
<1>11. /\ Before(j) \in L /\ segs[Before(j)].start <= s - 1 /\ s - 1 <= segs[Before(j)].end
       /\ segs[j].start < s \/ segs[Before(j)].end = s - 1
       /\ segs[j].start < s \/ segs[Before(j)].next_idx = j
  BY <1>1, <1>9
<1>12. Before(i) # Before(j)
  <2>1. CASE segs[i].start < s /\ segs[j].start < s
    BY <1>1, <2>1
  <2>2. CASE segs[i].start < s /\ ~(segs[j].start < s)
    <3>1. Before(i) = i /\ segs[Before(j)].end = s - 1
      BY <1>11, <2>2
    <3> QED
      BY <1>1, <1>2, <3>1
  <2>3. CASE ~(segs[i].start < s) /\ segs[j].start < s
    <3>1. Before(j) = j /\ segs[Before(i)].end = s - 1
      BY <1>10, <2>3
    <3> QED
      BY <1>1, <1>2, <3>1
  <2>4. CASE ~(segs[i].start < s) /\ ~(segs[j].start < s)
    BY <1>1, <1>10, <1>11, <2>4
  <2> QED
    BY <2>1, <2>2, <2>3, <2>4
<1> HIDE DEF Before
<1>13. s - 1 \in Nat
  <2>1. segs[Before(i)].start \in Nat
    BY <1>2, <1>10
  <2> QED
    BY <1>10, <2>1
<1> QED
  BY <1>10, <1>11, <1>12, <1>13 DEF Both

\* Segments of a list do not overlap.
LEMMA ChainDisjoint ==
    ASSUME NEW segs, NEW h, NEW t, NEW L, Chain(segs, h, t, L),
           NEW i \in L, NEW j \in L, NEW s \in Nat,
           segs[i].start <= s, s <= segs[i].end,
           segs[j].start <= s, s <= segs[j].end
    PROVE  i = j
<1>1. SUFFICES ASSUME i # j PROVE FALSE
  OBVIOUS
<1> DEFINE S == {n \in Nat : Both(segs, L, n)}
<1>2. s \in S
  BY <1>1 DEF Both
<1>3. PICK x \in S : \A y \in S : x <= y
  BY <1>2, Least, Zenon
<1>4. x - 1 \in S
  BY <1>3, BothBefore
<1> QED
  BY <1>3, <1>4

\* Two segments of the pool have no sid in common.
LEMMA ListedApart ==
    ASSUME Inv, NEW i \in Linked, NEW j \in Linked, NEW s \in Nat,
           seg(i).start <= s, s <= seg(i).end, seg(j).start <= s, s <= seg(j).end
    PROVE  i = j
<1>1. Chain(flushed_segments, head_idx, tail_idx, Linked)
  BY Zenon DEF Inv, PoolInv, ListInv
<1> QED
  BY <1>1, ChainDisjoint

\* Nor have what two merge threads are at.
LEMMA ClaimsApart ==
    ASSUME Inv, NEW t \in Merger, NEW u \in Merger, mpc[t] \in Claiming, mpc[u] \in Claiming,
           task[t].start = task[u].start \/ task[t].end = task[u].end
    PROVE  t = u
<1>1. SUFFICES ASSUME t # u PROVE FALSE
  OBVIOUS
<1>2. /\ task[t].lo \in Linked /\ task[t].hi \in Linked
      /\ task[t].start = seg(task[t].lo).start /\ task[t].end = seg(task[t].hi).end
  BY ClaimedSids
<1>3. /\ task[u].lo \in Linked /\ task[u].hi \in Linked
      /\ task[u].start = seg(task[u].lo).start /\ task[u].end = seg(task[u].hi).end
  BY ClaimedSids
<1>4. task[t].lo # task[u].lo /\ task[t].hi # task[u].hi
  BY <1>1, ClaimsAre, Zenon DEF Inv, PoolInv, Disjoint
<1>5. \A i \in Linked : seg(i).start \in Nat /\ seg(i).end \in Nat /\ seg(i).start <= seg(i).end
  BY ListedSids, Constants
<1>6. CASE task[t].start = task[u].start
  <2> DEFINE s == task[t].start
             i == task[t].lo
             j == task[u].lo
  <2>1. /\ i \in Linked /\ j \in Linked /\ i # j
        /\ s = seg(i).start /\ s = seg(j).start
    BY <1>2, <1>3, <1>4, <1>6
  <2> HIDE DEF s, i, j
  <2>2. seg(i).start \in Nat /\ seg(i).end \in Nat /\ seg(i).start <= seg(i).end
    BY <1>5, <2>1, Zenon
  <2>3. seg(j).start \in Nat /\ seg(j).end \in Nat /\ seg(j).start <= seg(j).end
    BY <1>5, <2>1, Zenon
  <2>4. s \in Nat /\ seg(i).start <= s /\ s <= seg(i).end /\ seg(j).start <= s /\ s <= seg(j).end
    BY <2>1, <2>2, <2>3
  <2> QED
    BY <2>1, <2>4, ListedApart
<1>7. CASE task[t].end = task[u].end
  <2> DEFINE s == task[t].end
             i == task[t].hi
             j == task[u].hi
  <2>1. /\ i \in Linked /\ j \in Linked /\ i # j
        /\ s = seg(i).end /\ s = seg(j).end
    BY <1>2, <1>3, <1>4, <1>7
  <2> HIDE DEF s, i, j
  <2>2. seg(i).start \in Nat /\ seg(i).end \in Nat /\ seg(i).start <= seg(i).end
    BY <1>5, <2>1, Zenon
  <2>3. seg(j).start \in Nat /\ seg(j).end \in Nat /\ seg(j).start <= seg(j).end
    BY <1>5, <2>1, Zenon
  <2>4. s \in Nat /\ seg(i).start <= s /\ s <= seg(i).end /\ seg(j).start <= s /\ s <= seg(j).end
    BY <2>1, <2>2, <2>3
  <2> QED
    BY <2>1, <2>4, ListedApart
<1> QED
  BY <1>6, <1>7

\* A merge thread that is at the range of a listed segment rebuilds it.
LEMMA ClaimIs ==
    ASSUME Inv, NEW t \in Merger, mpc[t] \in Claiming, NEW i \in Linked,
           task[t].start = seg(i).start, task[t].end = seg(i).end
    PROVE  task[t].lo = i /\ task[t].hi = i
<1>1. /\ task[t].lo \in Linked /\ task[t].hi \in Linked
      /\ task[t].start = seg(task[t].lo).start /\ task[t].end = seg(task[t].hi).end
  BY ClaimedSids
<1>2. \A j \in Linked : seg(j).start \in Nat /\ seg(j).end \in Nat /\ seg(j).start <= seg(j).end
  BY ListedSids, Constants
<1>3. ASSUME NEW j \in Linked, seg(j).start = seg(i).start \/ seg(j).end = seg(i).end
      PROVE  j = i
  <2>1. CASE seg(j).start = seg(i).start
    <3>1. /\ seg(i).start \in Nat /\ seg(i).start <= seg(i).end
          /\ seg(j).start <= seg(i).start /\ seg(i).start <= seg(j).end
      BY <1>2, <2>1
    <3> QED
      BY <3>1, ListedApart
  <2>2. CASE seg(j).end = seg(i).end
    <3>1. /\ seg(i).end \in Nat /\ seg(i).start <= seg(i).end
          /\ seg(j).start <= seg(i).end /\ seg(i).end <= seg(j).end
      BY <1>2, <2>2
    <3> QED
      BY <3>1, ListedApart
  <2> QED
    BY <1>3, <2>1, <2>2
<1> QED
  BY <1>1, <1>3

-----------------------------------------------------------------------------
(* The mutexes.                                                            *)

\* The cleanup makes the mutex anew, and no reference is left.
LEMMA DroppedMutex ==
    ASSUME NEW g \in SegmentType, g.ref_count > 0
    PROVE  \/ Dropped(g).mutex = g.mutex
           \/ g.ref_count = 1 /\ Dropped(g).ref_count = 0
BY DEF Dropped, Cleaned, SegmentType

\* Segments that stay in the list keep theirs when others are replaced ...
LEMMA ReplaceMutex ==
    ASSUME flushed_segments \in [Idx -> SegmentType], NEW a, NEW b, NEW i, NEW new,
           Replace(a, b, i, new), NEW j \in Idx \ {a, b, i}
    PROVE  flushed_segments'[j].mutex = seg(j).mutex
<1> DEFINE p == seg(a).prev_idx
           n == seg(b).next_idx
           in == [new EXCEPT !.ref_count = 1, !.prev_idx = p, !.next_idx = n]
           New(k) == CASE k = i -> in
                       [] k # i /\ k \in {a, b} -> Dropped(seg(k))
                       [] OTHER -> seg(k)
<1>1. flushed_segments' =
            [k \in Idx |->
              IF k = p THEN [New(k) EXCEPT !.next_idx = i]
              ELSE IF k = n THEN [New(k) EXCEPT !.prev_idx = i]
              ELSE New(k)]
  BY Zenon DEF Replace, ReplaceInList
<1>2. New(j) = seg(j) /\ seg(j) \in SegmentType
  BY Zenon
<1> HIDE DEF New, p, n
<1>3. flushed_segments'[j] = IF j = p THEN [New(j) EXCEPT !.next_idx = i]
                             ELSE IF j = n THEN [New(j) EXCEPT !.prev_idx = i]
                             ELSE New(j)
  BY <1>1
<1>4. \/ flushed_segments'[j] = [seg(j) EXCEPT !.next_idx = i]
      \/ flushed_segments'[j] = [seg(j) EXCEPT !.prev_idx = i]
      \/ flushed_segments'[j] = seg(j)
  BY <1>2, <1>3, Zenon
<1>5. seg(j) \in SegmentType
  BY Zenon
<1> QED
  BY <1>4, <1>5 DEF SegmentType

\* ... or one is registered.
LEMMA RegisterMutex ==
    ASSUME flushed_segments \in [Idx -> SegmentType], NEW i, NEW new,
           Register(i, new), NEW j \in Idx \ {i}
    PROVE  flushed_segments'[j].mutex = seg(j).mutex
<1> DEFINE before == {m \in Linked : seg(m).start <= new.start}
           p == IF before = {} THEN NIL
                ELSE CHOOSE m \in before : \A k \in before : seg(k).start <= seg(m).start
           n == IF p = NIL THEN head_idx ELSE seg(p).next_idx
<1>1. flushed_segments' =
          [k \in Idx |->
              CASE k = i -> [new EXCEPT !.ref_count = 1, !.prev_idx = p,
                                        !.next_idx = n]
                [] k # i /\ k = p -> [seg(k) EXCEPT !.next_idx = i]
                [] k # i /\ k = n -> [seg(k) EXCEPT !.prev_idx = i]
                [] OTHER -> seg(k)]
  BY Zenon DEF Register
<1> HIDE DEF p, n
<1>2. seg(j) \in SegmentType
  BY Zenon
<1>3. \/ flushed_segments'[j] = [seg(j) EXCEPT !.next_idx = i]
      \/ flushed_segments'[j] = [seg(j) EXCEPT !.prev_idx = i]
      \/ flushed_segments'[j] = seg(j)
  BY <1>1
<1> QED
  BY <1>2, <1>3 DEF SegmentType

\* The mutex of slot i stays, or it is taken, or given up, or made anew by the
\* cleanup after the last reference.
MutexMoves(i) ==
    \/ flushed_segments'[i].mutex = seg(i).mutex
    \/ \E t \in Merger : /\ \/ MergeLock(t) /\ i = task[t].lo
                            \/ MergeLock2(t) /\ i = task[t].hi
                         /\ seg(i).mutex = NoThread
    \/ \E t \in Merger : MergeUnlock(t) /\ i \in {task[t].lo, task[t].hi}
    \/ \E t \in Merger : MergeGiveUp(t) /\ i \in {task[t].lo, task[t].hi}
    \/ UpdateLock /\ i = vidx /\ seg(i).mutex = NoThread
    \/ UpdateApply /\ i = vidx
    \/ /\ flushed_segments'[i].ref_count = 0
       /\ \/ seg(i).ref_count = 0
          \/ seg(i).ref_count = 1 /\ i \in Linked /\ i \notin Linked'

\* One field of one slot.
LEMMA OneMutex ==
    ASSUME flushed_segments \in [Idx -> SegmentType], NEW i \in Idx, NEW j, NEW r,
           \/ flushed_segments' = [flushed_segments EXCEPT ![j].ref_count = r]
           \/ flushed_segments' = [flushed_segments EXCEPT ![j].mutex = r]
           \/ flushed_segments' = [flushed_segments EXCEPT ![j].in_used = r]
    PROVE  \/ flushed_segments'[i].mutex = seg(i).mutex
           \/ i = j /\ flushed_segments' = [flushed_segments EXCEPT ![j].mutex = r]
<1>1. seg(i) \in SegmentType
  OBVIOUS
<1>2. CASE flushed_segments' = [flushed_segments EXCEPT ![j].ref_count = r]
  <2>1. flushed_segments'[i] = IF i = j THEN [seg(i) EXCEPT !.ref_count = r] ELSE seg(i)
    BY <1>2
  <2> QED
    BY <1>1, <2>1 DEF SegmentType
<1>3. CASE flushed_segments' = [flushed_segments EXCEPT ![j].in_used = r]
  <2>1. flushed_segments'[i] = IF i = j THEN [seg(i) EXCEPT !.in_used = r] ELSE seg(i)
    BY <1>3
  <2> QED
    BY <1>1, <2>1 DEF SegmentType
<1>4. CASE flushed_segments' = [flushed_segments EXCEPT ![j].mutex = r]
  <2>1. i # j => flushed_segments'[i] = seg(i)
    BY <1>4
  <2> QED
    BY <1>4, <2>1
<1> QED
  BY <1>2, <1>3, <1>4

\* A cleanup, or none.
LEMMA CheckMutex ==
    ASSUME TypeOK, NEW d, CheckDropped(d), NEW i \in Idx
    PROVE  MutexMoves(i)
<1>1. seg(i) \in SegmentType
  BY DEF TypeOK
<1>2. CASE flushed_segments' = flushed_segments
  BY <1>2 DEF MutexMoves
<1>3. CASE /\ seg(d).ref_count = 0
           /\ flushed_segments' = [flushed_segments EXCEPT ![d] = Cleaned(@)]
  <2>1. i # d => flushed_segments'[i] = seg(i)
    BY <1>3 DEF TypeOK
  <2>2. i = d => flushed_segments'[i].ref_count = 0
    BY <1>1, <1>3, CleanedIs DEF TypeOK
  <2> QED
    BY <1>3, <2>1, <2>2 DEF MutexMoves
<1> QED
  BY <1>2, <1>3 DEF CheckDropped

\* Replacing segments of the list.
LEMMA SwapMutex ==
    ASSUME Inv, NEW a \in Linked, NEW b \in Linked, NEW j, NEW new,
           Replace(a, b, j, new), Replaces(a, b, j, new), NEW i \in Idx \ {j}
    PROVE  MutexMoves(i)
<1>1. flushed_segments \in [Idx -> SegmentType]
  BY DEF Inv, PoolInv, TypeOK
<1>2. CASE i \in {a, b}
  <2>1. flushed_segments'[i] = Dropped(seg(i))
    BY <1>2 DEF Replaces
  <2>2. seg(i) \in SegmentType /\ seg(i).ref_count > 0
    BY <1>2, PinnedFacts
  <2>3. i \in Linked /\ i \notin Linked'
    BY <1>2 DEF Replaces
  <2> QED
    BY <2>1, <2>2, <2>3, DroppedMutex DEF MutexMoves
<1>3. CASE i \notin {a, b}
  BY <1>1, <1>3, ReplaceMutex DEF MutexMoves
<1> QED
  BY <1>2, <1>3

\* register_flushed_segment links a slot nobody uses yet, so it moves no mutex of a
\* used slot.
LEMMA RegMutex ==
    ASSUME Inv, Reg, NEW i \in Idx, Used(i)
    PROVE  MutexMoves(i)
<1>1. CASE RegularRegister
  <2>1. Register(ridx, seg(ridx)) /\ Coming(ridx)
    BY <1>1, Zenon DEF RegularRegister, Coming
  <2>2. i # ridx
    BY <2>1 DEF Used
  <2>3. flushed_segments \in [Idx -> SegmentType]
    BY DEF Inv, PoolInv, TypeOK
  <2> QED
    BY <2>1, <2>2, <2>3, RegisterMutex DEF MutexMoves
<1>2. CASE Fills
  <2>1. i # ridx
    BY <1>2 DEF Fills, Used
  <2> QED
    BY <1>2, <2>1, FillsFacts DEF MutexMoves
<1>3. CASE Reserves
  <2>1. i # insert_idx
    BY <1>3, Constants DEF Reserves, Used
  <2> QED
    BY <1>3, <2>1, ReservesFacts DEF MutexMoves
<1>4. CASE UNCHANGED poolVars
  BY <1>4 DEF MutexMoves
<1> QED
  BY <1>1, <1>2, <1>3, <1>4, RegKinds

\* An mmap upgrade swaps a slot's index and takes no per_seg_mutex.
LEMMA UpgMutex ==
    ASSUME Inv, Upg, NEW i \in Idx, Used(i)
    PROVE  MutexMoves(i)
<1>1. PICK u \in upgrades : Upgrade(u)
  BY DEF Upg
<1>2. CASE UNCHANGED poolVars
  BY <1>2 DEF MutexMoves
<1>3. CASE ~UNCHANGED poolVars
  <2>1. /\ Replaces(u.idx, u.idx, insert_idx, Loaded(EmptySegment, seg(u.idx), "full"))
        /\ insert_idx \in Idx /\ seg(insert_idx) = EmptySegment
    BY <1>1, <1>3, UpgradeReplaces
  <2>2. Reserved # NIL /\ Replace(u.idx, u.idx, Reserved, Loaded(seg(Reserved), seg(u.idx), "full"))
    BY <1>1, <1>3 DEF Upgrade
  <2>3. Reserved = insert_idx
    BY <2>2, ReservedIs DEF Inv, PoolInv
  <2>4. u.idx \in Linked
    BY <2>1 DEF Replaces
  <2>5. i # insert_idx
    BY <2>1, Constants DEF Used
  <2> QED
    BY <2>1, <2>2, <2>3, <2>4, <2>5, SwapMutex
<1> QED
  BY <1>2, <1>3

\* A merge thread moves a mutex only by taking it free or releasing its own.
LEMMA MrgMutex ==
    ASSUME Inv, NEW t \in Merger, Merge(t), NEW i \in Idx, Used(i)
    PROVE  MutexMoves(i)
<1>1. flushed_segments \in [Idx -> SegmentType] /\ seg(i) \in SegmentType
  BY DEF Inv, PoolInv, TypeOK
<1>2. CASE MergeScan(t) \/ MergeLoad(t) \/ MergeReload(t) \/ MergeWrite(t)
  <2>1. CASE MergeScan(t) \/ MergeLoad(t)
    BY <2>1, Zenon DEF MergeScan, MergeLoad, MergeBuild, MutexMoves
  <2>2. CASE MergeReload(t) \/ MergeWrite(t)
    BY <2>2, Zenon DEF MergeReload, MergeMask, MergeWrite, MutexMoves
  <2> QED
    BY <1>2, <2>1, <2>2
<1>3. CASE MergeClaim(t)
  <2>1. \/ UNCHANGED flushed_segments
        \/ flushed_segments' =
                      [j \in Idx |-> IF j \in {task[t].lo, task[t].hi}
                                     THEN [seg(j) EXCEPT !.is_compacting = TRUE]
                                     ELSE seg(j)]
    BY <1>3, ClaimTask
  <2>2. flushed_segments'[i] = seg(i)
          \/ flushed_segments'[i] = [seg(i) EXCEPT !.is_compacting = TRUE]
    BY <2>1
  <2> QED
    BY <1>1, <2>2 DEF MutexMoves, SegmentType
<1>4. CASE MergeLock(t)
  <2>1. seg(task[t].lo).mutex = NoThread
        /\ flushed_segments' = [flushed_segments EXCEPT ![task[t].lo].mutex = t]
    BY <1>4, Zenon DEF MergeLock
  <2>2. flushed_segments'[i].mutex = seg(i).mutex \/ i = task[t].lo
    BY <1>1, <2>1, OneMutex
  <2> QED
    BY <1>4, <2>1, <2>2 DEF MutexMoves
<1>5. CASE MergeLock2(t)
  <2>1. seg(task[t].hi).mutex = NoThread
        /\ flushed_segments' = [flushed_segments EXCEPT ![task[t].hi].mutex = t]
    BY <1>5, Zenon DEF MergeLock2
  <2>2. flushed_segments'[i].mutex = seg(i).mutex \/ i = task[t].hi
    BY <1>1, <2>1, OneMutex
  <2> QED
    BY <1>5, <2>1, <2>2 DEF MutexMoves
<1>6. CASE MergeGiveUp(t) \/ MergeUnlock(t)
  <2>1. PICK c : flushed_segments' = Unlocked(task[t], c)
    BY <1>6, EndTask
  <2>2. i \notin {task[t].lo, task[t].hi} => flushed_segments'[i] = seg(i)
    BY <2>1 DEF Unlocked
  <2> QED
    BY <1>6, <2>2 DEF MutexMoves
<1>7. CASE MergeReserve(t)
  <2>1. CASE UNCHANGED poolVars
    BY <2>1 DEF MutexMoves
  <2>2. CASE Reserves
    <3>1. i # insert_idx
      BY <2>2, Constants DEF Reserves, Used
    <3> QED
      BY <2>2, <3>1, ReservesFacts DEF MutexMoves
  <2> QED
    BY <1>7, <2>1, <2>2, ReserveTask
<1>8. CASE MergeReplace(t)
  <2> DEFINE k == task[t]
             new == Loaded(seg(k.new), File(k.start, k.end, k.version, k.rows, k.mask), "full")
  <2>1. Replaces(k.lo, k.hi, k.new, new) /\ Coming(k.new)
    BY <1>8, MergeReplaces
  <2>2. Replace(k.lo, k.hi, k.new, new)
    BY <1>8, Zenon DEF MergeReplace
  <2>3. i # k.new
    BY <2>1 DEF Used
  <2>4. k.lo \in Linked /\ k.hi \in Linked
    BY <2>1 DEF Replaces
  <2> HIDE DEF k, new
  <2> QED
    BY <2>1, <2>2, <2>3, <2>4, SwapMutex
<1> QED
  BY <1>2, <1>3, <1>4, <1>5, <1>6, <1>7, <1>8 DEF Merge, Compact

\* A search, which recycles a slot on its last unpin, moves no mutex.
LEMMA SchMutex ==
    ASSUME Inv, Sch, NEW i \in Idx
    PROVE  MutexMoves(i)
<1>1. TypeOK /\ flushed_segments \in [Idx -> SegmentType] /\ seg(i) \in SegmentType
  BY DEF Inv, PoolInv, TypeOK
<1>2. PICK x \in Searcher : SearchBegin(x) \/ Search(x)
  BY DEF Sch
<1>3. CASE SearchBegin(x) \/ SearchSegments(x) \/ SearchEnd(x)
  <2>1. UNCHANGED flushed_segments
    BY <1>3 DEF SearchBegin, SearchSegments, SearchEnd
  <2> QED
    BY <2>1 DEF MutexMoves
<1>4. CASE SearchPin(x)
  <2>1. flushed_segments'[i] = seg(i)
          \/ flushed_segments'[i] = [seg(i) EXCEPT !.ref_count = @ + 1]
    BY <1>4 DEF SearchPin, PinAll
  <2> QED
    BY <1>1, <2>1 DEF MutexMoves, SegmentType
<1>5. CASE SearchDrop(x)
  <2>1. PICK p : flushed_segments' = [flushed_segments EXCEPT ![p[1]].ref_count = @ - 1]
    BY <1>5, Zenon DEF SearchDrop
  <2>2. flushed_segments'[i] = seg(i)
          \/ flushed_segments'[i] = [seg(i) EXCEPT !.ref_count = @ - 1]
    BY <1>1, <2>1
  <2> QED
    BY <1>1, <2>2 DEF MutexMoves, SegmentType
<1>6. CASE SearchCheck(x)
  <2>1. CheckDropped(drop[x])
    BY <1>6, Zenon DEF SearchCheck
  <2> QED
    BY <1>1, <2>1, CheckMutex
<1> QED
  BY <1>2, <1>3, <1>4, <1>5, <1>6 DEF Search

\* VACUUM takes per_seg_mutex free and releases only its own.
LEMMA VacMutex ==
    ASSUME Inv, Vac, NEW i \in Idx
    PROVE  MutexMoves(i)
<1>1. TypeOK /\ flushed_segments \in [Idx -> SegmentType] /\ seg(i) \in SegmentType
  BY DEF Inv, PoolInv, TypeOK
<1>2. CASE VacuumBegin \/ VacuumSegment \/ VacuumAnswer \/ VacuumEnd
  <2>1. UNCHANGED flushed_segments
    BY <1>2 DEF VacuumBegin, VacuumSegment, VacuumAnswer, VacuumEnd
  <2> QED
    BY <2>1 DEF MutexMoves
<1>3. CASE UpdateFind
  <2> DEFINE j == FindBySids(Current.start, Current.end)
  <2>1. \/ UNCHANGED flushed_segments
        \/ flushed_segments' = [flushed_segments EXCEPT ![j].ref_count = @ + 1]
    BY <1>3 DEF UpdateFind
  <2> HIDE DEF j
  <2>2. flushed_segments'[i] = seg(i)
          \/ flushed_segments'[i] = [seg(i) EXCEPT !.ref_count = @ + 1]
    BY <1>1, <2>1
  <2> QED
    BY <1>1, <2>2 DEF MutexMoves, SegmentType
<1>4. CASE UpdateLock
  <2>1. seg(vidx).mutex = NoThread
        /\ flushed_segments' = [flushed_segments EXCEPT ![vidx].mutex = "vacuum"]
    BY <1>4, Zenon DEF UpdateLock, UpdateCheck
  <2>2. flushed_segments'[i].mutex = seg(i).mutex \/ i = vidx
    BY <1>1, <2>1, OneMutex
  <2> QED
    BY <1>4, <2>1, <2>2 DEF MutexMoves
<1>5. CASE UpdateApply
  <2>1. i # vidx => flushed_segments'[i] = seg(i)
    BY <1>1, <1>5 DEF UpdateApply, UpdateMask
  <2> QED
    BY <1>5, <2>1 DEF MutexMoves
<1>6. CASE UpdateDrop
  <2>1. flushed_segments'[i] = seg(i)
          \/ flushed_segments'[i] = [seg(i) EXCEPT !.ref_count = @ - 1]
    BY <1>1, <1>6 DEF UpdateDrop
  <2> QED
    BY <1>1, <2>1 DEF MutexMoves, SegmentType
<1>7. CASE UpdateDropCheck
  <2>1. CheckDropped(vidx)
    BY <1>7, Zenon DEF UpdateDropCheck
  <2> QED
    BY <1>1, <2>1, CheckMutex
<1> QED
  BY <1>2, <1>3, <1>4, <1>5, <1>6, <1>7 DEF Vac, Vacuum

\* Who changes the mutex of a slot in use.
LEMMA MutexIs ==
    ASSUME Inv, Next, NEW i \in Idx, Used(i)
    PROVE  MutexMoves(i)
<1>1. CASE Del
  BY <1>1, DelFrame DEF MutexMoves
<1>2. CASE Mrg
  BY <1>2, MrgMutex DEF Mrg
<1> QED
  BY <1>1, <1>2, RegMutex, UpgMutex, SchMutex, VacMutex, Parties

\* A slot that has left the list gets no reference again.
LEMMA UnlistedRefs ==
    ASSUME Inv, Next, insert_idx <= insert_idx', NEW i \in Idx, Used(i), i \notin Linked,
           seg(i).ref_count = 0
    PROVE  flushed_segments'[i].ref_count = 0
<1>0. flushed_segments' \in [Idx -> SegmentType]
  BY PoolType
<1>1. CASE Marks
  <2>1. flushed_segments'[i].ref_count \in Nat
    BY <1>0, SegmentFields
  <2> QED
    BY <1>1, <2>1, RefFrom
<1>2. CASE Reserves
  <2>1. i # insert_idx
    BY <1>2, Constants DEF Reserves, Used
  <2> QED
    BY <1>2, <2>1, ReservesFacts
<1>3. CASE \E j : Cleans(j)
  <2>1. PICK j : Cleans(j)
    BY <1>3
  <2>2. flushed_segments'[i] = seg(i) \/ flushed_segments'[i] = Cleaned(seg(i))
    BY <2>1, CleansFacts
  <2>3. seg(i) \in SegmentType
    BY PinnedFacts
  <2> QED
    BY <2>2, <2>3, CleanedIs
<1>4. CASE Fills
  <2>1. i # ridx
    BY <1>4 DEF Fills, Used
  <2> QED
    BY <1>4, <2>1, FillsFacts
<1>5. CASE RegularRegister /\ Appends(ridx)
  <2>1. Coming(ridx)
    BY <1>5 DEF RegularRegister, Coming
  <2> QED
    BY <1>5, <2>1 DEF Appends, Used
<1>6. CASE Swaps
  <2>1. PICK a, b, j, new : Replaces(a, b, j, new) /\ (Coming(j) \/ j >= insert_idx)
    BY <1>6 DEF Swaps
  <2>2. ~Used(j) /\ j \in Idx
    BY <2>1, ComingFacts DEF Replaces
  <2> QED
    BY <2>1, <2>2 DEF Replaces
<1> QED
  BY <1>1, <1>2, <1>3, <1>4, <1>5, <1>6, Kinds

\* A merge thread keeps what it has claimed until it is done.
LEMMA TaskStays ==
    ASSUME Inv, Next, NEW t \in Merger, mpc[t] \in Claiming, mpc'[t] # "idle"
    PROVE  /\ task'[t].lo = task[t].lo /\ task'[t].hi = task[t].hi
           /\ task'[t].start = task[t].start /\ task'[t].end = task[t].end
           /\ mpc'[t] \in Claiming \cup {"unlock"}
<1>1. CASE UNCHANGED mergeVars
  BY <1>1 DEF mergeVars
<1>2. CASE Mrg
  <2>1. PICK u \in Merger : Merge(u)
    BY <1>2 DEF Mrg
  <2>2. CASE u = t
    BY <2>1, <2>2, MergeTable DEF SameTask, Claiming
  <2>3. CASE u # t
    <3>1. mpc'[t] = mpc[t] /\ task'[t] = task[t]
      BY <2>1, <2>3, MergeTable, Zenon DEF Others
    <3> QED
      BY <3>1
  <2> QED
    BY <2>2, <2>3
<1> QED
  BY <1>1, <1>2, Frames

\* What a thread of its own mutex sees: it keeps it while it is at work.
LEMMA OwnerKeeps ==
    ASSUME Inv, Inv', Locked, Next, NEW t \in Merger, NEW i \in {task[t].lo, task[t].hi},
           mpc[t] \in Claiming, mpc'[t] \in Claiming, seg(i).mutex = t
    PROVE  flushed_segments'[i].mutex = t
<1>1. /\ i \in Linked /\ i \in Idx /\ Used(i) /\ seg(i).ref_count > 0
      /\ seg(i).ref_count # 0
  BY ClaimedSids, PinnedFacts
<1>2. i \in Linked'
  <2>1. task'[t].lo = task[t].lo /\ task'[t].hi = task[t].hi
    BY TaskStays DEF Claiming
  <2>2. task'[t].lo \in Linked' /\ task'[t].hi \in Linked'
    BY DEF Inv, PoolInv, Claims
  <2> QED
    BY <2>1, <2>2
<1>3. t # NoThread /\ t # "vacuum"
  BY ThreadAssumption
<1>4. ASSUME NEW u \in Merger, MergeUnlock(u), i \in {task[u].lo, task[u].hi}
      PROVE  FALSE
  BY <1>1, <1>4, Zenon DEF Locked, MergeUnlock, MergeAt
<1>5. ASSUME NEW u \in Merger, MergeGiveUp(u), i \in {task[u].lo, task[u].hi}
      PROVE  FALSE
  <2>1. mpc[u] = "giveup" /\ mpc'[u] = "idle"
    BY <1>5, EndTask
  <2>2. u # t /\ mpc[u] \in Claiming
    BY <2>1 DEF Claiming
  <2>3. Disjoint(t, u)
    BY <2>2, ClaimsAre DEF Inv, PoolInv
  <2> QED
    BY <1>5, <2>3 DEF Disjoint
<1>6. ~(UpdateApply /\ i = vidx)
  BY <1>3, Zenon DEF UpdateApply, UpdateMask, VacuumAt, Locked
<1>7. MutexMoves(i)
  BY <1>1, MutexIs
<1> QED
  BY <1>1, <1>2, <1>3, <1>4, <1>5, <1>6, <1>7, Zenon DEF MutexMoves

\* What it has replaced is not listed again, and stays its own as long as
\* somebody has it pinned.
LEMMA ReplacedKeeps ==
    ASSUME Inv, Locked, Next, insert_idx <= insert_idx',
           NEW t \in Merger, NEW i \in {task[t].lo, task[t].hi},
           mpc[t] = "unlock", mpc'[t] = "unlock"
    PROVE  /\ i \notin Linked'
           /\ flushed_segments'[i].ref_count = 0 \/ flushed_segments'[i].mutex = t
<1>1. Used(i) /\ i \in Idx
  BY DEF Inv, PoolInv, InHand, Used
<1>2. i \notin Linked /\ (seg(i).ref_count = 0 \/ seg(i).mutex = t)
  BY Zenon DEF Locked
<1>3. i \notin Linked'
  BY <1>1, <1>2, StillLinked
<1>4. CASE seg(i).ref_count = 0
  BY <1>1, <1>2, <1>3, <1>4, UnlistedRefs
<1>5. CASE seg(i).ref_count # 0 /\ seg(i).mutex = t
  <2>1. t # NoThread /\ t # "vacuum"
    BY ThreadAssumption
  <2>2. ASSUME NEW u \in Merger, MergeUnlock(u), i \in {task[u].lo, task[u].hi}
        PROVE  FALSE
    <3>1. mpc[u] = "unlock" /\ mpc'[u] = "idle"
      BY <2>2, EndTask
    <3>2. seg(i).ref_count = 0 \/ seg(i).mutex = u
      BY <2>2, <3>1, Zenon DEF Locked
    <3> QED
      BY <1>5, <3>1, <3>2
  <2>3. ASSUME NEW u \in Merger, MergeGiveUp(u), i \in {task[u].lo, task[u].hi}
        PROVE  FALSE
    <3>1. mpc[u] \in Claiming
      BY <2>3, EndTask DEF Claiming
    <3> QED
      BY <1>2, <2>3, <3>1, ClaimedSids
  <2>4. ~(UpdateApply /\ i = vidx)
    BY <1>5, <2>1, Zenon DEF UpdateApply, UpdateMask, VacuumAt, Locked
  <2>5. MutexMoves(i)
    BY <1>1, MutexIs
  <2> QED
    BY <1>2, <1>3, <1>5, <2>1, <2>2, <2>3, <2>4, <2>5, Zenon DEF MutexMoves
<1> QED
  BY <1>2, <1>4, <1>5

\* So does SEGMENT_UPDATE_VACUUM with its own.
LEMMA VacuumKeeps ==
    ASSUME Inv, Locked, Next, vpc = "apply", vpc' = "apply"
    PROVE  flushed_segments'[vidx'].mutex = "vacuum"
<1>1. vidx' = vidx
  <2>1. CASE Vac
    BY <2>1 DEF Vac, VacuumBegin, Vacuum, VacuumSegment, UpdateFind, UpdateLock, UpdateCheck,
             UpdateApply, UpdateMask, UpdateDrop, UpdateDropCheck, VacuumAnswer, VacuumEnd, VacuumAt
  <2>2. CASE UNCHANGED vacVars
    BY <2>2 DEF vacVars
  <2> QED
    BY <2>1, <2>2, Frames
<1>2. vidx \in Idx /\ Used(vidx) /\ seg(vidx).ref_count # 0 /\ seg(vidx).mutex = "vacuum"
  BY PinnedFacts DEF Locked
<1>3. ~(seg(vidx).ref_count = 1 /\ vidx \in Linked)
  BY <1>2, References DEF Inv, PoolInv
<1>4. "vacuum" # NoThread /\ "vacuum" \notin Merger
  BY ThreadAssumption
<1>5. ASSUME NEW u \in Merger, MergeUnlock(u), vidx \in {task[u].lo, task[u].hi}
      PROVE  FALSE
  <2>1. seg(vidx).ref_count = 0 \/ seg(vidx).mutex = u
    BY <1>5, Zenon DEF Locked, MergeUnlock, MergeAt
  <2> QED
    BY <1>2, <1>4, <2>1
<1>6. ASSUME NEW u \in Merger, MergeGiveUp(u), vidx \in {task[u].lo, task[u].hi}
      PROVE  FALSE
  <2>1. mpc[u] \in Holding
    BY <1>6, EndTask DEF Holding
  <2>2. seg(vidx).mutex = u
    BY <1>6, <2>1, Zenon DEF Locked
  <2> QED
    BY <1>2, <1>4, <2>2
<1>7. ~UpdateApply
  BY DEF UpdateApply, UpdateMask
<1>8. MutexMoves(vidx)
  BY <1>2, MutexIs
<1> QED
  BY <1>1, <1>2, <1>3, <1>4, <1>5, <1>6, <1>7, <1>8, Zenon DEF MutexMoves

\* How a merge thread comes to where it is.
LEMMA MergeFrom ==
    ASSUME Inv, Next, NEW t \in Merger
    PROVE  \/ mpc'[t] = mpc[t] /\ task'[t] = task[t]
           \/ Merge(t)
<1>1. CASE UNCHANGED mergeVars
  BY <1>1 DEF mergeVars
<1>2. CASE Mrg
  <2>1. PICK u \in Merger : Merge(u)
    BY <1>2 DEF Mrg
  <2>2. CASE u # t
    BY <2>1, <2>2, MergeTable, Zenon DEF Others
  <2> QED
    BY <2>1, <2>2
<1> QED
  BY <1>1, <1>2, Frames

\* The mutexes a merge thread holds (Locked) stay its own through a step of anyone.
LEMMA LockStep ==
    ASSUME Inv, Inv', Locked, Next, NEW t \in Merger
    PROVE  /\ mpc'[t] = "lock2" => flushed_segments'[task'[t].lo].mutex = t
           /\ mpc'[t] \in Holding => /\ flushed_segments'[task'[t].lo].mutex = t
                                     /\ flushed_segments'[task'[t].hi].mutex = t
<1>0. flushed_segments \in [Idx -> SegmentType]
  BY DEF Inv, PoolInv, TypeOK
<1>a. SUFFICES ASSUME mpc'[t] = "lock2" \/ mpc'[t] \in Holding
      PROVE  /\ flushed_segments'[task'[t].lo].mutex = t
             /\ mpc'[t] \in Holding => flushed_segments'[task'[t].hi].mutex = t
  OBVIOUS
<1>1. mpc'[t] \in Claiming /\ mpc'[t] # "idle"
  BY <1>a DEF Claiming, Holding, Writing
<1>2. CASE mpc[t] \in Holding
  <2>1. mpc[t] \in Claiming
    BY <1>2 DEF Claiming, Holding, Writing
  <2>2. seg(task[t].lo).mutex = t /\ seg(task[t].hi).mutex = t
    BY <1>2, Zenon DEF Locked
  <2>3. task'[t].lo = task[t].lo /\ task'[t].hi = task[t].hi
    BY <1>1, <2>1, TaskStays
  <2> QED
    BY <1>1, <2>1, <2>2, <2>3, OwnerKeeps
<1>3. CASE mpc[t] = "lock2"
  <2>1. mpc[t] \in Claiming
    BY <1>3 DEF Claiming
  <2>2. seg(task[t].lo).mutex = t
    BY <1>3, Zenon DEF Locked
  <2>3. task'[t].lo = task[t].lo /\ task'[t].hi = task[t].hi
    BY <1>1, <2>1, TaskStays
  <2>4. flushed_segments'[task'[t].lo].mutex = t
    BY <1>1, <2>1, <2>2, <2>3, OwnerKeeps
  <2>5. ASSUME mpc'[t] \in Holding PROVE flushed_segments'[task'[t].hi].mutex = t
    <3>1. MergeLock2(t)
      <4>1. mpc'[t] # mpc[t]
        BY <1>3, <2>5 DEF Holding, Writing
      <4>2. Merge(t)
        BY <4>1, MergeFrom
      <4>3. MergeLoad(t) \/ MergeLock(t) \/ MergeLock2(t) \/ MergeReload(t) \/ MergeWrite(t)
        BY <1>3, <4>2, MergeTable
      <4> QED
        BY <1>3, <4>3, LoadTask, ReloadTask, WriteTask DEF MergeLock, MergeAt
    <3>2. flushed_segments' = [flushed_segments EXCEPT ![task[t].hi].mutex = t]
      BY <3>1, Zenon DEF MergeLock2
    <3>3. task[t].hi \in Idx
      BY <2>1, ClaimedSids, PinnedFacts
    <3> QED
      BY <1>0, <2>3, <3>2, <3>3 DEF SegmentType
  <2> QED
    BY <2>4, <2>5
<1>4. CASE mpc[t] \notin Holding /\ mpc[t] # "lock2"
  <2>1. mpc'[t] # mpc[t]
    BY <1>a, <1>4
  <2>2. Merge(t)
    BY <2>1, MergeFrom
  <2>3. MergeLock(t)
    BY <1>a, <1>4, <2>2, MergeTable, LoadTask, ReloadTask, WriteTask, LockTask
       DEF Holding, Writing, MergeLock2, MergeAt
  <2>4. /\ mpc[t] = "lock" /\ flushed_segments' = [flushed_segments EXCEPT ![task[t].lo].mutex = t]
        /\ MergeStep(t, IF task[t].lo = task[t].hi THEN "reload" ELSE "lock2", task[t])
    BY <2>3, Zenon DEF MergeLock, MergeAt
  <2>5. task'[t] = task[t] /\ (task[t].lo # task[t].hi => mpc'[t] = "lock2")
    BY <2>4, MergeStepIs DEF Inv, PoolInv
  <2>6. task[t].lo \in Idx
    BY <2>4, ClaimedSids, PinnedFacts DEF Claiming
  <2>7. flushed_segments'[task[t].lo].mutex = t
    BY <1>0, <2>4, <2>6 DEF SegmentType
  <2> QED
    BY <2>5, <2>7 DEF Holding, Writing
<1> QED
  BY <1>2, <1>3, <1>4

\* The slots a merge thread still has to unlock are unlinked, and recycled or its own.
LEMMA UnlockStep ==
    ASSUME Inv, Locked, Next, insert_idx <= insert_idx', NEW t \in Merger, mpc'[t] = "unlock",
           NEW i \in {task'[t].lo, task'[t].hi}
    PROVE  /\ i \notin Linked'
           /\ flushed_segments'[i].ref_count = 0 \/ flushed_segments'[i].mutex = t
<1>1. CASE mpc[t] = "unlock"
  <2>1. task'[t] = task[t]
    BY <1>1, MergeFrom, MergeTable
  <2> QED
    BY <1>1, <2>1, ReplacedKeeps
<1>2. CASE mpc[t] # "unlock"
  <2>1. MergeReplace(t)
    BY <1>2, MergeFrom, MergeTable
  <2>2. /\ mpc[t] = "replace" /\ task'[t] = task[t]
    BY <2>1, EndTask
  <2>3. seg(i).mutex = t
    BY <2>2, Zenon DEF Locked, Holding, Writing
  <2>4. PICK new : Replaces(task[t].lo, task[t].hi, task[t].new, new)
    BY <2>1, MergeReplaces
  <2>5. /\ i \in Linked /\ i \notin Linked' /\ flushed_segments'[i] = Dropped(seg(i))
    BY <2>2, <2>4 DEF Replaces
  <2>6. seg(i) \in SegmentType /\ seg(i).ref_count > 0
    BY <2>5, PinnedFacts
  <2> QED
    BY <2>3, <2>5, <2>6, DroppedMutex
<1> QED
  BY <1>1, <1>2

\* Mutexes stay with their owners.
LEMMA LockedStep ==
    ASSUME Inv, Inv', Locked, Next, insert_idx <= insert_idx'
    PROVE  Locked'
<1>1. ASSUME vpc' = "apply" PROVE flushed_segments'[vidx'].mutex = "vacuum"
  <2>1. CASE vpc = "apply"
    BY <1>1, <2>1, VacuumKeeps
  <2>2. CASE vpc # "apply"
    <3>1. Vac
      BY <1>1, <2>2, Frames DEF vacVars
    <3>2. UpdateLock
      BY <1>1, <2>2, <3>1 DEF Vac, VacuumBegin, Vacuum, VacuumSegment, UpdateFind, UpdateLock,
         UpdateCheck, UpdateApply, UpdateMask, UpdateDrop, UpdateDropCheck, VacuumAnswer, VacuumEnd,
         VacuumAt
    <3>3. /\ vpc = "lock" /\ vidx' = vidx
          /\ flushed_segments' = [flushed_segments EXCEPT ![vidx].mutex = "vacuum"]
      BY <3>2, Zenon DEF UpdateLock, UpdateCheck, VacuumAt
    <3>4. vidx \in Idx /\ seg(vidx) \in SegmentType
      BY <3>3, PinnedFacts
    <3>5. flushed_segments \in [Idx -> SegmentType]
      BY DEF Inv, PoolInv, TypeOK
    <3> QED
      BY <3>3, <3>4, <3>5 DEF SegmentType
  <2> QED
    BY <2>1, <2>2
<1> QED
  BY <1>1, LockStep, UnlockStep DEF Locked

-----------------------------------------------------------------------------
(* The latest versions.                                                    *)

VersionsIn(fs, s, e) == {f.version : f \in {g \in fs : g.start = s /\ g.end = e}}
LatestIn(fs, s, e) ==
    CHOOSE v \in VersionsIn(fs, s, e) \cup {0} : \A w \in VersionsIn(fs, s, e) : w <= v

\* Newest, before and after a step, in terms of the files.
LEMMA NewestIs ==
    Newest <=> /\ \A i \in Linked :
                    seg(i).version = LatestIn(files, seg(i).start, seg(i).end) \/ Rebuilt(i)
               /\ \A t \in Merger : mpc[t] \in Writing =>
                    task[t].version = LatestIn(files, task[t].start, task[t].end)
               /\ rpc = "register" => seg(ridx).version = LatestIn(files, rsid, rsid)
BY Zenon DEF Newest, LatestVersion, Versions, LatestIn, VersionsIn

ListedNewest(i) ==
    LET n == flushed_segments'[i] IN
    n.version = LatestIn(files', n.start, n.end) \/ Rebuilt(i)'
WritesNewest(t) ==
    mpc'[t] \in Writing => task'[t].version = LatestIn(files', task'[t].start, task'[t].end)

\* Newest of the next state, from its three parts stated with the next files.
LEMMA NewestAfter ==
    ASSUME \A i \in Linked' : ListedNewest(i),
           \A t \in Merger : WritesNewest(t),
           rpc' = "register" =>
             flushed_segments'[ridx'].version = LatestIn(files', rsid', rsid')
    PROVE  Newest'
BY Zenon DEF Newest, LatestVersion, Versions, LatestIn, VersionsIn, ListedNewest, WritesNewest

\* The greatest version is the latest.
LEMMA LatestMax ==
    ASSUME NEW fs, NEW s, NEW e, VersionsIn(fs, s, e) \subseteq Nat,
           NEW m \in VersionsIn(fs, s, e), \A w \in VersionsIn(fs, s, e) : w <= m
    PROVE  LatestIn(fs, s, e) = m
<1> DEFINE V == VersionsIn(fs, s, e)
           P(v) == \A w \in V : w <= v
<1>1. m \in V \cup {0} /\ P(m)
  OBVIOUS
<1>2. LatestIn(fs, s, e) = CHOOSE v \in V \cup {0} : P(v)
  BY DEF LatestIn
<1>3. LatestIn(fs, s, e) \in V \cup {0} /\ P(LatestIn(fs, s, e))
  BY <1>1, <1>2, Zenon
<1> QED
  BY <1>1, <1>3

\* LatestIn and VersionsIn read at the current files are the model's own operators.
LEMMA LatestInIs ==
    ASSUME NEW s, NEW e
    PROVE  /\ LatestIn(files, s, e) = LatestVersion(s, e)
           /\ VersionsIn(files, s, e) = Versions(s, e)
BY Zenon DEF LatestVersion, Versions, LatestIn, VersionsIn

\* A version is on disk for a range when a file of the range carries it.
LEMMA VersionsInIs ==
    ASSUME NEW fs, NEW s, NEW e, NEW v
    PROVE  v \in VersionsIn(fs, s, e) <=>
             \E f \in fs : f.start = s /\ f.end = e /\ f.version = v
BY DEF VersionsIn

\* One more file.
LEMMA VersionsAdded ==
    ASSUME NEW fs, NEW fs2, NEW g, \A f : f \in fs2 <=> f \in fs \/ f = g,
           NEW s, NEW e, NEW v
    PROVE  v \in VersionsIn(fs2, s, e) <=>
             v \in VersionsIn(fs, s, e) \/ (g.start = s /\ g.end = e /\ g.version = v)
<1>1. ASSUME v \in VersionsIn(fs2, s, e)
      PROVE  v \in VersionsIn(fs, s, e) \/ (g.start = s /\ g.end = e /\ g.version = v)
  <2>1. PICK f \in fs2 : f.start = s /\ f.end = e /\ f.version = v
    BY <1>1 DEF VersionsIn
  <2> QED
    BY <2>1 DEF VersionsIn
<1>2. ASSUME v \in VersionsIn(fs, s, e) PROVE v \in VersionsIn(fs2, s, e)
  <2>1. PICK f \in fs : f.start = s /\ f.end = e /\ f.version = v
    BY <1>2 DEF VersionsIn
  <2> QED
    BY <2>1 DEF VersionsIn
<1>3. ASSUME g.start = s, g.end = e, g.version = v PROVE v \in VersionsIn(fs2, s, e)
  BY <1>3 DEF VersionsIn
<1> QED
  BY <1>1, <1>2, <1>3

\* Another file of the same name.
LEMMA VersionsKept ==
    ASSUME NEW fs, NEW f \in fs, NEW g,
           g.start = f.start, g.end = f.end, g.version = f.version, NEW s, NEW e, NEW v
    PROVE  v \in VersionsIn((fs \ {f}) \cup {g}, s, e) <=> v \in VersionsIn(fs, s, e)
<1> DEFINE fs2 == (fs \ {f}) \cup {g}
<1>1. ASSUME v \in VersionsIn(fs2, s, e) PROVE v \in VersionsIn(fs, s, e)
  <2>1. PICK h \in fs2 : h.start = s /\ h.end = e /\ h.version = v
    BY <1>1 DEF VersionsIn
  <2>2. CASE h = g
    BY <2>1, <2>2 DEF VersionsIn
  <2>3. CASE h # g
    BY <2>1, <2>3 DEF VersionsIn
  <2> QED
    BY <2>2, <2>3
<1>2. ASSUME v \in VersionsIn(fs, s, e) PROVE v \in VersionsIn(fs2, s, e)
  <2>1. PICK h \in fs : h.start = s /\ h.end = e /\ h.version = v
    BY <1>2 DEF VersionsIn
  <2>2. CASE h = f
    BY <2>1, <2>2 DEF VersionsIn
  <2>3. CASE h # f
    BY <2>1, <2>3 DEF VersionsIn
  <2> QED
    BY <2>2, <2>3
<1> QED
  BY <1>1, <1>2

\* The files that a step adds.
LEMMA FlushAdds ==
    ASSUME FlushSegment
    PROVE  \E g : /\ \A f : f \in files' <=> f \in files \/ f = g
                  /\ g.start = rsid' /\ g.end = rsid' /\ g.version = 1
                  /\ g.rows = RowsOf({rsid'}) /\ g.mask = {}
<1> DEFINE g == File(rsid', rsid', 1, RowsOf({rsid'}), {})
<1>1. files' = files \cup {g}
  BY Zenon DEF FlushSegment
<1>2. /\ g.start = rsid' /\ g.end = rsid' /\ g.version = 1
      /\ g.rows = RowsOf({rsid'}) /\ g.mask = {}
  BY DEF File
<1> HIDE DEF g
<1>3. \A f : f \in files' <=> f \in files \/ f = g
  BY <1>1
<1> QED
  BY <1>2, <1>3, Zenon

\* A merge's write adds one file, one version above the latest of its range.
LEMMA WriteAdds ==
    ASSUME NEW t \in Merger, MergeWrite(t)
    PROVE  \E g : /\ \A f : f \in files' <=> f \in files \/ f = g
                  /\ g.start = task[t].start /\ g.end = task[t].end
                  /\ g.version = LatestVersion(task[t].start, task[t].end) + 1
                  /\ g.rows = task[t].rows /\ g.mask = task[t].mask
<1> DEFINE k == task[t]
           v == LatestVersion(task[t].start, task[t].end) + 1
           g == File(k.start, k.end, v, k.rows, k.mask)
<1>1. files' = files \cup {g}
  BY Zenon DEF MergeWrite
<1> HIDE DEF v
<1>2. /\ g.start = k.start /\ g.end = k.end /\ g.version = v
      /\ g.rows = k.rows /\ g.mask = k.mask
  BY DEF File
<1> HIDE DEF g
<1>3. \A f : f \in files' <=> f \in files \/ f = g
  BY <1>1
<1> QED
  BY <1>2, <1>3, Zenon DEF v

\* A step that adds no file of a segment keeps its latest version.
LEMMA LatestStays ==
    ASSUME Inv, Next, NEW s, NEW e, FlushSegment => ~(s = rsid' /\ e = rsid'),
           \A t \in Merger : MergeWrite(t) => ~(s = task[t].start /\ e = task[t].end)
    PROVE  LatestIn(files', s, e) = LatestIn(files, s, e)
<1>0. rsid' \in AnySid
  BY RegType
<1>1. ASSUME NEW v
      PROVE  v \in VersionsIn(files', s, e) <=> v \in VersionsIn(files, s, e)
  <2>1. CASE files' = files
    BY <2>1
  <2>2. CASE FlushSegment
    <3>1. PICK g : (\A f : f \in files' <=> f \in files \/ f = g)
                   /\ g.start = rsid' /\ g.end = rsid'
      BY <2>2, FlushAdds, Zenon
    <3>2. ~(g.start = s /\ g.end = e)
      BY <2>2, <3>1
    <3> QED
      BY <3>1, <3>2, VersionsAdded
  <2>3. CASE \E t \in Merger : MergeWrite(t)
    <3>1. PICK t \in Merger : MergeWrite(t)
      BY <2>3
    <3>2. PICK g : (\A f : f \in files' <=> f \in files \/ f = g)
                   /\ g.start = task[t].start /\ g.end = task[t].end
      BY <3>1, WriteAdds, Zenon
    <3>3. ~(g.start = s /\ g.end = e)
      BY <3>1, <3>2
    <3> QED
      BY <3>2, <3>3, VersionsAdded
  <2>4. CASE VacuumSegment
    <3>1. files' = files \/ \E f \in files : \E g \in FileType :
                /\ files' = (files \ {f}) \cup {g}
                /\ g.start = f.start /\ g.end = f.end /\ g.version = f.version
      BY <2>4, SegmentVacuumed
    <3>2. CASE files' # files
      <4>1. PICK f \in files, g \in FileType :
                /\ files' = (files \ {f}) \cup {g}
                /\ g.start = f.start /\ g.end = f.end /\ g.version = f.version
        BY <3>1, <3>2, Zenon
      <4> QED
        BY <4>1, VersionsKept
    <3> QED
      BY <2>1, <3>2
  <2> QED
    BY <2>1, <2>2, <2>3, <2>4, Frames
<1>2. VersionsIn(files', s, e) = VersionsIn(files, s, e)
  BY <1>1
<1> QED
  BY <1>2, Zenon DEF LatestIn

\* flush_segment_to_disk writes the next version.
LEMMA LatestWritten ==
    ASSUME Inv, NEW t \in Merger, MergeWrite(t)
    PROVE  task'[t].version = LatestIn(files', task[t].start, task[t].end)
<1> DEFINE s == task[t].start
           e == task[t].end
           v == LatestVersion(s, e)
<1>1. TypeOK /\ FilesInv
  BY DEF Inv, PoolInv, RowsInv
<1>2. /\ v \in Nat /\ \A w \in Versions(s, e) : w <= v
      /\ Versions(s, e) \subseteq Nat
  BY <1>1, LatestIs, VersionFacts
<1>3. task'[t].version = v + 1
  BY WriteTask
<1>4. PICK g : (\A f : f \in files' <=> f \in files \/ f = g)
               /\ g.start = s /\ g.end = e /\ g.version = v + 1
  BY WriteAdds, Zenon
<1>5. VersionsIn(files, s, e) = Versions(s, e)
  BY LatestInIs
<1> HIDE DEF s, e, v
<1>6. \A w : w \in VersionsIn(files', s, e) <=> w \in Versions(s, e) \/ w = v + 1
  BY <1>4, <1>5, VersionsAdded
<1>7. VersionsIn(files', s, e) \subseteq Nat /\ v + 1 \in VersionsIn(files', s, e)
      /\ \A w \in VersionsIn(files', s, e) : w <= v + 1
  BY <1>2, <1>6
<1>8. LatestIn(files', s, e) = v + 1
  BY <1>7, LatestMax
<1> QED
  BY <1>3, <1>8 DEF s, e

\* What a merge thread has written is the latest as long as it is at work.
LEMMA WritesStep ==
    ASSUME Inv, Newest, Next, NEW t \in Merger
    PROVE  WritesNewest(t)
<1>1. SUFFICES ASSUME mpc'[t] \in Writing
               PROVE  task'[t].version = LatestIn(files', task'[t].start, task'[t].end)
  BY DEF WritesNewest
<1>2. CASE mpc[t] \in Writing
  <2>1. mpc[t] \in Claiming /\ mpc'[t] # "idle" /\ mpc[t] # "write"
    BY <1>1, <1>2 DEF Writing, Claiming
  <2>2. task'[t].start = task[t].start /\ task'[t].end = task[t].end
    BY <2>1, TaskStays
  <2>3. task'[t].version = task[t].version
    <3>1. CASE task'[t] = task[t]
      BY <3>1
    <3>2. CASE Merge(t)
      <4>1. MergeReserve(t)
        BY <1>1, <1>2, <3>2, MergeTable DEF Writing
      <4> QED
        BY <4>1, ReserveTask
    <3> QED
      BY <3>1, <3>2, MergeFrom
  <2>4. task[t].version = LatestIn(files, task[t].start, task[t].end)
    BY <1>2, NewestIs
  <2>5. FlushSegment => ~(task[t].start = rsid' /\ task[t].end = rsid')
    <3>1. task[t].end <= rsid /\ task[t].end \in Nat
      BY <2>1, ClaimedSids, Constants
    <3>2. FlushSegment => rsid' = rsid + 1
      BY DEF FlushSegment
    <3> QED
      BY <3>1, <3>2, FilesAre
  <2>6. ASSUME NEW u \in Merger, MergeWrite(u)
        PROVE  ~(task[t].start = task[u].start /\ task[t].end = task[u].end)
    <3>1. mpc[u] = "write"
      BY <2>6, WriteTask
    <3> QED
      BY <2>1, <3>1, ClaimsApart DEF Claiming
  <2>7. LatestIn(files', task[t].start, task[t].end) = LatestIn(files, task[t].start, task[t].end)
    BY <2>5, <2>6, LatestStays
  <2> QED
    BY <2>2, <2>3, <2>4, <2>7
<1>3. CASE mpc[t] \notin Writing
  <2>1. Merge(t)
    BY <1>1, <1>3, MergeFrom
  <2>2. MergeWrite(t)
    BY <1>1, <1>3, <2>1, MergeTable, LoadTask, LockTask, ReloadTask DEF Writing
  <2>3. task'[t].start = task[t].start /\ task'[t].end = task[t].end
    BY <2>2, WriteTask DEF SameTask
  <2> QED
    BY <2>2, <2>3, LatestWritten
<1> QED
  BY <1>2, <1>3

\* A segment that stays in the list is the latest, or is being rebuilt.
LEMMA ListedStep ==
    ASSUME Inv, Newest, NoneGivesUp', Next, insert_idx <= insert_idx',
           NEW i \in Linked, i \in Linked'
    PROVE  ListedNewest(i)
<1>1. /\ flushed_segments'[i].start = seg(i).start /\ flushed_segments'[i].end = seg(i).end
      /\ flushed_segments'[i].version = seg(i).version
  BY PinnedFacts, SlotsStay DEF Same
<1>2. CASE Rebuilt(i)
  <2>1. PICK t \in Merger : mpc[t] \in Writing /\ task[t].lo = i /\ task[t].hi = i
    BY <1>2 DEF Rebuilt
  <2>2. ~MergeReplace(t)
    BY <2>1, MergeReplaces, PinnedFacts DEF Replaces
  <2>3. mpc'[t] \in Writing /\ task'[t].lo = i /\ task'[t].hi = i
    <3>1. CASE mpc'[t] = mpc[t] /\ task'[t] = task[t]
      BY <2>1, <3>1
    <3>2. CASE Merge(t)
      <4>1. MergeReserve(t) /\ SameTask(t) /\ mpc'[t] \in {"giveup", "replace"}
        BY <2>1, <2>2, <3>2, MergeTable DEF Writing
      <4> QED
        BY <2>1, <4>1 DEF SameTask, NoneGivesUp, Writing
    <3> QED
      BY <3>1, <3>2, MergeFrom
  <2> QED
    BY <2>3 DEF ListedNewest, Rebuilt
<1>3. CASE seg(i).version = LatestIn(files, seg(i).start, seg(i).end)
  <2>1. CASE \E t \in Merger : MergeWrite(t) /\ seg(i).start = task[t].start
                                             /\ seg(i).end = task[t].end
    <3>1. PICK t \in Merger : MergeWrite(t) /\ seg(i).start = task[t].start
                                            /\ seg(i).end = task[t].end
      BY <2>1
    <3>2. mpc[t] = "write" /\ mpc'[t] = "reserve" /\ SameTask(t)
      BY <3>1, WriteTask
    <3>3. task[t].lo = i /\ task[t].hi = i
      BY <3>1, <3>2, ClaimIs DEF Claiming
    <3>4. mpc'[t] \in Writing /\ task'[t].lo = i /\ task'[t].hi = i
      BY <3>2, <3>3 DEF SameTask, Writing
    <3> QED
      BY <3>4 DEF ListedNewest, Rebuilt
  <2>2. CASE ~\E t \in Merger : MergeWrite(t) /\ seg(i).start = task[t].start
                                              /\ seg(i).end = task[t].end
    <3>1. FlushSegment => ~(seg(i).start = rsid' /\ seg(i).end = rsid')
      <4>1. seg(i).end <= rsid /\ seg(i).end \in Nat
        BY ListedSids, Constants
      <4>2. FlushSegment => rsid' = rsid + 1
        BY DEF FlushSegment
      <4> QED
        BY <4>1, <4>2, FilesAre
    <3>2. LatestIn(files', seg(i).start, seg(i).end) = LatestIn(files, seg(i).start, seg(i).end)
      BY <2>2, <3>1, LatestStays
    <3> QED
      BY <1>1, <1>3, <3>2 DEF ListedNewest
  <2> QED
    BY <2>1, <2>2
<1> QED
  BY <1>2, <1>3, NewestIs

\* An upgraded segment is the latest.
LEMMA UpgradedStep ==
    ASSUME Inv, Newest, NEW u \in upgrades, Upgrade(u), NEW i \in Linked', i \notin Linked,
           insert_idx <= insert_idx'
    PROVE  ListedNewest(i)
<1> DEFINE g == seg(u.idx)
           new == Loaded(EmptySegment, g, "full")
<1>1. ~(Marks /\ UNCHANGED poolVars)
  BY LinkedStays
<1>2. Replaces(u.idx, u.idx, insert_idx, new)
  BY <1>1, UpgradeReplaces
<1>3. u.idx \in Linked /\ i = insert_idx /\ Holds(i, new)
  BY <1>2 DEF Replaces
<1>4. g \in SegmentType /\ g.load_state = "mmap"
  BY <1>3, PinnedFacts DEF Inv, PoolInv, Upgrading
<1>5. new.start = g.start /\ new.end = g.end /\ new.version = g.version
  <2>1. EmptySegment \in SegmentType
    BY EmptyType
  <2> HIDE DEF g
  <2> QED
    BY <2>1 DEF Loaded, SegmentType
<1>6. ~Rebuilt(u.idx)
  <2>1. SUFFICES ASSUME NEW t \in Merger, mpc[t] \in Claiming, task[t].lo = u.idx
                 PROVE  FALSE
    BY DEF Rebuilt, Writing, Claiming
  <2>2. seg(task[t].lo).load_state = "full"
    BY <2>1, ClaimsAre DEF Inv, PoolInv, Claimed
  <2> QED
    BY <1>4, <2>1, <2>2
<1>7. g.version = LatestIn(files, g.start, g.end)
  BY <1>3, <1>6, NewestIs
<1>8. files' = files
  BY DEF Upgrade
<1> HIDE DEF g, new
<1>9. LET n == flushed_segments'[i] IN
      n.start = new.start /\ n.end = new.end /\ n.version = new.version
  BY <1>3 DEF Holds
<1> QED
  BY <1>5, <1>7, <1>8, <1>9 DEF ListedNewest

\* So is a merged one.
LEMMA MergedStep ==
    ASSUME Inv, Newest, NEW t \in Merger, MergeReplace(t), NEW i \in Linked', i \notin Linked
    PROVE  ListedNewest(i)
<1> DEFINE k == task[t]
           f == File(k.start, k.end, k.version, k.rows, k.mask)
           new == Loaded(seg(k.new), f, "full")
<1>1. Replaces(k.lo, k.hi, k.new, new) /\ Coming(k.new)
  BY MergeReplaces
<1>2. i = k.new /\ Holds(i, new) /\ k.new \in Idx
  BY <1>1 DEF Replaces
<1>3. new.start = k.start /\ new.end = k.end /\ new.version = k.version
  <2>1. /\ k.start \in AnySid /\ k.end \in AnySid /\ k.version \in Nat
        /\ k.rows \in SUBSET Row /\ k.mask \in SUBSET Row
    BY TaskFields DEF Inv, PoolInv
  <2>2. seg(k.new) \in SegmentType
    BY <1>2, PinnedFacts
  <2> HIDE DEF k
  <2>3. /\ f.start = k.start /\ f.end = k.end /\ f.version = k.version
        /\ f.rows = k.rows /\ f.mask = k.mask
    BY <2>1, FileIs
  <2> HIDE DEF f
  <2> QED
    BY <2>1, <2>2, <2>3, LoadedIs
<1>4. mpc[t] = "replace" /\ files' = files
  BY DEF MergeReplace, MergeAt
<1>5. k.version = LatestIn(files, k.start, k.end)
  BY <1>4, NewestIs DEF Writing
<1> HIDE DEF k, f, new
<1>6. LET n == flushed_segments'[i] IN
      n.start = new.start /\ n.end = new.end /\ n.version = new.version
  BY <1>2 DEF Holds
<1> QED
  BY <1>3, <1>4, <1>5, <1>6 DEF ListedNewest

\* So is what comes new into the list.
LEMMA AddedStep ==
    ASSUME Inv, Newest, Next, insert_idx <= insert_idx', NEW i \in Linked', i \notin Linked
    PROVE  ListedNewest(i)
<1>0. ~(Marks \/ Reserves \/ Fills \/ (\E j : Cleans(j)))
  BY LinkedStays
<1>1. CASE Reg
  <2>1. RegularRegister /\ Appends(ridx)
    BY <1>0, <1>1, RegKinds
  <2>2. i = ridx /\ Holds(i, seg(ridx))
    BY <2>1 DEF Appends
  <2>3. rpc = "register" /\ files' = files
    BY <2>1 DEF RegularRegister
  <2>4. /\ seg(ridx).start = rsid /\ seg(ridx).end = rsid
        /\ seg(ridx).version = LatestIn(files, rsid, rsid)
    BY <2>3, NewestIs DEF Inv, RowsInv, TasksInv
  <2>5. LET n == flushed_segments'[i] IN
        n.start = seg(ridx).start /\ n.end = seg(ridx).end /\ n.version = seg(ridx).version
    BY <2>2 DEF Holds
  <2> QED
    BY <2>3, <2>4, <2>5 DEF ListedNewest
<1>2. CASE Upg
  BY <1>2, UpgradedStep DEF Upg
<1>3. CASE Mrg
  <2>1. PICK t \in Merger : Merge(t)
    BY <1>3 DEF Mrg
  <2>2. MergeReplace(t)
    BY <1>0, <2>1, MrgKinds
  <2> QED
    BY <2>2, MergedStep
<1>4. CASE Sch
  BY <1>0, <1>4, SchKinds DEF Sch
<1>5. CASE Del
  <2>1. UNCHANGED poolVars
    BY <1>5, DelFrame
  <2> QED
    BY <2>1, LinkedSame
<1>6. CASE Vac
  BY <1>0, <1>6, VacKinds
<1> QED
  BY <1>1, <1>2, <1>3, <1>4, <1>5, <1>6, Parties

\* The slot that is loaded for registering is not touched.
LEMMA LoadingKept ==
    ASSUME Inv, Next, insert_idx <= insert_idx', NEW i, Loading(i),
           Loading(i)', ~RegularLoad
    PROVE  flushed_segments'[i].version = seg(i).version
<1>1. i \in Idx
  BY DEF Loading, Inv, PoolInv, Reserving
<1>2. Coming(i) /\ i \notin Linked /\ ~Used(i) /\ i < insert_idx
  BY <1>1, ComingFacts DEF Loading, Coming, Inv, PoolInv, Reserving
<1>3. CASE Marks
  BY <1>1, <1>2, <1>3 DEF Marks
<1>4. CASE Reserves
  <2>1. i # insert_idx
    BY <1>1, <1>2, <1>4, Constants DEF Reserves
  <2> QED
    BY <1>1, <1>4, <2>1, ReservesFacts
<1>5. CASE \E j : Cleans(j)
  BY <1>1, <1>2, <1>5, CleansFacts DEF Cleans
<1>6. CASE Swaps
  <2>1. PICK a, b, j, new : Replaces(a, b, j, new)
    BY <1>6 DEF Swaps
  <2>2. j \in Linked'
    BY <2>1 DEF Replaces
  <2>3. Used(j)'
    BY <2>2, NewUsed
  <2>4. i # j
    BY <2>3 DEF Used, Coming, Loading
  <2> QED
    BY <1>1, <1>2, <2>1, <2>4 DEF Replaces
<1>7. CASE Reg
  <2>1. UNCHANGED poolVars
    BY <1>7, RegKinds DEF Loading, RegularRegister
  <2> QED
    BY <2>1
<1>8. CASE Upg
  <2>1. PICK u \in upgrades : Upgrade(u)
    BY <1>8 DEF Upg
  <2>2. CASE ~Marks
    <3>1. Swaps
      BY <2>1, <2>2, SwapKinds
    <3> QED
      BY <1>6, <3>1
  <2> QED
    BY <1>3, <2>2
<1>9. CASE Mrg
  <2>1. PICK t \in Merger : Merge(t)
    BY <1>9 DEF Mrg
  <2>2. CASE MergeReplace(t)
    <3>1. Swaps
      BY <2>2, SwapKinds
    <3> QED
      BY <1>6, <3>1
  <2> QED
    BY <1>3, <1>4, <2>1, <2>2, MrgKinds
<1>10. CASE Sch
  BY <1>3, <1>5, <1>10, SchKinds DEF Sch
<1>11. CASE Del
  <2>1. UNCHANGED poolVars
    BY <1>11, DelFrame
  <2> QED
    BY <2>1
<1>12. CASE Vac
  BY <1>3, <1>5, <1>12, VacKinds
<1> QED
  BY <1>7, <1>8, <1>9, <1>10, <1>11, <1>12, Parties

\* What the load at the head of the worker's list registers is the newest file of
\* its segment at that moment.
LEMMA LoadingStep ==
    ASSUME Inv, Newest, Next, insert_idx <= insert_idx', rpc' = "register"
    PROVE  flushed_segments'[ridx'].version = LatestIn(files', rsid', rsid')
<1>0. PICK i : i = ridx'
  OBVIOUS
<1>1. Loading(i)' /\ rsid \in Nat
  BY <1>0, FilesAre DEF Loading
<1>2. CASE RegularLoad
  <2> DEFINE v == LatestVersion(rsid, rsid)
             f == Load(rsid, rsid, v)
  <2>1. /\ rpc = "load" /\ flushed_segments' = [flushed_segments EXCEPT ![ridx] = Loaded(@, f, "full")]
        /\ UNCHANGED <<files, rsid, ridx>>
    BY <1>2, Zenon DEF RegularLoad
  <2>2. TypeOK /\ FilesInv /\ ridx \in Idx /\ seg(ridx) \in SegmentType
        /\ flushed_segments \in [Idx -> SegmentType]
    BY <2>1 DEF Inv, PoolInv, RowsInv, Reserving, TypeOK
  <2>3. v \in Versions(rsid, rsid)
    BY <2>1, <2>2, LatestIs DEF FilesInv
  <2>4. /\ f \in FileType /\ f.version = v
    BY <2>2, <2>3, LoadIs DEF TypeOK
  <2>5. v = LatestIn(files, rsid, rsid)
    BY LatestInIs
  <2> HIDE DEF v, f
  <2>6. /\ f.start \in AnySid /\ f.end \in AnySid /\ f.version \in Nat
        /\ f.rows \subseteq Row /\ f.mask \subseteq Row
    BY <2>4 DEF FileType
  <2>7. Loaded(seg(ridx), f, "full").version = f.version
    BY <2>2, <2>6, LoadedIs
  <2>8. flushed_segments'[ridx] = Loaded(seg(ridx), f, "full")
    BY <2>1, <2>2
  <2> QED
    BY <2>1, <2>4, <2>5, <2>7, <2>8
<1>3. CASE ~RegularLoad
  <2>1. Loading(i)
    BY <1>1, <1>3, LoadingFrom
  <2>2. rpc = "register" /\ ridx = i
    BY <2>1 DEF Loading
  <2>3. rsid' = rsid
    <3>1. CASE Reg
      BY <2>2, <3>1 DEF Reg, FlushSegment, Regular, RegularFind, RegularReserve, RegularLoad,
         RegularRegister
    <3>2. CASE UNCHANGED regVars
      BY <3>2 DEF regVars
    <3> QED
      BY <3>1, <3>2, Frames
  <2>4. flushed_segments'[i].version = seg(i).version
    BY <1>1, <1>3, <2>1, LoadingKept
  <2>5. seg(i).version = LatestIn(files, rsid, rsid)
    BY <2>2, NewestIs
  <2>6. ~FlushSegment
    BY <2>2 DEF FlushSegment
  <2>7. ASSUME NEW t \in Merger, MergeWrite(t) PROVE rsid # task[t].end
    <3>1. mpc[t] \in Claiming
      BY <2>7, WriteTask DEF Claiming
    <3>2. task[t].hi \in Linked /\ task[t].end = seg(task[t].hi).end
      BY <3>1, ClaimedSids
    <3>3. seg(task[t].hi).end <= rsid - 1 /\ seg(task[t].hi).end \in Nat
      BY <2>2, <3>2, ListedSids, Constants
    <3> QED
      BY <1>1, <3>2, <3>3
  <2>8. LatestIn(files', rsid, rsid) = LatestIn(files, rsid, rsid)
    BY <2>6, <2>7, LatestStays
  <2> QED
    BY <1>0, <2>3, <2>4, <2>5, <2>8
<1> QED
  BY <1>2, <1>3

\* The pool follows the files.
LEMMA NewestStep ==
    ASSUME Inv, Newest, NoneGivesUp', Next, insert_idx <= insert_idx'
    PROVE  Newest'
<1>1. \A i \in Linked' : ListedNewest(i)
  BY ListedStep, AddedStep
<1>2. \A t \in Merger : WritesNewest(t)
  BY WritesStep
<1> QED
  BY <1>1, <1>2, LoadingStep, NewestAfter

\* Without mmapped segments nothing takes a segment from under the mutex.
LEMMA StaysStep ==
    ASSUME Inv, Locked, StaysListed, Next, insert_idx <= insert_idx'
    PROVE  StaysListed'
<1>1. upgrades = {} /\ upgrades' = {}
  <2>1. ~Upg
    BY DEF StaysListed, Upg
  <2> QED
    BY <2>1, Frames DEF StaysListed
<1>2. ASSUME vpc' = "apply", ~retry' PROVE vidx' \in Linked'
  <2>1. CASE vpc = "apply"
    <3>1. vidx' = vidx /\ retry' = retry
      <4>1. CASE Vac
        BY <1>2, <2>1, <4>1 DEF Vac, VacuumBegin, Vacuum, VacuumSegment, UpdateFind, UpdateLock,
           UpdateCheck, UpdateApply, UpdateMask, UpdateDrop, UpdateDropCheck, VacuumAnswer, VacuumEnd,
           VacuumAt
      <4>2. CASE UNCHANGED vacVars
        BY <4>2 DEF vacVars
      <4> QED
        BY <4>1, <4>2, Frames
    <3>2. vidx \in Linked
      BY <1>2, <2>1, <3>1 DEF StaysListed
    <3>3. ASSUME NEW t \in Merger, MergeReplace(t), vidx \in {task[t].lo, task[t].hi}
          PROVE  FALSE
      <4>1. mpc[t] \in Holding
        BY <3>3, EndTask DEF Holding, Writing
      <4>2. seg(vidx).mutex = t /\ seg(vidx).mutex = "vacuum"
        BY <2>1, <3>3, <4>1, Zenon DEF Locked
      <4> QED
        BY <4>2, ThreadAssumption
    <3> QED
      BY <1>1, <3>1, <3>2, <3>3, Leaves
  <2>2. CASE vpc # "apply"
    <3>1. Vac
      BY <1>2, <2>2, Frames DEF vacVars
    <3>2. UpdateLock
      BY <1>2, <2>2, <3>1 DEF Vac, VacuumBegin, Vacuum, VacuumSegment, UpdateFind, UpdateLock,
         UpdateCheck, UpdateApply, UpdateMask, UpdateDrop, UpdateDropCheck, VacuumAnswer, VacuumEnd,
         VacuumAt
    <3>3. /\ vpc = "lock" /\ vidx' = vidx /\ ~retry'
          /\ retry' = \/ seg(vidx).version # Current.version
                       \/ ~seg(vidx).in_used
                       \/ FindBySids(Current.start, Current.end) # vidx
      BY <1>2, <3>2, Zenon DEF UpdateLock, UpdateCheck, VacuumAt
    <3>4. FindBySids(Current.start, Current.end) = vidx
      BY <3>3
    <3>5. vidx \in Idx
      BY <3>3, PinnedFacts
    <3>6. vidx \in Linked
      BY <3>4, <3>5, FindIs, Constants
    <3>7. ~\E t \in Merger : MergeReplace(t)
      BY <2>2, <1>2, MrgFrame DEF Merge, Compact, vacVars
    <3> QED
      BY <1>1, <3>3, <3>6, <3>7, Leaves
  <2> QED
    BY <2>1, <2>2
<1> QED
  BY <1>1, <1>2 DEF StaysListed

-----------------------------------------------------------------------------
(* Every step, and what follows.                                           *)

\* A step that leaves the variables alone leaves these invariants alone.
LEMMA VersionStutter ==
    ASSUME VersionInv, UNCHANGED vars
    PROVE  VersionInv' /\ (StaysListed => StaysListed')
<1>1. /\ UNCHANGED poolVars /\ UNCHANGED <<files, upgrades>> /\ UNCHANGED regVars
      /\ UNCHANGED mergeVars /\ UNCHANGED vacVars
  BY DEF vars
<1>2. Linked' = Linked
  BY <1>1, LinkedSame
<1>3. /\ flushed_segments' = flushed_segments /\ files' = files /\ upgrades' = upgrades
      /\ rpc' = rpc /\ rsid' = rsid /\ ridx' = ridx /\ mpc' = mpc /\ task' = task
      /\ vpc' = vpc /\ vidx' = vidx /\ retry' = retry
  BY <1>1
<1>4. Locked'
  BY <1>2, <1>3, Zenon DEF VersionInv, Locked, seg
<1>5. Newest'
  <2>1. ASSUME NEW i \in Linked' PROVE ListedNewest(i)
    <3>1. seg(i).version = LatestIn(files, seg(i).start, seg(i).end) \/ Rebuilt(i)
      BY <1>2, NewestIs, Zenon DEF VersionInv
    <3>2. Rebuilt(i) => Rebuilt(i)'
      BY <1>3, Zenon DEF Rebuilt
    <3> QED
      BY <1>3, <3>1, <3>2, Zenon DEF ListedNewest, seg
  <2>2. ASSUME NEW t \in Merger PROVE WritesNewest(t)
    BY <1>3, NewestIs, Zenon DEF VersionInv, WritesNewest
  <2>3. rpc' = "register" =>
          flushed_segments'[ridx'].version = LatestIn(files', rsid', rsid')
    BY <1>3, NewestIs, Zenon DEF VersionInv, seg
  <2> QED
    BY <2>1, <2>2, <2>3, NewestAfter
<1>6. NoneGivesUp'
  BY <1>3, Zenon DEF VersionInv, NoneGivesUp
<1>7. StaysListed => StaysListed'
  BY <1>2, <1>3, Zenon DEF StaysListed
<1> QED
  BY <1>4, <1>5, <1>6, <1>7 DEF VersionInv

\* In the beginning nobody has a mutex, and every segment has version 1.
LEMMA InitVersion ==
    ASSUME Init
    PROVE  VersionInv
<1>1. \A t \in Merger : mpc[t] = "idle"
  BY InitVars
<1>2. Locked
  BY <1>1, InitVars DEF Locked, Holding, Writing
<1>3. ASSUME NEW i \in Linked
      PROVE  seg(i).version = LatestVersion(seg(i).start, seg(i).end)
  <2>1. i \in 0 .. InitialSid - 1 /\ i + 1 \in 1 .. InitialSid
    BY InitList, Constants
  <2>2. seg(i).start = i + 1 /\ seg(i).end = i + 1 /\ seg(i).version = 1
    BY <2>1, InitSlots DEF First
  <2>3. \E f \in files : f.start = i + 1 /\ f.end = i + 1 /\ f.version = 1
    BY <2>1, InitFiles
  <2>4. ASSUME NEW v \in VersionsIn(files, i + 1, i + 1)
        PROVE  v = 1
    <3>1. \E f \in files : f.start = i + 1 /\ f.end = i + 1 /\ f.version = v
      BY <2>4 DEF VersionsIn
    <3> QED
      BY <3>1, InitFiles
  <2>5. 1 \in VersionsIn(files, i + 1, i + 1)
    BY <2>3, VersionsInIs
  <2>6. LatestIn(files, i + 1, i + 1) = 1
    BY <2>4, <2>5, LatestMax
  <2> QED
    BY <2>2, <2>6, LatestInIs
<1>4. Newest
  BY <1>1, <1>3, InitVars DEF Newest, Writing
<1>5. NoneGivesUp
  BY <1>1 DEF NoneGivesUp
<1> QED
  BY <1>2, <1>4, <1>5 DEF VersionInv

\* Where no merge gives up, and unless a cleanup rewinds insert_idx, a mutex is
\* its owner's and the pool has the latest version of every segment, or a
\* merge thread has just written the next and is about to put it in: what
\* get_next_segment_version makes of the files is of use to nobody else.
THEOREM VersionInvariant == Spec /\ NoRewind /\ NoGiveUp => []VersionInv
<1> DEFINE I == Inv /\ VersionInv
<1>1. Init => I
  BY InitInv, InitVersion
<1>2. I /\ [Next]_vars /\ [insert_idx <= insert_idx']_vars
        /\ [\A t \in Merger : mpc'[t] # "giveup"]_vars => I'
  <2>1. CASE UNCHANGED vars
    BY <2>1, Stutter, VersionStutter
  <2>2. CASE ~UNCHANGED vars
    <3> SUFFICES ASSUME Inv, VersionInv, Next, insert_idx <= insert_idx',
                        \A t \in Merger : mpc'[t] # "giveup"
                 PROVE  Inv' /\ VersionInv'
      BY <2>2
    <3>1. Inv'
      BY InvStep
    <3>2. NoneGivesUp'
      BY DEF NoneGivesUp
    <3>3. Locked' /\ Newest'
      BY <3>1, <3>2, LockedStep, NewestStep DEF VersionInv
    <3> QED
      BY <3>1, <3>2, <3>3 DEF VersionInv
  <2> QED
    BY <2>1, <2>2
<1>3. I => VersionInv
  OBVIOUS
<1> HIDE DEF I
<1> QED
  BY <1>1, <1>2, <1>3, PTL DEF Spec, NoRewind, NoGiveUp

\* What the invariant says where a slot's files are read and written.
LEMMA AgreesBy ==
    ASSUME Inv, VersionInv, StaysListed
    PROVE  VersionsAgree
<1>0. Locked /\ Newest
  BY DEF VersionInv
<1>1. ASSUME vpc = "apply", ~retry
      PROVE  seg(vidx).version = LatestVersion(seg(vidx).start, seg(vidx).end)
  <2>1. vidx \in Linked
    BY <1>1 DEF StaysListed
  <2>2. ~Rebuilt(vidx)
    <3> SUFFICES ASSUME NEW t \in Merger, mpc[t] \in Writing, task[t].lo = vidx
                 PROVE  FALSE
      BY DEF Rebuilt
    <3>1. mpc[t] \in Holding
      BY DEF Holding
    <3>2. seg(vidx).mutex = t /\ seg(vidx).mutex = "vacuum"
      BY <1>0, <1>1, <3>1, Zenon DEF Locked
    <3> QED
      BY <3>2, ThreadAssumption
  <2> QED
    BY <1>0, <2>1, <2>2 DEF Newest
<1>2. ASSUME NEW t \in Merger, mpc[t] \in {"load", "lock", "lock2", "reload", "write"},
             NEW i \in {task[t].lo, task[t].hi}
      PROVE  seg(i).version = LatestVersion(seg(i).start, seg(i).end)
  <2>1. mpc[t] \in Claiming
    BY <1>2 DEF Claiming
  <2>2. Claims
    BY DEF Inv, PoolInv
  <2>3. i \in Linked
    BY <2>1, <2>2, Zenon DEF Claims
  <2>4. ~Rebuilt(i)
    <3> SUFFICES ASSUME NEW u \in Merger, mpc[u] \in Writing, task[u].lo = i
                 PROVE  FALSE
      BY DEF Rebuilt
    <3>1. u # t /\ mpc[u] \in Claiming
      BY <1>2 DEF Writing, Claiming
    <3>2. {task[u].lo, task[u].hi} \cap {task[t].lo, task[t].hi} = {}
      BY <2>1, <2>2, <3>1, Zenon DEF Claims
    <3> QED
      BY <3>2
  <2> QED
    BY <1>0, <2>3, <2>4 DEF Newest
<1> QED
  BY <1>1, <1>2 DEF VersionsAgree

\* A merge thread reads, and SEGMENT_UPDATE_VACUUM overwrites, the bitmap of
\* the version that the slot holds: the files of a slot are those of its
\* version, in whatever order merges, VACUUMs and flushes take the mutexes.
\* The mmap upgrade takes none, so there is no segment left to upgrade.
THEOREM VersionsStay ==
    ASSUME ~ColdStart
    PROVE  Spec /\ NoRewind /\ NoGiveUp => []VersionsAgree
<1> DEFINE I == Inv /\ VersionInv /\ StaysListed
<1>1. Init => I
  <2> SUFFICES ASSUME Init PROVE I
    OBVIOUS
  <2>1. upgrades = {}
    BY Zenon DEF Init
  <2>2. vpc # "apply"
    BY InitVars
  <2>3. StaysListed
    BY <2>1, <2>2 DEF StaysListed
  <2> QED
    BY <2>3, InitInv, InitVersion
<1>2. I /\ [Next]_vars /\ [insert_idx <= insert_idx']_vars
        /\ [\A t \in Merger : mpc'[t] # "giveup"]_vars => I'
  <2>1. CASE UNCHANGED vars
    BY <2>1, Stutter, VersionStutter
  <2>2. CASE ~UNCHANGED vars
    <3> SUFFICES ASSUME Inv, VersionInv, StaysListed, Next, insert_idx <= insert_idx',
                        \A t \in Merger : mpc'[t] # "giveup"
                 PROVE  Inv' /\ VersionInv' /\ StaysListed'
      BY <2>2
    <3>1. Inv'
      BY InvStep
    <3>2. NoneGivesUp'
      BY DEF NoneGivesUp
    <3>3. Locked' /\ Newest'
      BY <3>1, <3>2, LockedStep, NewestStep DEF VersionInv
    <3>4. StaysListed'
      BY StaysStep DEF VersionInv
    <3> QED
      BY <3>1, <3>2, <3>3, <3>4 DEF VersionInv
  <2> QED
    BY <2>1, <2>2
<1>3. I => VersionsAgree
  BY AgreesBy
<1> HIDE DEF I
<1> QED
  BY <1>1, <1>2, <1>3, PTL DEF Spec, NoRewind, NoGiveUp

-----------------------------------------------------------------------------
(* What a restart would find.  The files that a scan takes are those of the *)
(* segments of the list, or of what merge threads have written to take the *)
(* place of some of them.                                                  *)

\* No merge thread has written what takes the place of the segment in slot i.
Open(i) == \A t \in Merger : mpc[t] \in Writing => i \notin {task[t].lo, task[t].hi}

\* s-e is such a segment.
Top(s, e) ==
    \/ \E i \in Linked : Open(i) /\ s = seg(i).start /\ e = seg(i).end
    \/ \E t \in Merger : mpc[t] \in Writing /\ s = task[t].start /\ e = task[t].end

\* The sids of what a merge thread has claimed.
LEMMA ClaimWithin ==
    ASSUME Inv, NEW t \in Merger, mpc[t] \in Claiming
    PROVE  /\ \A i \in {task[t].lo, task[t].hi} :
                i \in Linked /\ task[t].start <= seg(i).start /\ seg(i).end <= task[t].end
           /\ \A x \in task[t].start .. task[t].end :
                \E i \in {task[t].lo, task[t].hi} : x \in seg(i).start .. seg(i).end
<1> DEFINE a == task[t].lo
           b == task[t].hi
<1>1. /\ a \in Linked /\ b \in Linked
      /\ task[t].start = seg(a).start /\ task[t].end = seg(b).end
      /\ a # b => seg(b).start = seg(a).end + 1
  BY ClaimedSids
<1>2. /\ seg(a).start \in Nat /\ seg(a).end \in Nat /\ seg(a).start <= seg(a).end
      /\ seg(b).start \in Nat /\ seg(b).end \in Nat /\ seg(b).start <= seg(b).end
  BY <1>1, ListedSids, Constants
<1> HIDE DEF a, b
<1>3. CASE a = b
  BY <1>1, <1>2, <1>3 DEF a, b
<1>4. CASE a # b
  <2>1. /\ task[t].start <= seg(a).start /\ seg(a).end <= task[t].end
        /\ task[t].start <= seg(b).start /\ seg(b).end <= task[t].end
    BY <1>1, <1>2, <1>4
  <2>2. ASSUME NEW x \in task[t].start .. task[t].end
        PROVE  x \in seg(a).start .. seg(a).end \/ x \in seg(b).start .. seg(b).end
    BY <1>1, <1>2, <1>4
  <2> QED
    BY <1>1, <2>1, <2>2 DEF a, b
<1> QED
  BY <1>3, <1>4

\* Who is about to put a segment in has claimed what it replaces.
LEMMA WritingClaims == Writing \subseteq Claiming
  BY DEF Writing, Claiming

\* A segment of the list is in a top.
LEMMA SlotInTop ==
    ASSUME Inv, NEW i \in Linked
    PROVE  \E s, e : Top(s, e) /\ s <= seg(i).start /\ seg(i).end <= e
<1>1. CASE Open(i)
  <2>1. seg(i).start <= seg(i).start /\ seg(i).end <= seg(i).end
    BY ListedSids, Constants
  <2> QED
    BY <1>1, <2>1, Zenon DEF Top
<1>2. CASE ~Open(i)
  <2>1. PICK t \in Merger : mpc[t] \in Writing /\ i \in {task[t].lo, task[t].hi}
    BY <1>2 DEF Open
  <2>2. task[t].start <= seg(i).start /\ seg(i).end <= task[t].end
    BY <2>1, ClaimWithin, WritingClaims
  <2> QED
    BY <2>1, <2>2, Zenon DEF Top
<1> QED
  BY <1>1, <1>2

\* s-e is what has the place of slot i.
TopAt(s, e, i) ==
    \/ Open(i) /\ s = seg(i).start /\ e = seg(i).end
    \/ \E t \in Merger : /\ mpc[t] \in Writing /\ i \in {task[t].lo, task[t].hi}
                         /\ s = task[t].start /\ e = task[t].end

\* What a top is made of.
LEMMA TopSlot ==
    ASSUME Inv, NEW s, NEW e, Top(s, e), NEW x \in s .. e
    PROVE  \E i \in Linked : x \in seg(i).start .. seg(i).end /\ TopAt(s, e, i)
<1>1. CASE \E i \in Linked : Open(i) /\ s = seg(i).start /\ e = seg(i).end
  BY <1>1 DEF TopAt
<1>2. CASE \E t \in Merger : mpc[t] \in Writing /\ s = task[t].start /\ e = task[t].end
  <2>1. PICK t \in Merger : mpc[t] \in Writing /\ s = task[t].start /\ e = task[t].end
    BY <1>2
  <2>2. mpc[t] \in Claiming
    BY <2>1, WritingClaims
  <2>3. PICK i \in {task[t].lo, task[t].hi} : x \in seg(i).start .. seg(i).end
    BY <2>1, <2>2, ClaimWithin
  <2>4. i \in Linked
    BY <2>2, <2>3, ClaimWithin
  <2> QED
    BY <2>1, <2>3, <2>4 DEF TopAt
<1> QED
  BY <1>1, <1>2 DEF Top

\* Tops are disjoint.
LEMMA TopsApart ==
    ASSUME Inv, NEW s, NEW e, Top(s, e), NEW s2, NEW e2, Top(s2, e2),
           NEW x \in s .. e, x \in s2 .. e2
    PROVE  s = s2 /\ e = e2
<1>1. PICK i \in Linked : x \in seg(i).start .. seg(i).end /\ TopAt(s, e, i)
  BY TopSlot
<1>2. PICK j \in Linked : x \in seg(j).start .. seg(j).end /\ TopAt(s2, e2, j)
  BY TopSlot
<1>3. i = j
  <2>1. x \in Nat /\ seg(i).start \in Nat /\ seg(j).start \in Nat
    BY <1>1, ListedSids, Constants
  <2> QED
    BY <1>1, <1>2, <2>1, ListedApart
<1>4. ASSUME NEW t \in Merger, mpc[t] \in Writing, i \in {task[t].lo, task[t].hi},
             NEW u \in Merger, mpc[u] \in Writing, i \in {task[u].lo, task[u].hi}
      PROVE  t = u
  <2>1. mpc[t] \in Claiming /\ mpc[u] \in Claiming
    BY <1>4, WritingClaims
  <2>2. u # t => Disjoint(t, u)
    BY <2>1, ClaimsAre DEF Inv, PoolInv
  <2> QED
    BY <1>4, <2>2 DEF Disjoint
<1> QED
  BY <1>1, <1>2, <1>3, <1>4, Zenon DEF Open, TopAt

\* A top's sids, and its latest files.
LEMMA TopFiled ==
    ASSUME Inv, NEW s, NEW e, Top(s, e)
    PROVE  /\ s \in Sid /\ e \in Sid /\ s <= e /\ s .. e \subseteq registered
           /\ \E f \in files : f.start = s /\ f.end = e /\ f.version = LatestVersion(s, e)
<1>0. TypeOK /\ FilesInv /\ TasksInv
  BY DEF Inv, PoolInv, RowsInv
<1>1. s \in Sid /\ e \in Sid /\ s <= e /\ \E v, rows : Filed(s, e, v, rows)
  <2>1. CASE \E i \in Linked : Open(i) /\ s = seg(i).start /\ e = seg(i).end
    BY <2>1, ListedSids
  <2>2. CASE \E t \in Merger : mpc[t] \in Writing /\ s = task[t].start /\ e = task[t].end
    <3>1. PICK t \in Merger : mpc[t] \in Writing /\ s = task[t].start /\ e = task[t].end
      BY <2>2
    <3>2. s \in Sid /\ e \in Sid /\ s <= e
      BY <3>1, WritingClaims, ClaimedSids
    <3>3. Filed(task[t].start, task[t].end, task[t].version, task[t].rows)
      BY <1>0, <3>1, Zenon DEF TasksInv, Writing
    <3> QED
      BY <3>1, <3>2, <3>3
  <2> QED
    BY <2>1, <2>2 DEF Top
<1>2. PICK v, rows : Filed(s, e, v, rows)
  BY <1>1
<1>3. LatestVersion(s, e) \in Versions(s, e)
  BY <1>0, <1>2, FiledIs
<1>4. ASSUME NEW x \in s .. e PROVE x \in registered
  <2>1. PICK i \in Linked : x \in seg(i).start .. seg(i).end
    BY TopSlot
  <2>2. UNION {seg(j).start .. seg(j).end : j \in Linked} = registered
    BY DEF Inv, PoolInv, ListInv
  <2> QED
    BY <2>1, <2>2
<1> QED
  BY <1>0, <1>1, <1>3, <1>4, VersionFacts

\* The sids of a file.
LEMMA FileSids ==
    ASSUME Inv, NEW f \in files
    PROVE  /\ f.start \in Nat /\ f.end \in Nat /\ f.start <= f.end /\ f.end <= rsid
           /\ rsid \in Nat /\ f.version \in Nat /\ f \in FileType
           /\ f.version <= LatestVersion(f.start, f.end)
           /\ f.version \in Versions(f.start, f.end)
           /\ Load(f.start, f.end, f.version) = f
           /\ f.rows \subseteq Row /\ f.mask \subseteq Row
<1>0. TypeOK /\ FilesInv
  BY DEF Inv, PoolInv, RowsInv
<1>1. f.start \in Sid /\ f.end \in Sid /\ f.start <= f.end /\ f.end <= rsid
  BY <1>0 DEF FilesInv
<1>2. f.version \in Versions(f.start, f.end)
  BY <1>0, VersionFacts
<1>3. f.version <= LatestVersion(f.start, f.end)
  BY <1>0, <1>2, LatestIs
<1>4. Load(f.start, f.end, f.version) = f
  BY <1>0, <1>2, LoadIs DEF FilesInv
<1>5. f \in FileType /\ rsid \in Nat
  BY <1>0, Constants DEF TypeOK
<1>6. f.version \in Nat /\ f.rows \subseteq Row /\ f.mask \subseteq Row
  BY <1>5 DEF FileType
<1> QED
  BY <1>1, <1>2, <1>3, <1>4, <1>5, <1>6, Constants

\* A file with a registered sid is in a top.
LEMMA FileInTop ==
    ASSUME Inv, Nested, NEW f \in files, NEW x \in registered, x \in f.start .. f.end
    PROVE  \E s, e : Top(s, e) /\ s <= f.start /\ f.end <= e
<1>0. /\ f.start \in Nat /\ f.end \in Nat /\ f.start <= f.end /\ f.end <= rsid /\ rsid \in Nat
  BY FileSids
<1>1. CASE \E i \in Linked : Within(f, seg(i).start, seg(i).end)
  <2>1. PICK i \in Linked : Within(f, seg(i).start, seg(i).end)
    BY <1>1
  <2>2. PICK s, e : Top(s, e) /\ s <= seg(i).start /\ seg(i).end <= e
    BY SlotInTop
  <2>3. s \in Nat /\ e \in Nat /\ seg(i).start \in Nat /\ seg(i).end \in Nat
    BY <2>2, TopFiled, ListedSids, Constants
  <2>4. s <= f.start /\ f.end <= e
    BY <1>0, <2>1, <2>2, <2>3 DEF Within
  <2> QED
    BY <2>2, <2>4
<1>2. CASE \E t \in Merger : mpc[t] \in Writing /\ Within(f, task[t].start, task[t].end)
  BY <1>2, Zenon DEF Within, Top
<1>3. CASE f.start = rsid /\ rsid \notin registered
  BY <1>0, <1>3
<1> QED
  BY <1>1, <1>2, <1>3, Zenon DEF Nested

\* A scan takes the latest files of a top.
LEMMA TopScanned ==
    ASSUME Inv, Nested, NEW s, NEW e, Top(s, e), NEW f \in files,
           f.start = s, f.end = e, f.version = LatestVersion(s, e)
    PROVE  Scanned(f)
<1>1. ASSUME NEW h \in files, h.start <= f.start, f.end <= h.end
      PROVE  h.start = f.start /\ h.end = f.end /\ h.version <= f.version
  <2>0. /\ s \in Nat /\ e \in Nat /\ s <= e /\ s \in registered
        /\ h.start \in Nat /\ h.end \in Nat
    BY TopFiled, FileSids, Constants
  <2>1. s \in h.start .. h.end
    BY <1>1, <2>0
  <2>2. PICK s2, e2 : Top(s2, e2) /\ s2 <= h.start /\ h.end <= e2
    BY <2>0, <2>1, FileInTop
  <2>3. s2 \in Nat /\ e2 \in Nat
    BY <2>2, TopFiled, Constants
  <2>4. s \in s .. e /\ s \in s2 .. e2
    BY <1>1, <2>0, <2>2, <2>3
  <2>5. s = s2 /\ e = e2
    BY <2>2, <2>4, TopsApart
  <2>6. h.start = s /\ h.end = e
    BY <1>1, <2>0, <2>2, <2>3, <2>5
  <2>7. h.version <= LatestVersion(s, e)
    BY <2>6, FileSids
  <2> QED
    BY <2>6, <2>7
<1> QED
  BY <1>1 DEF Scanned

\* And nothing else that has a registered sid.
LEMMA ScannedTop ==
    ASSUME Inv, Nested, NEW f, Scanned(f), NEW x \in registered, x \in f.start .. f.end
    PROVE  Top(f.start, f.end) /\ f.version = LatestVersion(f.start, f.end)
<1>0. f \in files
  BY DEF Scanned
<1>1. PICK s, e : Top(s, e) /\ s <= f.start /\ f.end <= e
  BY <1>0, FileInTop
<1>2. PICK h \in files : h.start = s /\ h.end = e /\ h.version = LatestVersion(s, e)
  BY <1>1, TopFiled
<1>3. h.start = f.start /\ h.end = f.end /\ h.version <= f.version
  BY <1>1, <1>2 DEF Scanned
<1>4. f.version <= LatestVersion(f.start, f.end) /\ f.version \in Nat /\ h.version \in Nat
  BY <1>0, FileSids
<1>5. s = f.start /\ e = f.end
  BY <1>2, <1>3
<1> QED
  BY <1>1, <1>2, <1>3, <1>4, <1>5

\* It takes one file for each registered sid.
LEMMA ScannedOnce ==
    ASSUME Inv, Nested, NEW f, Scanned(f), NEW g, Scanned(g), NEW x \in registered,
           x \in f.start .. f.end, x \in g.start .. g.end
    PROVE  f = g
<1>1. /\ Top(f.start, f.end) /\ f.version = LatestVersion(f.start, f.end)
      /\ Top(g.start, g.end) /\ g.version = LatestVersion(g.start, g.end)
  BY ScannedTop
<1>2. f.start = g.start /\ f.end = g.end
  BY <1>1, TopsApart
<1>3. f.version = g.version
  BY <1>1, <1>2
<1>4. f \in files /\ g \in files
  BY DEF Scanned
<1> QED
  BY <1>2, <1>3, <1>4, FileSids

\* A scan has a file for every registered sid.
LEMMA ScannedCovers ==
    ASSUME Inv, Nested, NEW x \in registered
    PROVE  \E f : Scanned(f) /\ x \in f.start .. f.end
<1>1. PICK i \in Linked : x \in seg(i).start .. seg(i).end
  BY ListedRow
<1>2. PICK s, e : Top(s, e) /\ s <= seg(i).start /\ seg(i).end <= e
  BY SlotInTop
<1>3. PICK f \in files : f.start = s /\ f.end = e /\ f.version = LatestVersion(s, e)
  BY <1>2, TopFiled
<1>4. Scanned(f)
  BY <1>2, <1>3, TopScanned
<1>5. s \in Nat /\ e \in Nat /\ seg(i).start \in Nat /\ seg(i).end \in Nat
  BY <1>2, TopFiled, ListedSids, Constants
<1>6. x \in s .. e
  BY <1>1, <1>2, <1>5
<1> QED
  BY <1>3, <1>4, <1>6

\* scan_segment_metadata_files.
LEMMA ScannedIs ==
    ASSUME Inv, NEW g
    PROVE  g \in ScanFiles <=>
             \E f : Scanned(f) /\ g = [start |-> f.start, end |-> f.end, version |-> f.version]
<1>0. TypeOK /\ FilesInv
  BY DEF Inv, PoolInv, RowsInv
<1> DEFINE Widest(f) == \A h \in files : h.start <= f.start /\ f.end <= h.end =>
                             h.start = f.start /\ h.end = f.end
<1>1. g \in ScanFiles <=>
        \E f \in files : /\ f.version = LatestVersion(f.start, f.end) /\ Widest(f)
                         /\ g = [start |-> f.start, end |-> f.end, version |-> f.version]
  BY DEF ScanFiles
<1>2. ASSUME NEW f \in files
      PROVE  Scanned(f) <=> f.version = LatestVersion(f.start, f.end) /\ Widest(f)
  <2>0. /\ f.start \in Nat /\ f.end \in Nat /\ f.version \in Nat
        /\ f.version <= LatestVersion(f.start, f.end)
        /\ f.version \in Versions(f.start, f.end)
    BY FileSids
  <2>1. ASSUME Scanned(f) PROVE f.version = LatestVersion(f.start, f.end) /\ Widest(f)
    <3>1. LatestVersion(f.start, f.end) \in Versions(f.start, f.end)
      BY <1>0, <2>0, LatestIs
    <3>2. PICK h \in files : /\ h.start = f.start /\ h.end = f.end
                             /\ h.version = LatestVersion(f.start, f.end)
      BY <1>0, <3>1, VersionFacts
    <3>3. h.version <= f.version
      BY <2>0, <2>1, <3>2 DEF Scanned
    <3>4. h.version \in Nat
      BY FileSids
    <3> QED
      BY <2>0, <2>1, <3>2, <3>3, <3>4 DEF Scanned
  <2>2. ASSUME f.version = LatestVersion(f.start, f.end), Widest(f) PROVE Scanned(f)
    <3>1. ASSUME NEW h \in files, h.start <= f.start, f.end <= h.end
          PROVE  h.start = f.start /\ h.end = f.end /\ h.version <= f.version
      <4>1. h.start = f.start /\ h.end = f.end
        BY <2>2, <3>1
      <4>2. h.version <= LatestVersion(h.start, h.end)
        BY FileSids
      <4> QED
        BY <2>2, <4>1, <4>2
    <3> QED
      BY <3>1 DEF Scanned
  <2> QED
    BY <2>1, <2>2
<1>3. \A f : Scanned(f) => f \in files
  BY DEF Scanned
<1> HIDE DEF Widest
<1> QED
  BY <1>1, <1>2, <1>3, Zenon

\* One file of each name.
LEMMA NamedOnce ==
    ASSUME Inv, NEW g, NEW f \in files, NEW f2 \in files, Named(f, g), Named(f2, g)
    PROVE  f = f2
<1>1. f.start = f2.start /\ f.end = f2.end /\ f.version = f2.version
  BY DEF Named
<1>2. FilesInv
  BY DEF Inv, RowsInv
<1> QED
  BY <1>1, <1>2, Zenon DEF FilesInv

\* What a file offers.
LEMMA ShowsIs ==
    ASSUME Inv, NEW g, NEW f \in files, Named(f, g), NEW r
    PROVE  (Shows(g, r) <=> r \in f.rows \ f.mask) /\ (Has(g, r) <=> r \in f.rows)
  BY NamedOnce DEF Shows, Has

\* Where nothing offers what VACUUM has given back, a restart does not either,
\* and it finds what has not been deleted.
LEMMA RestartBy ==
    ASSUME Inv, Nested, Contents, \A r \in gone : Clean(r)
    PROVE  RestartSound
<1> DEFINE Offers(r) == \E f \in ScanFiles :
                           LET g == Load(f.start, f.end, f.version)
                           IN r \in g.rows \ g.mask
<1>1. ASSUME NEW r
      PROVE  Offers(r) <=> \E f : Scanned(f) /\ r \in f.rows \ f.mask
  <2>1. ASSUME NEW f, Scanned(f)
        PROVE  /\ [start |-> f.start, end |-> f.end, version |-> f.version] \in ScanFiles
               /\ Load(f.start, f.end, f.version) = f
    <3>1. f \in files
      BY <2>1 DEF Scanned
    <3> QED
      BY <2>1, <3>1, ScannedIs, FileSids
  <2>2. ASSUME Offers(r) PROVE \E f : Scanned(f) /\ r \in f.rows \ f.mask
    <3>1. PICK g \in ScanFiles : LET h == Load(g.start, g.end, g.version)
                                 IN r \in h.rows \ h.mask
      BY <2>2
    <3>2. PICK f : Scanned(f) /\ g = [start |-> f.start, end |-> f.end, version |-> f.version]
      BY <3>1, ScannedIs
    <3>3. g.start = f.start /\ g.end = f.end /\ g.version = f.version
      BY <3>2
    <3> QED
      BY <2>1, <3>1, <3>2, <3>3
  <2>3. ASSUME NEW f, Scanned(f), r \in f.rows \ f.mask PROVE Offers(r)
    BY <2>1, <2>3
  <2> QED
    BY <2>2, <2>3
<1>2. ASSUME NEW r \in RowsOf(registered) \ dead PROVE Offers(r)
  <2>1. r \in Row /\ r[1] \in registered
    BY DEF RowsOf
  <2>2. PICK f : Scanned(f) /\ r[1] \in f.start .. f.end
    BY <2>1, ScannedCovers
  <2>3. f \in files
    BY <2>2 DEF Scanned
  <2>4. RowsOf(f.start .. f.end) \ dead \subseteq f.rows /\ f.mask \subseteq dead
    BY <2>3 DEF Inv, RowsInv, FilesInv
  <2>5. r \in f.rows \ f.mask
    BY <2>1, <2>2, <2>4 DEF RowsOf
  <2> HIDE DEF Offers
  <2> QED
    BY <1>1, <2>2, <2>5
<1>3. ASSUME NEW r \in gone PROVE ~Offers(r)
  <2>1. \A f : Scanned(f) => r \notin f.rows \ f.mask
    BY DEF Clean, Scanned
  <2> HIDE DEF Offers
  <2> QED
    BY <1>1, <2>1
<1> QED
  BY <1>2, <1>3, Zenon DEF RestartSound

\* No merge thread has written what takes the place of a segment that another
\* has claimed, or that it has claimed itself and not written yet.
LEMMA ClaimOpen ==
    ASSUME Inv, NEW t \in Merger, mpc[t] \in Claiming \ Writing, NEW i \in {task[t].lo, task[t].hi}
    PROVE  i \in Linked /\ Open(i)
<1>1. i \in Linked
  BY ClaimedSids
<1>2. ASSUME NEW u \in Merger, mpc[u] \in Writing, i \in {task[u].lo, task[u].hi}
      PROVE  FALSE
  <2>1. mpc[u] \in Claiming /\ u # t
    BY <1>2, WritingClaims
  <2>2. Disjoint(t, u)
    BY <2>1, ClaimsAre DEF Inv, PoolInv
  <2> QED
    BY <1>2, <2>2 DEF Disjoint
<1> QED
  BY <1>1, <1>2 DEF Open

\* A scan takes the files of such a segment, which are there.
LEMMA OpenScanned ==
    ASSUME Inv, Newest, Nested, NEW i \in Linked, Open(i)
    PROVE  /\ \E f \in files : Named(f, Name(i))
           /\ \A f \in files : Named(f, Name(i)) => Scanned(f)
<1>0. /\ Name(i).start = seg(i).start /\ Name(i).end = seg(i).end
      /\ Name(i).version = seg(i).version
  BY DEF Name
<1>1. \E f \in files : Named(f, Name(i))
  BY <1>0, ListedSids DEF Filed, Named
<1>2. ~Rebuilt(i)
  BY DEF Rebuilt, Open
<1>3. seg(i).version = LatestVersion(seg(i).start, seg(i).end)
  BY <1>2 DEF Newest
<1>4. Top(seg(i).start, seg(i).end)
  BY Zenon DEF Top
<1>5. ASSUME NEW f \in files, Named(f, Name(i)) PROVE Scanned(f)
  BY <1>0, <1>3, <1>4, <1>5, TopScanned DEF Named
<1> QED
  BY <1>1, <1>5

\* So it does those of the sources of a merge thread that has not written.
LEMMA SourceScanned ==
    ASSUME Inv, Newest, Nested, Sources, NEW t \in Merger,
           mpc[t] \in {"lock", "lock2", "reload", "write"}, NEW g \in task[t].src
    PROVE  /\ \E f \in files : Named(f, g)
           /\ \A f \in files : Named(f, g) => Scanned(f)
           /\ \E i \in {task[t].lo, task[t].hi} : i \in Linked /\ g = Name(i)
<1>1. mpc[t] \in Claiming \ Writing
  BY DEF Claiming, Writing
<1>2. task[t].src = {Name(task[t].lo), Name(task[t].hi)}
  BY DEF Sources
<1>3. PICK i \in {task[t].lo, task[t].hi} : g = Name(i)
  BY <1>2
<1>4. i \in Linked /\ Open(i)
  BY <1>1, ClaimOpen
<1> QED
  BY <1>3, <1>4, OpenScanned

\* VacuumSegment has nothing to do, or writes a bitmap with what is doomed.
LEMMA Vacuumed ==
    ASSUME Inv, VacuumSegment
    PROVE  /\ vpc = "next" /\ todo # {} /\ UNCHANGED <<doomed, vidx, retry>>
           /\ \/ /\ UNCHANGED <<files, vpc>> /\ todo' = todo \ {Current}
                 /\ \A r \in doomed : ~Shows(Current, r)
              \/ /\ todo' = todo /\ vpc' = "sent"
                 /\ \E f \in files : \E g \in FileType :
                      /\ Named(f, Current)
                      /\ files' = (files \ {f}) \cup {g}
                      /\ g.start = f.start /\ g.end = f.end /\ g.version = f.version
                      /\ g.rows = f.rows /\ g.mask = f.mask \cup ((f.rows \ f.mask) \cap doomed)
<1>0. TypeOK /\ VacuumInv
  BY DEF Inv, PoolInv, RowsInv
<1> DEFINE f == Load(Current.start, Current.end, Current.version)
           hit == (f.rows \ f.mask) \cap doomed
<1>1. vpc = "next" /\ todo # {} /\ UNCHANGED <<doomed, vidx, retry>>
  BY DEF VacuumSegment, VacuumAt
<1>2. /\ \/ hit = {} /\ todo' = todo \ {Current} /\ UNCHANGED <<files, vpc>>
         \/ /\ hit # {} /\ files' = (files \ {f}) \cup {[f EXCEPT !.mask = @ \cup hit]}
            /\ vpc' = "sent" /\ todo' = todo
  BY DEF VacuumSegment
<1>3. Current \in todo
  BY <1>0, <1>1, CurrentIs
<1>4. Current.version \in Versions(Current.start, Current.end)
  BY <1>0, <1>3 DEF VacuumInv
<1>5. f \in files /\ Named(f, Current)
  BY <1>0, <1>4, LoadIs DEF Named
<1> HIDE DEF f
<1>6. f \in FileType /\ doomed \subseteq Row
  BY <1>0, <1>5 DEF TypeOK
<1>7. CASE hit = {} /\ todo' = todo \ {Current} /\ UNCHANGED <<files, vpc>>
  <2>1. ASSUME NEW r \in doomed PROVE ~Shows(Current, r)
    BY <1>5, <1>7, ShowsIs
  <2> QED
    BY <1>1, <1>7, <2>1
<1>8. CASE /\ hit # {} /\ files' = (files \ {f}) \cup {[f EXCEPT !.mask = @ \cup hit]}
           /\ vpc' = "sent" /\ todo' = todo
  <2> DEFINE g == [f EXCEPT !.mask = @ \cup hit]
  <2>1. /\ g \in FileType
        /\ g.start = f.start /\ g.end = f.end /\ g.version = f.version
        /\ g.rows = f.rows /\ g.mask = f.mask \cup ((f.rows \ f.mask) \cap doomed)
    BY <1>6 DEF FileType
  <2>2. files' = (files \ {f}) \cup {g}
    BY <1>8
  <2> HIDE DEF g
  <2> QED
    BY <1>1, <1>5, <1>8, <2>1, <2>2
<1> QED
  BY <1>2, <1>7, <1>8

-----------------------------------------------------------------------------
(* What the steps do to the files.                                         *)

AddsFile(g) == \A f : f \in files' <=> f \in files \/ f = g

MarksFile(f, g) ==
    /\ f \in files /\ files' = (files \ {f}) \cup {g}
    /\ g.start = f.start /\ g.end = f.end /\ g.version = f.version
    /\ g.rows = f.rows /\ f.mask \subseteq g.mask

FlushesFile ==
    FlushSegment /\ \E g : /\ AddsFile(g) /\ g.start = rsid' /\ g.end = rsid'
                           /\ g.rows = RowsOf({rsid'})

WritesFile(t) ==
    MergeWrite(t) /\ \E g : /\ AddsFile(g) /\ g.start = task[t].start /\ g.end = task[t].end
                            /\ g.rows = task[t].rows /\ g.mask = task[t].mask

SendsFile ==
    /\ VacuumSegment /\ vpc = "next" /\ vpc' = "sent" /\ todo' = todo /\ todo # {}
    /\ \E f, g : Named(f, Current) /\ MarksFile(f, g)

\* One file is added, or the bitmap of one grows.
LEMMA FilesMove ==
    ASSUME Inv, Next
    PROVE  \/ UNCHANGED files \/ FlushesFile \/ (\E t \in Merger : WritesFile(t)) \/ SendsFile
<1>1. CASE FlushSegment
  BY <1>1, FlushAdds, Zenon DEF FlushesFile, AddsFile
<1>2. CASE \E t \in Merger : MergeWrite(t)
  BY <1>2, WriteAdds, Zenon DEF WritesFile, AddsFile
<1>3. CASE VacuumSegment
  <2>1. CASE UNCHANGED files
    BY <2>1
  <2>2. CASE ~UNCHANGED files
    <3>1. vpc = "next" /\ todo # {} /\ todo' = todo /\ vpc' = "sent"
      BY <1>3, <2>2, Vacuumed
    <3>2. PICK f \in files : \E g \in FileType :
                 /\ Named(f, Current)
                 /\ files' = (files \ {f}) \cup {g}
                 /\ g.start = f.start /\ g.end = f.end /\ g.version = f.version
                 /\ g.rows = f.rows /\ g.mask = f.mask \cup ((f.rows \ f.mask) \cap doomed)
      BY <1>3, <2>2, Vacuumed
    <3>3. PICK g \in FileType :
                 /\ Named(f, Current)
                 /\ files' = (files \ {f}) \cup {g}
                 /\ g.start = f.start /\ g.end = f.end /\ g.version = f.version
                 /\ g.rows = f.rows /\ g.mask = f.mask \cup ((f.rows \ f.mask) \cap doomed)
      BY <3>2
    <3>4. MarksFile(f, g)
      BY <3>3 DEF MarksFile
    <3> QED
      BY <1>3, <3>1, <3>3, <3>4, Zenon DEF SendsFile
  <2> QED
    BY <2>1, <2>2
<1> QED
  BY <1>1, <1>2, <1>3, Frames

\* A file's rows stay on disk.
LEMMA HasStays ==
    ASSUME Inv, Next, NEW g, NEW r, Has(g, r)
    PROVE  Has(g, r)'
<1>1. PICK h \in files : Named(h, g) /\ r \in h.rows
  BY DEF Has
<1>2. CASE UNCHANGED files
  BY <1>1, <1>2 DEF Has
<1>3. CASE \E k : AddsFile(k)
  BY <1>1, <1>3 DEF Has, AddsFile
<1>4. ASSUME NEW f, NEW k, MarksFile(f, k) PROVE \E x \in files' : Named(x, g) /\ r \in x.rows
  <2>1. CASE h = f
    BY <1>1, <1>4, <2>1 DEF MarksFile, Named
  <2>2. CASE h # f
    BY <1>1, <1>4, <2>2 DEF MarksFile
  <2> QED
    BY <2>1, <2>2
<1> QED
  BY <1>2, <1>3, <1>4, FilesMove, Zenon DEF FlushesFile, WritesFile, SendsFile, Has

\* A file never offers what it has not offered before.
LEMMA ShownFrom ==
    ASSUME Inv, Inv', Next, NEW g, NEW r, NEW h \in files, Named(h, g), Shows(g, r)'
    PROVE  Shows(g, r)
<1>0. \A f, k \in files' :
        f.start = k.start /\ f.end = k.end /\ f.version = k.version => f = k
  BY Zenon DEF Inv, RowsInv, FilesInv
<1>1. PICK x \in files' : Named(x, g) /\ r \in x.rows \ x.mask
  BY DEF Shows
<1>2. CASE x \in files
  BY <1>1, <1>2 DEF Shows
<1>3. ASSUME NEW k, AddsFile(k), x \notin files PROVE FALSE
  <2>1. h \in files'
    BY <1>3 DEF AddsFile
  <2>2. h = x
    BY <1>0, <1>1, <2>1 DEF Named
  <2> QED
    BY <1>3, <2>2
<1>4. ASSUME NEW f, NEW k, MarksFile(f, k), x \notin files PROVE Shows(g, r)
  <2>1. x = k /\ f \in files
    BY <1>1, <1>4 DEF MarksFile
  <2>2. Named(f, g) /\ r \in f.rows \ f.mask
    BY <1>1, <1>4, <2>1 DEF MarksFile, Named
  <2> QED
    BY <2>1, <2>2 DEF Shows
<1>5. CASE UNCHANGED files
  BY <1>1, <1>2, <1>5
<1> QED
  BY <1>2, <1>3, <1>4, <1>5, FilesMove, Zenon DEF FlushesFile, WritesFile, SendsFile

\* It goes on offering it, unless VACUUM has just dealt with it.
LEMMA ShowsStays ==
    ASSUME Inv, Next, NEW g \in FileId, NEW r, Shows(g, r)
    PROVE  Shows(g, r)' \/ (SendsFile /\ g = Current)
<1>1. PICK h \in files : Named(h, g) /\ r \in h.rows \ h.mask
  BY DEF Shows
<1>2. CASE UNCHANGED files
  BY <1>1, <1>2 DEF Shows
<1>3. CASE \E k : AddsFile(k)
  BY <1>1, <1>3 DEF Shows, AddsFile
<1>4. CASE SendsFile
  <2>1. PICK f, k : Named(f, Current) /\ MarksFile(f, k)
    BY <1>4 DEF SendsFile
  <2>2. CASE h = f
    <3>1. Current \in FileId
      BY <1>4, CurrentIs DEF SendsFile, Inv, PoolInv
    <3>2. g.start = Current.start /\ g.end = Current.end /\ g.version = Current.version
      BY <1>1, <2>1, <2>2 DEF Named
    <3>3. g = Current
      BY <3>1, <3>2 DEF FileId
    <3> QED
      BY <1>4, <3>3
  <2>3. CASE h # f
    BY <1>1, <2>1, <2>3 DEF MarksFile, Shows
  <2> QED
    BY <2>2, <2>3
<1> QED
  BY <1>2, <1>3, <1>4, FilesMove, Zenon DEF FlushesFile, WritesFile

\* What a scan would find, it would have found before, but for a new file.
LEMMA ScannedAfter ==
    ASSUME Inv, Next, NEW f, Scanned(f)', NEW r \in f.rows \ f.mask
    PROVE  \/ \E h : Scanned(h) /\ r \in h.rows \ h.mask
           \/ FlushSegment /\ f.rows = RowsOf({rsid'})
           \/ \E t \in Merger : MergeWrite(t) /\ f.rows = task[t].rows /\ f.mask = task[t].mask
<1>0. /\ f \in files'
      /\ \A h \in files' : h.start <= f.start /\ f.end <= h.end =>
            h.start = f.start /\ h.end = f.end /\ h.version <= f.version
  BY DEF Scanned
<1>1. CASE UNCHANGED files
  BY <1>0, <1>1 DEF Scanned
<1>2. ASSUME NEW k, AddsFile(k) PROVE Scanned(f) \/ f = k
  BY <1>0, <1>2 DEF Scanned, AddsFile
<1>3. CASE FlushesFile
  BY <1>2, <1>3, Zenon DEF FlushesFile
<1>4. CASE \E t \in Merger : WritesFile(t)
  BY <1>2, <1>4, Zenon DEF WritesFile
<1>5. CASE SendsFile
  <2>1. PICK g, k : MarksFile(g, k)
    BY <1>5 DEF SendsFile
  <2>2. ASSUME NEW x \in files, x.start <= f.start, f.end <= x.end
        PROVE  x.start = f.start /\ x.end = f.end /\ x.version <= f.version
    <3>1. CASE x = g
      BY <1>0, <2>1, <2>2, <3>1 DEF MarksFile
    <3>2. CASE x # g
      BY <1>0, <2>1, <2>2, <3>2 DEF MarksFile
    <3> QED
      BY <3>1, <3>2
  <2>3. CASE f = k
    <3>1. /\ g \in files /\ g.start = f.start /\ g.end = f.end /\ g.version = f.version
          /\ r \in g.rows \ g.mask
      BY <2>1, <2>3 DEF MarksFile
    <3>2. Scanned(g)
      BY <2>2, <3>1 DEF Scanned
    <3> QED
      BY <3>1, <3>2
  <2>4. CASE f # k
    <3>1. f \in files
      BY <1>0, <2>1, <2>4 DEF MarksFile
    <3>2. Scanned(f)
      BY <2>2, <3>1 DEF Scanned
    <3> QED
      BY <3>2
  <2> QED
    BY <2>3, <2>4
<1> QED
  BY <1>1, <1>3, <1>4, <1>5, FilesMove

-----------------------------------------------------------------------------
(* What keeps a row VACUUM has dealt with off the disk.                    *)

\* A row that a merge thread has built into the new segment is in the files of
\* one of its sources, which a scan would take.
LEMMA SourceOf ==
    ASSUME Inv, Newest, Nested, Contents, Sources, NEW t \in Merger,
           mpc[t] \in {"lock", "lock2", "reload", "write"}, NEW r \in task[t].rows
    PROVE  /\ \E g \in task[t].src : \E h \in files :
                /\ Scanned(h) /\ Named(h, g) /\ r \in h.rows
           /\ r \in Row
<1>1. PICK g \in task[t].src : Has(g, r)
  BY Zenon DEF Sources
<1>2. PICK h \in files : Named(h, g) /\ r \in h.rows
  BY <1>1 DEF Has
<1>3. Scanned(h)
  BY <1>2, SourceScanned
<1>4. r \in Row
  BY <1>2, FileSids
<1> QED
  BY <1>2, <1>3, <1>4

\* A file has the rows of its sids.
LEMMA RowCovered ==
    ASSUME Contents, NEW h \in files, NEW r \in h.rows
    PROVE  r \in Row /\ r[1] \in h.start .. h.end
<1>1. r \in RowsOf(h.start .. h.end)
  BY DEF Contents
<1> QED
  BY <1>1 DEF RowsOf

\* MergeReload masks what the files of all the sources mask.
LEMMA ReloadMask ==
    ASSUME Inv, NEW t \in Merger, MergeReload(t), NEW r, r \in task'[t].rows, r \notin task'[t].mask
    PROVE  /\ mpc[t] = "reload" /\ r \in task[t].rows /\ task'[t].src = task[t].src
           /\ \A g \in task[t].src : r \notin Load(g.start, g.end, g.version).mask
<1>0. TypeOK
  BY DEF Inv, PoolInv
<1> DEFINE all == UNION {Load(f.start, f.end, f.version).mask : f \in task[t].src}
           k == [task[t] EXCEPT !.mask = all \cap task[t].rows]
<1>1. mpc[t] = "reload" /\ MergeStep(t, "write", k)
  BY DEF MergeReload, MergeMask, MergeAt
<1>2. task[t] \in TaskType
  BY <1>0, TaskFields
<1>3. k.rows = task[t].rows /\ k.src = task[t].src /\ k.mask = all \cap task[t].rows
  BY <1>2 DEF TaskType
<1> HIDE DEF k
<1>4. task'[t] = k
  BY <1>0, <1>1, MergeStepIs
<1>5. r \in task[t].rows /\ task'[t].src = task[t].src /\ r \notin all
  BY <1>3, <1>4
<1> QED
  BY <1>1, <1>5

\* The step that takes a merge thread to its write.
LEMMA WriteFrom ==
    ASSUME Inv, Next, NEW t \in Merger, mpc'[t] = "write"
    PROVE  (mpc[t] = "write" /\ task'[t] = task[t]) \/ MergeReload(t)
<1>1. CASE mpc'[t] = mpc[t] /\ task'[t] = task[t]
  BY <1>1
<1>2. CASE Merge(t)
  <2>1. ~MergeLoad(t)
    BY LoadTask
  <2>2. ~MergeLock(t) /\ ~MergeLock2(t)
    BY LockTask
  <2>3. ~MergeWrite(t)
    BY WriteTask
  <2> QED
    BY <1>2, <2>1, <2>2, <2>3, MergeTable
<1> QED
  BY <1>1, <1>2, MergeFrom

\* Nothing brings it back: neither a merge, which reloads the bitmaps, nor a
\* flush, which is of other sids.
LEMMA CleanStays ==
    ASSUME Inv, Newest, Nested, Contents, Sources, Next, NEW r \in RowsOf(registered), Clean(r)
    PROVE  Clean(r)'
<1>0. r \in Row /\ r[1] \in registered
  BY DEF RowsOf
<1>1. ASSUME NEW f, Scanned(f)', r \in f.rows \ f.mask PROVE FALSE
  <2>1. CASE \E h : Scanned(h) /\ r \in h.rows \ h.mask
    BY <2>1 DEF Clean, Scanned
  <2>2. CASE FlushSegment /\ f.rows = RowsOf({rsid'})
    <3>1. r[1] = rsid'
      BY <1>1, <2>2 DEF RowsOf
    <3>2. rsid' = rsid + 1 /\ rsid \in Nat /\ registered = 1 .. (IF rpc = "idle" THEN rsid ELSE rsid - 1)
      BY <2>2, FilesAre DEF FlushSegment
    <3> QED
      BY <1>0, <3>1, <3>2
  <2>3. CASE \E t \in Merger : MergeWrite(t) /\ f.rows = task[t].rows /\ f.mask = task[t].mask
    <3>1. PICK t \in Merger : MergeWrite(t) /\ f.rows = task[t].rows /\ f.mask = task[t].mask
      BY <2>3
    <3>2. mpc[t] = "write"
      BY <3>1, WriteTask
    <3> QED
      BY <1>1, <3>1, <3>2 DEF Clean
  <2> QED
    BY <1>1, <2>1, <2>2, <2>3, ScannedAfter
<1>2. ASSUME NEW t \in Merger, mpc'[t] = "write", r \in task'[t].rows \ task'[t].mask PROVE FALSE
  <2>1. CASE mpc[t] = "write" /\ task'[t] = task[t]
    BY <1>2, <2>1 DEF Clean
  <2>2. CASE MergeReload(t)
    <3>1. /\ mpc[t] = "reload" /\ r \in task[t].rows
          /\ \A g \in task[t].src : r \notin Load(g.start, g.end, g.version).mask
      BY <1>2, <2>2, ReloadMask
    <3>2. PICK g \in task[t].src : \E h \in files :
                 Scanned(h) /\ Named(h, g) /\ r \in h.rows
      BY <3>1, SourceOf
    <3>3. PICK h \in files : Scanned(h) /\ Named(h, g) /\ r \in h.rows
      BY <3>2
    <3>4. Load(g.start, g.end, g.version) = h
      BY <3>3, FileSids DEF Named
    <3> QED
      BY <3>1, <3>3, <3>4 DEF Clean
  <2> QED
    BY <1>2, <2>1, <2>2, WriteFrom
<1> QED
  BY <1>1, <1>2, Zenon DEF Clean

\* A row is clean if the file that a scan takes for its sid does not offer it:
\* no other file that it takes has the row, and a merge thread has reloaded
\* the bitmap, unless VACUUM has just written it.
LEMMA ScannedClean ==
    ASSUME Inv, Newest, Nested, Contents, Sources, Reloaded, NEW f, Scanned(f),
           NEW r, r[1] \in registered, r[1] \in f.start .. f.end, r \notin f.rows \ f.mask,
           \A t \in Merger : mpc[t] = "write" =>
             \A g \in task[t].src : Named(f, g) => ~Awaited(t, g)
    PROVE  Clean(r)
<1>0. f \in files
  BY DEF Scanned
<1>1. ASSUME NEW h \in files, Scanned(h), r \in h.rows PROVE h = f
  <2>1. r[1] \in h.start .. h.end
    BY <1>1, RowCovered
  <2> QED
    BY <1>1, <2>1, ScannedOnce
<1>2. ASSUME NEW t \in Merger, mpc[t] = "write", r \in task[t].rows \ task[t].mask PROVE FALSE
  <2>1. PICK g \in task[t].src : \E h \in files : Scanned(h) /\ Named(h, g) /\ r \in h.rows
    BY <1>2, SourceOf
  <2>2. PICK h \in files : Scanned(h) /\ Named(h, g) /\ r \in h.rows
    BY <2>1
  <2>3. h = f
    BY <1>1, <2>2
  <2>4. Covers(g, r)
    BY <2>2, <2>3 DEF Covers, Named
  <2>5. Shows(g, r)
    BY <1>2, <2>2, <2>3, <2>4, Zenon DEF Reloaded
  <2>6. r \in f.rows \ f.mask
    BY <1>0, <2>2, <2>3, <2>5, ShowsIs
  <2> QED
    BY <2>6
<1> QED
  BY <1>1, <1>2 DEF Clean

-----------------------------------------------------------------------------
(* The files stay within the segments of the list.                         *)

\* After the step, the list has a segment s-e.
Placed(s, e) ==
    \E j \in Linked' : flushed_segments'[j].start = s /\ flushed_segments'[j].end = e

\* An upgrade puts the same segment in again.
LEMMA UpgradePlaces ==
    ASSUME Inv, NEW u \in upgrades, Upgrade(u), u.idx \notin Linked'
    PROVE  Placed(seg(u.idx).start, seg(u.idx).end)
<1> DEFINE g == seg(u.idx)
           new == Loaded(EmptySegment, g, "full")
<1>0. u.idx \in Linked
  BY DEF Inv, PoolInv, Upgrading
<1>1. ~(Marks /\ UNCHANGED poolVars)
  BY <1>0, LinkedStays
<1>2. Replaces(u.idx, u.idx, insert_idx, new)
  BY <1>1, UpgradeReplaces
<1>3. insert_idx \in Linked' /\ Holds(insert_idx, new)
  BY <1>2 DEF Replaces
<1>4. new.start = g.start /\ new.end = g.end
  <2>1. EmptySegment \in SegmentType
    BY EmptyType
  <2> HIDE DEF g
  <2> QED
    BY <2>1 DEF Loaded, SegmentType
<1> HIDE DEF new
<1> QED
  BY <1>3, <1>4 DEF Holds, Placed

\* A merge puts in what it has made of what it takes out.
LEMMA ReplacePlaces ==
    ASSUME Inv, NEW t \in Merger, MergeReplace(t)
    PROVE  Placed(task[t].start, task[t].end)
<1> DEFINE k == task[t]
           f == File(k.start, k.end, k.version, k.rows, k.mask)
           new == Loaded(seg(k.new), f, "full")
<1>1. Replaces(k.lo, k.hi, k.new, new) /\ Coming(k.new)
  BY MergeReplaces
<1>2. k.new \in Linked' /\ Holds(k.new, new) /\ k.new \in Idx
  BY <1>1 DEF Replaces
<1>3. new.start = k.start /\ new.end = k.end
  <2>1. /\ k.start \in AnySid /\ k.end \in AnySid /\ k.version \in Nat
        /\ k.rows \in SUBSET Row /\ k.mask \in SUBSET Row
    BY TaskFields DEF Inv, PoolInv
  <2>2. seg(k.new) \in SegmentType
    BY <1>2, PinnedFacts
  <2> HIDE DEF k
  <2>3. /\ f.start = k.start /\ f.end = k.end /\ f.version = k.version
        /\ f.rows = k.rows /\ f.mask = k.mask
    BY <2>1, FileIs
  <2> HIDE DEF f
  <2>4. /\ f.start \in AnySid /\ f.end \in AnySid /\ f.version \in Nat
        /\ f.rows \subseteq Row /\ f.mask \subseteq Row
    BY <2>1, <2>3
  <2>5. new.start = f.start /\ new.end = f.end
    BY <2>2, <2>4 DEF Loaded, SegmentType
  <2> QED
    BY <2>3, <2>5
<1> HIDE DEF new
<1> QED
  BY <1>2, <1>3 DEF Holds, Placed

\* What is flushed and what is registered.
LEMMA RegSids ==
    ASSUME Inv, Next
    PROVE  \/ rsid' = rsid /\ registered' = registered
           \/ FlushSegment /\ rpc = "idle" /\ rsid' = rsid + 1 /\ registered' = registered
           \/ RegularRegister /\ rsid' = rsid /\ rpc = "register" /\ Placed(rsid, rsid)
<1>1. CASE UNCHANGED regVars
  BY <1>1 DEF regVars
<1>2. CASE Reg
  <2>1. CASE FlushSegment
    BY <2>1 DEF FlushSegment
  <2>2. CASE RegularFind \/ RegularReserve \/ RegularLoad
    BY <2>2 DEF RegularFind, RegularReserve, RegularLoad
  <2>3. CASE RegularRegister
    <3>1. rsid' = rsid /\ rpc = "register"
      BY <2>3 DEF RegularRegister
    <3>2. Appends(ridx)
      BY <2>3, RegisterAppends
    <3>3. ridx \in Linked' /\ Holds(ridx, seg(ridx))
      BY <3>2 DEF Appends
    <3>4. seg(ridx).start = rsid /\ seg(ridx).end = rsid
      BY <3>1 DEF Inv, RowsInv, TasksInv
    <3> QED
      BY <2>3, <3>1, <3>3, <3>4 DEF Holds, Placed
  <2> QED
    BY <1>2, <2>1, <2>2, <2>3 DEF Reg, Regular
<1> QED
  BY <1>1, <1>2, Frames

\* A segment of the list stays within one.
LEMMA PlaceStays ==
    ASSUME Inv, Next, insert_idx <= insert_idx', NEW i \in Linked
    PROVE  \E s, e \in Nat : Placed(s, e) /\ s <= seg(i).start /\ seg(i).end <= e
<1>0. seg(i).start \in Nat /\ seg(i).end \in Nat
  BY ListedSids, Constants
<1>1. CASE Placed(seg(i).start, seg(i).end)
  BY <1>0, <1>1
<1>2. CASE i \in Linked'
  <2>1. Same(i)
    BY SlotsStay, PinnedFacts
  <2>2. Placed(seg(i).start, seg(i).end)
    BY <1>2, <2>1 DEF Same, Placed
  <2> QED
    BY <1>1, <2>2
<1>3. CASE \E u \in upgrades : Upgrade(u) /\ i = u.idx
  BY <1>1, <1>2, <1>3, UpgradePlaces
<1>4. CASE \E t \in Merger : MergeReplace(t) /\ i \in {task[t].lo, task[t].hi}
  <2>1. PICK t \in Merger : MergeReplace(t) /\ i \in {task[t].lo, task[t].hi}
    BY <1>4
  <2>2. mpc[t] \in Claiming
    BY <2>1, EndTask DEF Claiming
  <2>3. task[t].start <= seg(i).start /\ seg(i).end <= task[t].end
    BY <2>1, <2>2, ClaimWithin
  <2>4. task[t].start \in Nat /\ task[t].end \in Nat
    BY <2>2, ClaimedSids, Constants
  <2> QED
    BY <2>1, <2>3, <2>4, ReplacePlaces
<1> QED
  BY <1>2, <1>3, <1>4, Leaves

\* What a merge thread has written is still to be put in, or it is in the list.
LEMMA WritingStays ==
    ASSUME Inv, Next, NoneGivesUp', NEW t \in Merger, mpc[t] \in Writing
    PROVE  \/ /\ mpc'[t] \in Writing
              /\ task'[t].start = task[t].start /\ task'[t].end = task[t].end
           \/ Placed(task[t].start, task[t].end)
<1>0. mpc[t] \in Claiming
  BY WritingClaims
<1>1. CASE mpc'[t] = mpc[t] /\ task'[t] = task[t]
  BY <1>1
<1>2. CASE Merge(t)
  <2>1. \/ MergeReserve(t) /\ mpc'[t] \in {"giveup", "replace"}
        \/ MergeReplace(t)
    BY <1>2, MergeTable DEF Writing
  <2>2. mpc'[t] # "giveup"
    BY DEF NoneGivesUp
  <2>3. CASE mpc'[t] = "replace"
    BY <1>0, <2>3, TaskStays DEF Writing
  <2> QED
    BY <2>1, <2>2, <2>3, ReplacePlaces
<1> QED
  BY <1>1, <1>2, MergeFrom

\* The files of a new segment are written before it is in the list.
LEMMA NestedStep ==
    ASSUME Inv, Nested, NoneGivesUp', Next, insert_idx <= insert_idx'
    PROVE  Nested'
<1> DEFINE In(f) == \E i \in Linked' : Within(f, flushed_segments'[i].start, flushed_segments'[i].end)
           By(f) == \E t \in Merger : mpc'[t] \in Writing /\ Within(f, task'[t].start, task'[t].end)
           To(f) == f.start = rsid' /\ rsid' \notin registered'
<1>0. /\ rsid \in Nat /\ registered = 1 .. (IF rpc = "idle" THEN rsid ELSE rsid - 1)
  BY FilesAre
<1>1. ASSUME NEW f \in files PROVE In(f) \/ By(f) \/ To(f)
  <2>0. /\ f.start \in Nat /\ f.end \in Nat /\ f.start <= f.end /\ f.end <= rsid /\ f.start \in Sid
    BY FileSids DEF Inv, RowsInv, FilesInv
  <2>1. CASE \E i \in Linked : Within(f, seg(i).start, seg(i).end)
    <3>1. PICK i \in Linked : Within(f, seg(i).start, seg(i).end)
      BY <2>1
    <3>2. PICK s, e \in Nat : Placed(s, e) /\ s <= seg(i).start /\ seg(i).end <= e
      BY PlaceStays
    <3>3. seg(i).start \in Nat /\ seg(i).end \in Nat
      BY ListedSids, Constants
    <3>4. Within(f, s, e)
      BY <2>0, <3>1, <3>2, <3>3 DEF Within
    <3> QED
      BY <3>2, <3>4 DEF Placed
  <2>2. CASE \E t \in Merger : mpc[t] \in Writing /\ Within(f, task[t].start, task[t].end)
    <3>1. PICK t \in Merger : mpc[t] \in Writing /\ Within(f, task[t].start, task[t].end)
      BY <2>2
    <3>2. \/ /\ mpc'[t] \in Writing
             /\ task'[t].start = task[t].start /\ task'[t].end = task[t].end
          \/ Placed(task[t].start, task[t].end)
      BY <3>1, WritingStays
    <3> QED
      BY <3>1, <3>2 DEF Placed
  <2>3. CASE f.start = rsid /\ rsid \notin registered
    <3>1. rpc # "idle" /\ f.end = rsid
      BY <1>0, <2>0, <2>3, Constants
    <3>2. CASE rsid' = rsid /\ registered' = registered
      BY <2>3, <3>2
    <3>3. CASE Placed(rsid, rsid)
      <4>1. Within(f, rsid, rsid)
        BY <1>0, <2>3, <3>1 DEF Within
      <4> QED
        BY <3>3, <4>1 DEF Placed
    <3> QED
      BY <3>1, <3>2, <3>3, RegSids
  <2> QED
    BY <2>1, <2>2, <2>3, Zenon DEF Nested
<1>2. ASSUME NEW f, NEW g, g.start = f.start, g.end = f.end, In(f) \/ By(f) \/ To(f)
      PROVE  In(g) \/ By(g) \/ To(g)
  BY <1>2 DEF Within
<1>3. ASSUME NEW f \in files' PROVE In(f) \/ By(f) \/ To(f)
  <2>1. CASE f \in files
    BY <1>1, <2>1
  <2>2. CASE FlushesFile /\ f \notin files
    <3>1. f.start = rsid' /\ rsid' = rsid + 1 /\ registered' = registered
      BY <2>2 DEF FlushesFile, AddsFile, FlushSegment, regVars
    <3>2. To(f)
      BY <1>0, <3>1
    <3> QED
      BY <3>2
  <2>3. CASE (\E t \in Merger : WritesFile(t)) /\ f \notin files
    <3>1. PICK t \in Merger : WritesFile(t)
      BY <2>3
    <3>2. f.start = task[t].start /\ f.end = task[t].end /\ MergeWrite(t)
      BY <2>3, <3>1 DEF WritesFile, AddsFile
    <3>3. mpc[t] = "write" /\ mpc'[t] = "reserve"
      BY <3>2, WriteTask
    <3>4. task'[t].start = task[t].start /\ task'[t].end = task[t].end
      BY <3>3, TaskStays DEF Claiming
    <3>5. task[t].start \in Nat /\ task[t].end \in Nat
      BY <3>3, ClaimedSids, Constants DEF Claiming
    <3>6. By(f)
      BY <3>2, <3>3, <3>4, <3>5 DEF Within, Writing
    <3> QED
      BY <3>6
  <2>4. CASE SendsFile /\ f \notin files
    <3>1. PICK g, k : MarksFile(g, k)
      BY <2>4 DEF SendsFile
    <3>2. f = k /\ g \in files /\ f.start = g.start /\ f.end = g.end
      BY <2>4, <3>1 DEF MarksFile
    <3> HIDE DEF In, By, To
    <3> QED
      BY <1>1, <1>2, <3>2
  <2> QED
    BY <2>1, <2>2, <2>3, <2>4, FilesMove
<1> QED
  BY <1>3, Zenon DEF Nested, seg

-----------------------------------------------------------------------------
(* Files have the rows of their sids, and sources are those of the slots.  *)

\* Rows come from the heap's side only of registered memtables.
LEMMA HeapFrom ==
    ASSUME Inv, Next
    PROVE  /\ dead' \subseteq dead \cup RowsOf(registered)
           /\ gone' = gone \/ (VacuumEnd /\ gone' = gone \cup doomed)
<1>1. CASE Reg
  BY <1>1, RegFrame DEF heapVars
<1>2. CASE Upg
  BY <1>2, UpgFrame DEF heapVars
<1>3. CASE Mrg
  BY <1>3, MrgFrame DEF Mrg, heapVars
<1>4. CASE Sch
  BY <1>4, SchFrame DEF heapVars
<1>5. CASE Del
  BY <1>5 DEF Del, DeleteRow
<1>6. CASE Vac
  <2>1. gone' = gone \/ (VacuumEnd /\ gone' = gone \cup doomed)
    BY <1>6 DEF Vac, Vacuum, VacuumBegin, VacuumAnswer, VacuumEnd, VacuumSegment, UpdateFind,
         UpdateLock, UpdateCheck, UpdateApply, UpdateMask, UpdateDrop, UpdateDropCheck
  <2> QED
    BY <1>6, <2>1, VacFrame
<1> QED
  BY <1>1, <1>2, <1>3, <1>4, <1>5, <1>6, Parties

\* What a merge thread has built is of the sids it has claimed.
LEMMA BuiltRows ==
    ASSUME Inv, Contents, Sources, NEW t \in Merger,
           mpc[t] \in {"lock", "lock2", "reload", "write"}
    PROVE  task[t].rows \subseteq RowsOf(task[t].start .. task[t].end)
<1> SUFFICES ASSUME NEW r \in task[t].rows PROVE r \in RowsOf(task[t].start .. task[t].end)
  OBVIOUS
<1>0. mpc[t] \in Claiming
  BY DEF Claiming
<1>1. PICK g \in task[t].src : Has(g, r)
  BY Zenon DEF Sources
<1>2. PICK i \in {task[t].lo, task[t].hi} : g = Name(i)
  BY DEF Sources
<1>3. PICK h \in files : Named(h, g) /\ r \in h.rows
  BY <1>1 DEF Has
<1>4. r \in Row /\ r[1] \in h.start .. h.end
  BY <1>3, RowCovered
<1>5. h.start = seg(i).start /\ h.end = seg(i).end
  BY <1>2, <1>3 DEF Name, Named
<1>6. /\ i \in Linked /\ task[t].start <= seg(i).start /\ seg(i).end <= task[t].end
  BY <1>0, ClaimWithin
<1>7. /\ seg(i).start \in Nat /\ seg(i).end \in Nat /\ task[t].start \in Nat /\ task[t].end \in Nat
  BY <1>0, <1>6, ListedSids, ClaimedSids, Constants
<1>8. r[1] \in task[t].start .. task[t].end
  BY <1>4, <1>5, <1>6, <1>7
<1> QED
  BY <1>4, <1>8 DEF RowsOf

\* A merge writes rows of the sids it has claimed, a flush those of its own.
LEMMA ContentsStep ==
    ASSUME Inv, Contents, Sources, Next
    PROVE  Contents'
<1>1. ASSUME NEW f \in files' PROVE f.rows \subseteq RowsOf(f.start .. f.end)
  <2>1. CASE f \in files
    BY <2>1 DEF Contents
  <2>2. CASE FlushesFile /\ f \notin files
    <3>1. f.rows = RowsOf({rsid'}) /\ f.start = rsid' /\ f.end = rsid' /\ rsid' = rsid + 1
      BY <2>2 DEF FlushesFile, AddsFile, FlushSegment
    <3>2. rsid' \in rsid' .. rsid'
      BY <3>1, FilesAre
    <3> QED
      BY <3>1, <3>2 DEF RowsOf
  <2>3. CASE (\E t \in Merger : WritesFile(t)) /\ f \notin files
    <3>1. PICK t \in Merger : WritesFile(t)
      BY <2>3
    <3>2. f.start = task[t].start /\ f.end = task[t].end /\ f.rows = task[t].rows /\ MergeWrite(t)
      BY <2>3, <3>1 DEF WritesFile, AddsFile
    <3>3. mpc[t] = "write"
      BY <3>2, WriteTask
    <3> QED
      BY <3>2, <3>3, BuiltRows
  <2>4. CASE SendsFile /\ f \notin files
    <3>1. PICK g, k : MarksFile(g, k)
      BY <2>4 DEF SendsFile
    <3>2. /\ f = k /\ g \in files /\ f.start = g.start /\ f.end = g.end /\ f.rows = g.rows
      BY <2>4, <3>1 DEF MarksFile
    <3> QED
      BY <3>2 DEF Contents
  <2>5. CASE UNCHANGED files
    BY <2>1, <2>5
  <2> QED
    BY <2>1, <2>2, <2>3, <2>4, <2>5, FilesMove
<1>2. registered \subseteq registered'
  <2>1. RegularRegister => registered \subseteq registered'
    BY DEF RegularRegister
  <2> QED
    BY <2>1, RegSids
<1>3. dead \cup gone \subseteq RowsOf(registered) /\ doomed \subseteq dead
  BY DEF Contents, Inv, RowsInv, VacuumInv
<1>4. RowsOf(registered) \subseteq RowsOf(registered')
  BY <1>2 DEF RowsOf
<1>5. dead' \cup gone' \subseteq RowsOf(registered')
  BY <1>3, <1>4, HeapFrom
<1> QED
  BY <1>1, <1>5, Zenon DEF Contents, RowsOf

\* What a merge thread loads for a slot are the files of the slot's version.
LEMMA SlotSource ==
    ASSUME Inv, Newest, NEW t \in Merger, mpc[t] \in Claiming \ Writing,
           NEW i \in {task[t].lo, task[t].hi}
    PROVE  LET f == Load(seg(i).start, seg(i).end, LatestVersion(seg(i).start, seg(i).end))
           IN f \in files /\ Named(f, Name(i))
<1>1. i \in Linked /\ Open(i)
  BY ClaimOpen
<1>2. ~Rebuilt(i)
  BY <1>1 DEF Rebuilt, Open
<1>3. seg(i).version = LatestVersion(seg(i).start, seg(i).end)
  BY <1>1, <1>2 DEF Newest
<1>4. PICK f \in files : f.start = seg(i).start /\ f.end = seg(i).end /\ f.version = seg(i).version
  BY <1>1, ListedSids DEF Filed
<1>5. Load(f.start, f.end, f.version) = f
  BY FileSids
<1>6. Named(f, Name(i))
  BY <1>4 DEF Named, Name
<1> QED
  BY <1>3, <1>4, <1>5, <1>6

\* So a merge thread's sources are named as its slots are.
LEMMA LoadSources ==
    ASSUME Inv, Newest, NEW t \in Merger, MergeLoad(t)
    PROVE  /\ task'[t].src = {Name(task[t].lo), Name(task[t].hi)}
           /\ \A r \in task'[t].rows : \E g \in task'[t].src : Has(g, r)
<1>1. TypeOK
  BY DEF Inv, PoolInv
<1>2. mpc[t] \in Claiming \ Writing
  BY DEF MergeLoad, MergeBuild, MergeAt, Claiming, Writing
<1> DEFINE Source(i) == Load(seg(i).start, seg(i).end,
                             LatestVersion(seg(i).start, seg(i).end))
           a == task[t].lo
           b == task[t].hi
           f1 == Source(a)
           f2 == Source(b)
           src == {Source(i) : i \in {a, b}}
           all == UNION {f.rows : f \in src}
           ids == {[start |-> f.start, end |-> f.end, version |-> f.version] : f \in src}
           rows == IF a = b THEN all \ f1.mask ELSE all
           k == [task[t] EXCEPT !.src = ids, !.rows = rows]
<1>3. MergeStep(t, "lock", k)
  BY Zenon DEF MergeLoad, MergeBuild
<1>4. f1 \in files /\ Named(f1, Name(a)) /\ f2 \in files /\ Named(f2, Name(b))
  BY <1>2, SlotSource
<1>5. src = {f1, f2}
  OBVIOUS
<1> HIDE DEF f1, f2, Source
<1>6. ids = {[start |-> f1.start, end |-> f1.end, version |-> f1.version],
             [start |-> f2.start, end |-> f2.end, version |-> f2.version]}
  BY <1>5
<1>7. all = f1.rows \cup f2.rows
  BY <1>5
<1>8. rows \subseteq f1.rows \cup f2.rows
  BY <1>7
<1>9. ids = {Name(a), Name(b)}
  BY <1>4, <1>6 DEF Named, Name
<1> HIDE DEF src, all, ids, rows
<1>10. k.src = ids /\ k.rows = rows
  <2>1. task[t] \in TaskType
    BY <1>1, TaskFields
  <2> QED
    BY <2>1 DEF TaskType
<1> HIDE DEF k
<1>11. task'[t] = k
  BY <1>1, <1>3, MergeStepIs
<1>12. ASSUME NEW r \in rows PROVE \E g \in ids : Has(g, r)
  <2>1. Has(Name(a), r) \/ Has(Name(b), r)
    BY <1>4, <1>8 DEF Has
  <2> QED
    BY <1>9, <2>1
<1> QED
  BY <1>9, <1>10, <1>11, <1>12

\* The name of slot i after the step.
NameAfter(i) == [start   |-> flushed_segments'[i].start,
                 end     |-> flushed_segments'[i].end,
                 version |-> flushed_segments'[i].version]

\* A slot's name stays.
LEMMA NameStays ==
    ASSUME Inv, Next, insert_idx <= insert_idx', NEW i, Used(i)
    PROVE  NameAfter(i) = Name(i)
  BY SlotsStay DEF Same, Name, NameAfter

\* Sources with the primes where the provers look for them.
LEMMA SourcesAfter ==
    ASSUME \A t \in Merger : mpc'[t] \in {"lock", "lock2", "reload", "write"} =>
             /\ task'[t].src = {NameAfter(task'[t].lo), NameAfter(task'[t].hi)}
             /\ \A r \in task'[t].rows : \E g \in task'[t].src :
                  \E f \in files' : Named(f, g) /\ r \in f.rows
    PROVE  Sources'
  BY Zenon DEF Sources, Has, Name, NameAfter, seg

\* The names of the slots stay under a merge thread, and so do their files.
LEMMA SourcesStep ==
    ASSUME Inv, Newest, Sources, Next, insert_idx <= insert_idx'
    PROVE  Sources'
<1> DEFINE Before(t) == /\ mpc[t] \in Claiming
                        /\ task'[t].lo = task[t].lo /\ task'[t].hi = task[t].hi
                        /\ task'[t].src = {Name(task[t].lo), Name(task[t].hi)}
                        /\ \A r \in task'[t].rows : \E g \in task'[t].src : Has(g, r)
<1>1. ASSUME NEW t \in Merger, mpc[t] \in {"lock", "lock2", "reload", "write"},
             task'[t].lo = task[t].lo, task'[t].hi = task[t].hi,
             task'[t].src = task[t].src, task'[t].rows = task[t].rows
      PROVE  Before(t)
  BY <1>1, Zenon DEF Sources, Claiming
<1>2. ASSUME NEW t \in Merger, mpc'[t] \in {"lock", "lock2", "reload", "write"}
      PROVE  Before(t)
  <2>1. CASE mpc'[t] = mpc[t] /\ task'[t] = task[t]
    BY <1>1, <1>2, <2>1
  <2>2. CASE Merge(t)
    <3>1. \/ MergeLoad(t) \/ MergeLock(t) \/ MergeLock2(t) \/ MergeReload(t)
          \/ MergeWrite(t)
      BY <1>2, <2>2, MergeTable
    <3>2. CASE MergeLoad(t)
      BY <3>2, LoadTask, LoadSources DEF SameTask, Claiming
    <3>3. CASE MergeLock(t) \/ MergeLock2(t)
      BY <1>1, <3>3, LockTask
    <3>4. CASE MergeReload(t)
      <4>1. mpc[t] = "reload" /\ SameTask(t) /\ task'[t].rows = task[t].rows
        BY <3>4, ReloadTask
      <4>2. task'[t].src = task[t].src
        <5> DEFINE mask == UNION {Load(f.start, f.end, f.version).mask : f \in task[t].src}
                   k == [task[t] EXCEPT !.mask = mask \cap task[t].rows]
        <5>1. MergeStep(t, "write", k)
          BY <3>4 DEF MergeReload, MergeMask
        <5>2. k.src = task[t].src
          BY TaskFields DEF TaskType, Inv, PoolInv
        <5> HIDE DEF k
        <5> QED
          BY <5>1, <5>2, MergeStepIs DEF Inv, PoolInv
      <4> QED
        BY <1>1, <4>1, <4>2 DEF SameTask
    <3>5. CASE MergeWrite(t)
      BY <1>2, <3>5, WriteTask
    <3> QED
      BY <3>1, <3>2, <3>3, <3>4, <3>5
  <2> QED
    BY <2>1, <2>2, MergeFrom
<1>3. ASSUME NEW t \in Merger, mpc'[t] \in {"lock", "lock2", "reload", "write"}
      PROVE  /\ task'[t].src = {NameAfter(task'[t].lo), NameAfter(task'[t].hi)}
             /\ \A r \in task'[t].rows : \E g \in task'[t].src :
                  \E f \in files' : Named(f, g) /\ r \in f.rows
  <2>1. Before(t)
    BY <1>2, <1>3
  <2>2. Used(task[t].lo) /\ Used(task[t].hi)
    BY <2>1, ClaimedSids, PinnedFacts
  <2>3. NameAfter(task[t].lo) = Name(task[t].lo) /\ NameAfter(task[t].hi) = Name(task[t].hi)
    BY <2>2, NameStays
  <2>4. ASSUME NEW r \in task'[t].rows
        PROVE  \E g \in task'[t].src : \E f \in files' : Named(f, g) /\ r \in f.rows
    <3>1. PICK g \in task'[t].src : Has(g, r)
      BY <2>1
    <3>2. Has(g, r)'
      BY <3>1, HasStays
    <3> QED
      BY <3>2 DEF Has
  <2> QED
    BY <2>1, <2>3, <2>4
<1> HIDE DEF Before
<1> QED
  BY <1>3, SourcesAfter

-----------------------------------------------------------------------------
(* VACUUM's segment pass.                                                  *)

\* The parts of the invariants.
LEMMA DiskIs ==
    ASSUME Inv, VersionInv, DiskInv
    PROVE  /\ Nested /\ Contents /\ Sources /\ Swept /\ Reloaded /\ Passing
           /\ Locked /\ Newest
           /\ doomed \subseteq dead /\ dead \cup gone \subseteq RowsOf(registered)
  BY Zenon DEF DiskInv, VersionInv, Contents, Inv, RowsInv, VacuumInv

\* The entries of files[] are names of files.
LEMMA TodoNamed ==
    ASSUME Inv, NEW g \in todo
    PROVE  g \in FileId /\ \E h \in files : Named(h, g)
<1>1. TypeOK /\ g.version \in Versions(g.start, g.end)
  BY DEF Inv, PoolInv, RowsInv, VacuumInv
<1>2. \E h \in files : h.start = g.start /\ h.end = g.end /\ h.version = g.version
  BY <1>1, VersionFacts
<1> QED
  BY <1>1, <1>2 DEF TypeOK, Named

\* A scan's result.
LEMMA ScanNamed ==
    ASSUME Inv
    PROVE  /\ \A g \in ScanFiles : g \in FileId /\ \E f : Scanned(f) /\ Named(f, g)
           /\ \A f : Scanned(f) => \E g \in ScanFiles : Named(f, g)
<1>1. ASSUME NEW g \in ScanFiles PROVE g \in FileId /\ \E f : Scanned(f) /\ Named(f, g)
  <2>1. PICK f : Scanned(f) /\ g = [start |-> f.start, end |-> f.end, version |-> f.version]
    BY ScannedIs
  <2>2. Named(f, g)
    BY <2>1 DEF Named
  <2>3. g \in FileId
    BY ScanIs DEF Inv, PoolInv
  <2> QED
    BY <2>1, <2>2, <2>3
<1>2. ASSUME NEW f, Scanned(f) PROVE \E g \in ScanFiles : Named(f, g)
  <2> DEFINE g == [start |-> f.start, end |-> f.end, version |-> f.version]
  <2>1. g \in ScanFiles
    BY <1>2, ScannedIs
  <2>2. Named(f, g)
    BY DEF Named
  <2> QED
    BY <2>1, <2>2
<1> QED
  BY <1>1, <1>2

\* Swept, but for what VACUUM has given back.
SweptDealt == \A r \in doomed : Dealt(r) => Clean(r)
SweptTodo  == \A g \in todo : \A r \in doomed :
                 Covers(g, r) /\ ~Shows(g, r) /\ (vpc = "next" \/ g # Current) => Clean(r)
SweptSent  == vpc \in {"sent", "lock"} => \A r \in doomed : ~Shows(Current, r)
SweptAll   == SweptDealt /\ SweptTodo /\ SweptSent

\* Swept in its parts.
LEMMA SweptIs == Swept <=> (\A r \in gone : Clean(r)) /\ SweptAll
  BY DEF Swept, SweptAll, SweptDealt, SweptTodo, SweptSent

\* A step keeps a deleted row off the disk,
LEMMA CleanKept ==
    ASSUME Inv, VersionInv, DiskInv, Next, NEW r \in dead \cup gone, Clean(r)
    PROVE  Clean(r)'
  BY DiskIs, CleanStays

\* one of a segment that VACUUM has dealt with,
LEMMA DealtKept ==
    ASSUME Inv, VersionInv, DiskInv, Next, NEW r \in doomed, Dealt(r)
    PROVE  Clean(r)'
<1>1. Clean(r) /\ r \in dead
  BY DiskIs, SweptIs DEF SweptAll, SweptDealt
<1> QED
  BY <1>1, CleanKept

\* one that its entry of files[] does not offer before VACUUM gets to it,
LEMMA TodoKept ==
    ASSUME Inv, VersionInv, DiskInv, Next, NEW g \in todo, NEW r \in doomed,
           Covers(g, r), ~Shows(g, r)', vpc = "next" \/ g # Current,
           ~(SendsFile /\ g = Current)
    PROVE  Clean(r)'
<1>1. ~Shows(g, r)
  BY TodoNamed, ShowsStays
<1>2. Clean(r) /\ r \in dead
  BY <1>1, DiskIs, SweptIs DEF SweptAll, SweptTodo
<1> QED
  BY <1>2, CleanKept

\* and one whose bitmap it has just written.
LEMMA SentKept ==
    ASSUME Inv, Inv', VersionInv, DiskInv, Next, vpc \in {"sent", "lock"},
           NEW r \in doomed, NEW g, g = Current
    PROVE  ~Shows(g, r)'
<1>1. todo # {} /\ ~Shows(g, r)
  BY DiskIs, SweptIs DEF SweptAll, SweptSent, Passing
<1>2. g \in todo
  BY <1>1, CurrentIs DEF Inv, PoolInv
<1>3. PICK h \in files : Named(h, g)
  BY <1>2, TodoNamed
<1> QED
  BY <1>1, <1>3, ShownFrom

\* Steps of the others.
LEMMA SweptOthers ==
    ASSUME Inv, Inv', VersionInv, DiskInv, Next, UNCHANGED vacVars
    PROVE  SweptAll'
<1>0. UNCHANGED <<vpc, todo, doomed, vidx, retry>> /\ Current' = Current /\ ~SendsFile
  BY DEF vacVars, Current, SendsFile
<1>1. ASSUME NEW r \in doomed, Dealt(r)' PROVE Clean(r)'
  <2>1. Dealt(r)
    BY <1>0, <1>1 DEF Dealt
  <2> QED
    BY <2>1, DealtKept
<1>2. ASSUME NEW g \in todo, NEW r \in doomed, Covers(g, r), ~Shows(g, r)',
             vpc = "next" \/ g # Current
      PROVE  Clean(r)'
  BY <1>0, <1>2, TodoKept
<1>3. ASSUME vpc \in {"sent", "lock"}, NEW r \in doomed PROVE ~Shows(Current, r)'
  <2>1. PICK g : g = Current
    OBVIOUS
  <2>2. ~Shows(g, r)'
    BY <1>3, <2>1, SentKept
  <2> QED
    BY <1>0, <2>1, <2>2 DEF Shows
<1> QED
  BY <1>0, <1>1, <1>2, <1>3 DEF SweptAll, SweptDealt, SweptTodo, SweptSent

\* At the start every registered sid is in a file of the scan, and if that does
\* not offer a deleted row nothing does.
LEMMA SweptBegin ==
    ASSUME Inv, VersionInv, DiskInv, Next, VacuumBegin
    PROVE  SweptAll'
<1>0. /\ vpc = "idle" /\ vpc' = "next" /\ doomed' = dead \ gone /\ todo' = ScanFiles
      /\ files' = files
  BY DEF VacuumBegin, VacuumAt
<1>1. ASSUME NEW r \in dead \ gone PROVE ~Dealt(r)'
  <2>1. r[1] \in registered
    BY DiskIs DEF RowsOf
  <2>2. PICK f : Scanned(f) /\ r[1] \in f.start .. f.end
    BY <2>1, DiskIs, ScannedCovers
  <2>3. PICK g \in ScanFiles : Named(f, g)
    BY <2>2, ScanNamed
  <2>4. Covers(g, r)
    BY <2>2, <2>3 DEF Named, Covers
  <2> QED
    BY <1>0, <2>3, <2>4 DEF Dealt
<1>2. ASSUME NEW g \in ScanFiles, NEW r \in dead \ gone, Covers(g, r), ~Shows(g, r)'
      PROVE  Clean(r)'
  <2>1. PICK f : Scanned(f) /\ Named(f, g)
    BY ScanNamed
  <2>2. f \in files
    BY <2>1 DEF Scanned
  <2>3. r \notin f.rows \ f.mask
    BY <1>0, <1>2, <2>1, <2>2 DEF Shows
  <2>4. r[1] \in f.start .. f.end
    BY <1>2, <2>1 DEF Covers, Named
  <2>5. r[1] \in registered
    BY DiskIs DEF RowsOf
  <2>6. \A t \in Merger : \A h : ~Awaited(t, h)
    BY <1>0 DEF Awaited
  <2>7. Clean(r)
    BY <2>1, <2>3, <2>4, <2>5, <2>6, DiskIs, ScannedClean
  <2> QED
    BY <2>7, CleanKept
<1> QED
  BY <1>0, <1>1, <1>2, Zenon DEF SweptAll, SweptDealt, SweptTodo, SweptSent

\* VACUUM gives a segment up when its files offer nothing that is doomed, or
\* writes a bitmap so that they do not.
LEMMA SweptSegment ==
    ASSUME Inv, VersionInv, DiskInv, Next, VacuumSegment
    PROVE  SweptAll'
<1>0. vpc = "next" /\ todo # {} /\ UNCHANGED <<doomed, vidx, retry>>
  BY Vacuumed
<1>1. CASE UNCHANGED <<files, vpc>> /\ todo' = todo \ {Current} /\ \A r \in doomed : ~Shows(Current, r)
  <2>0. Current \in todo /\ ~SendsFile
    BY <1>0, <1>1, CurrentIs DEF Inv, PoolInv, SendsFile
  <2>1. ASSUME NEW r \in doomed, Dealt(r)' PROVE Clean(r)'
    <3>1. \A g \in todo \ {Current} : ~Covers(g, r)
      BY <1>0, <1>1, <2>1 DEF Dealt
    <3>2. CASE Covers(Current, r)
      <4>1. PICK g \in todo : g = Current
        BY <2>0
      <4>2. ~Shows(g, r)'
        BY <1>1, <4>1 DEF Shows
      <4> QED
        BY <1>0, <2>0, <3>2, <4>1, <4>2, TodoKept
    <3>3. CASE ~Covers(Current, r)
      <4>1. Dealt(r)
        BY <3>1, <3>3 DEF Dealt
      <4> QED
        BY <4>1, DealtKept
    <3> QED
      BY <3>2, <3>3
  <2>2. ASSUME NEW g \in todo, NEW r \in doomed, Covers(g, r), ~Shows(g, r)'
        PROVE  Clean(r)'
    BY <1>0, <2>0, <2>2, TodoKept
  <2> QED
    BY <1>0, <1>1, <2>1, <2>2 DEF SweptAll, SweptDealt, SweptTodo, SweptSent
<1>2. CASE /\ todo' = todo /\ vpc' = "sent"
           /\ \E f \in files : \E g \in FileType :
                /\ Named(f, Current)
                /\ files' = (files \ {f}) \cup {g}
                /\ g.start = f.start /\ g.end = f.end /\ g.version = f.version
                /\ g.rows = f.rows /\ g.mask = f.mask \cup ((f.rows \ f.mask) \cap doomed)
  <2>0. Current' = Current
    BY <1>2 DEF Current
  <2>1. ASSUME NEW r \in doomed, Dealt(r)' PROVE Clean(r)'
    <3>1. Dealt(r)
      BY <1>2, <2>1 DEF Dealt
    <3> QED
      BY <3>1, DealtKept
  <2>2. ASSUME NEW g \in todo, NEW r \in doomed, Covers(g, r), ~Shows(g, r)', g # Current
        PROVE  Clean(r)'
    BY <2>2, TodoKept
  <2>3. ASSUME NEW r \in doomed PROVE ~Shows(Current, r)'
    <3>1. PICK f \in files : \E g \in FileType :
                /\ Named(f, Current)
                /\ files' = (files \ {f}) \cup {g}
                /\ g.start = f.start /\ g.end = f.end /\ g.version = f.version
                /\ g.rows = f.rows /\ g.mask = f.mask \cup ((f.rows \ f.mask) \cap doomed)
      BY <1>2
    <3>2. PICK g \in FileType :
                /\ Named(f, Current)
                /\ files' = (files \ {f}) \cup {g}
                /\ g.start = f.start /\ g.end = f.end /\ g.version = f.version
                /\ g.rows = f.rows /\ g.mask = f.mask \cup ((f.rows \ f.mask) \cap doomed)
      BY <3>1
    <3>3. ASSUME NEW x \in files', Named(x, Current) PROVE r \notin x.rows \ x.mask
      <4>1. x = g \/ (x \in files /\ x # f)
        BY <3>2
      <4>2. x \in files /\ x # f => FALSE
        BY <3>2, <3>3, NamedOnce
      <4> QED
        BY <3>2, <4>1, <4>2
    <3> QED
      BY <2>0, <3>3 DEF Shows
  <2> QED
    BY <1>0, <1>2, <2>0, <2>1, <2>2, <2>3 DEF SweptAll, SweptDealt, SweptTodo, SweptSent
<1> QED
  BY <1>1, <1>2, Vacuumed

\* UpdateFind answers RETRY or keeps the segment in hand.
LEMMA SweptFind ==
    ASSUME Inv, Inv', VersionInv, DiskInv, Next, UpdateFind
    PROVE  SweptAll'
<1>0. /\ vpc = "sent" /\ UNCHANGED <<todo, doomed>> /\ Current' = Current /\ ~SendsFile
      /\ vpc' = "lock" \/ (vpc' = "answer" /\ retry')
  BY DEF UpdateFind, VacuumAt, Current, SendsFile
<1>1. ASSUME NEW r \in doomed, Dealt(r)' PROVE Clean(r)'
  <2>1. Dealt(r)
    BY <1>0, <1>1 DEF Dealt
  <2> QED
    BY <2>1, DealtKept
<1>2. ASSUME NEW g \in todo, NEW r \in doomed, Covers(g, r), ~Shows(g, r)', g # Current
      PROVE  Clean(r)'
  BY <1>2, TodoKept
<1>3. ASSUME NEW r \in doomed PROVE ~Shows(Current, r)'
  <2>1. PICK g : g = Current
    OBVIOUS
  <2>2. ~Shows(g, r)'
    BY <1>0, <2>1, SentKept
  <2> QED
    BY <1>0, <2>1, <2>2 DEF Shows
<1> QED
  BY <1>0, <1>1, <1>2, <1>3 DEF SweptAll, SweptDealt, SweptTodo, SweptSent

\* With the mutex in hand the handler sees that the slot is still the segment
\* whose bitmap VACUUM has written: no merge thread can have reloaded it before
\* and not have put its segment in.
LEMMA LockedClean ==
    ASSUME Inv, VersionInv, DiskInv, UpdateLock, ~retry', NEW r \in doomed, Covers(Current, r)
    PROVE  Clean(r)
<1>1. /\ vpc = "lock" /\ seg(vidx).mutex = NoThread
      /\ seg(vidx).version = Current.version
      /\ FindBySids(Current.start, Current.end) = vidx
  BY DEF UpdateLock, UpdateCheck, VacuumAt
<1>2. vidx # NIL
  BY <1>1, PinnedFacts, Constants
<1>3. vidx \in Linked /\ seg(vidx).start = Current.start /\ seg(vidx).end = Current.end
  BY <1>1, <1>2, FindIs
<1>4. ASSUME NEW t \in Merger, mpc[t] \in Holding PROVE vidx \notin {task[t].lo, task[t].hi}
  <2>1. seg(task[t].lo).mutex = t /\ seg(task[t].hi).mutex = t
    BY <1>4, DiskIs, Zenon DEF Locked
  <2> QED
    BY <1>1, <2>1, ThreadAssumption
<1>5. Open(vidx)
  BY <1>4 DEF Open, Holding
<1>6. PICK f \in files : Named(f, Name(vidx)) /\ Scanned(f)
  BY <1>3, <1>5, DiskIs, OpenScanned
<1>7. Named(f, Current)
  BY <1>1, <1>3, <1>6 DEF Named, Name
<1>8. ~Shows(Current, r)
  BY <1>1, DiskIs, SweptIs DEF SweptAll, SweptSent
<1>9. r \notin f.rows \ f.mask
  BY <1>7, <1>8 DEF Shows
<1>10. r[1] \in f.start .. f.end
  BY <1>7 DEF Covers, Named
<1>11. r[1] \in registered
  BY DiskIs DEF RowsOf
<1>12. \A t \in Merger : mpc[t] = "write" => \A g : ~Awaited(t, g)
  BY <1>1, <1>4 DEF Awaited, Holding
<1> QED
  BY <1>6, <1>9, <1>10, <1>11, <1>12, DiskIs, ScannedClean

\* UpdateLock is where VACUUM is done with a segment, or gets a RETRY.
LEMMA SweptLock ==
    ASSUME Inv, VersionInv, DiskInv, Next, UpdateLock
    PROVE  SweptAll'
<1>0. /\ vpc = "lock" /\ vpc' = "apply" /\ UNCHANGED <<todo, doomed>> /\ Current' = Current
      /\ ~SendsFile
  BY DEF UpdateLock, UpdateCheck, VacuumAt, Current, SendsFile
<1>1. ASSUME NEW r \in doomed, Dealt(r)' PROVE Clean(r)'
  <2>1. CASE \A g \in todo : ~Covers(g, r)
    BY <2>1, DealtKept DEF Dealt
  <2>2. CASE ~retry' /\ Covers(Current, r)
    <3>1. Clean(r)
      BY <2>2, LockedClean
    <3> QED
      BY <3>1, DiskIs, CleanKept
  <2> QED
    BY <1>0, <1>1, <2>1, <2>2 DEF Dealt, Covers
<1>2. ASSUME NEW g \in todo, NEW r \in doomed, Covers(g, r), ~Shows(g, r)', g # Current
      PROVE  Clean(r)'
  BY <1>2, TodoKept
<1> QED
  BY <1>0, <1>1, <1>2 DEF SweptAll, SweptDealt, SweptTodo, SweptSent

\* The rest of the handler changes nothing on disk.
LEMMA SweptApply ==
    ASSUME Inv, VersionInv, DiskInv, Next, UpdateApply \/ UpdateDrop \/ UpdateDropCheck
    PROVE  SweptAll'
<1>0. /\ vpc \in {"apply", "unpin", "check"} /\ vpc' \in {"unpin", "check", "answer"}
      /\ UNCHANGED <<todo, doomed, retry>> /\ Current' = Current /\ ~SendsFile
  BY DEF UpdateApply, UpdateMask, UpdateDrop, UpdateDropCheck, VacuumAt, Current, SendsFile
<1>1. ASSUME NEW r \in doomed, Dealt(r)' PROVE Clean(r)'
  <2>1. Dealt(r)
    BY <1>0, <1>1 DEF Dealt, Covers
  <2> QED
    BY <2>1, DealtKept
<1>2. ASSUME NEW g \in todo, NEW r \in doomed, Covers(g, r), ~Shows(g, r)', g # Current
      PROVE  Clean(r)'
  BY <1>2, TodoKept
<1> QED
  BY <1>0, <1>1, <1>2 DEF SweptAll, SweptDealt, SweptTodo, SweptSent

\* After a RETRY the scan has the segment that covers all of the one in hand.
LEMMA AnswerCovers ==
    ASSUME Inv, VersionInv, DiskInv, vpc = "answer", NEW r, r[1] \in registered, Covers(Current, r)
    PROVE  \E g \in ScanFiles : g.start <= Current.start /\ Current.start <= g.end /\ Covers(g, r)
<1>1. Current \in todo
  BY DiskIs, CurrentIs DEF Inv, PoolInv, Passing
<1>2. PICK h \in files : Named(h, Current)
  BY <1>1, TodoNamed
<1>3. r[1] \in h.start .. h.end
  BY <1>2 DEF Covers, Named
<1>4. PICK s, e : Top(s, e) /\ s <= h.start /\ h.end <= e
  BY <1>2, <1>3, DiskIs, FileInTop
<1>5. PICK f \in files : f.start = s /\ f.end = e /\ f.version = LatestVersion(s, e)
  BY <1>4, TopFiled
<1>6. Scanned(f)
  BY <1>4, <1>5, DiskIs, TopScanned
<1>7. PICK g \in ScanFiles : Named(f, g)
  BY <1>6, ScanNamed
<1>8. /\ h.start \in Nat /\ h.end \in Nat /\ h.start <= h.end /\ s \in Nat /\ e \in Nat
  BY <1>2, <1>4, FileSids, TopFiled, Constants
<1>9. g.start = s /\ g.end = e /\ Current.start = h.start
  BY <1>2, <1>5, <1>7 DEF Named
<1>10. g.start <= Current.start /\ Current.start <= g.end
  BY <1>4, <1>8, <1>9
<1>11. Covers(g, r)
  BY <1>3, <1>4, <1>8, <1>9 DEF Covers
<1> QED
  BY <1>7, <1>10, <1>11

\* The next entry of files[], or what a new scan has in its place.
LEMMA SweptAnswer ==
    ASSUME Inv, VersionInv, DiskInv, Next, VacuumAnswer
    PROVE  SweptAll'
<1> DEFINE now == {g \in ScanFiles : g.start <= Current.start /\ Current.start <= g.end}
<1>0. /\ vpc = "answer" /\ vpc' = "next" /\ UNCHANGED <<files, doomed>> /\ retry' = FALSE
      /\ todo' = (todo \ {Current}) \cup (IF retry THEN now ELSE {})
      /\ ~SendsFile
  BY DEF VacuumAnswer, VacuumAt, SendsFile
<1>1. ASSUME NEW r \in doomed, Dealt(r)' PROVE Clean(r)'
  <2>0. \A g \in todo' : ~Covers(g, r)
    BY <1>0, <1>1 DEF Dealt
  <2>1. \A g \in todo \ {Current} : ~Covers(g, r)
    BY <1>0, <2>0
  <2>2. CASE ~Covers(Current, r)
    BY <2>1, <2>2, DealtKept DEF Dealt
  <2>3. CASE Covers(Current, r) /\ ~retry
    BY <1>0, <2>3, DealtKept DEF Dealt
  <2>4. CASE Covers(Current, r) /\ retry
    <3>1. r[1] \in registered
      BY DiskIs DEF RowsOf
    <3>2. PICK g \in ScanFiles : g.start <= Current.start /\ Current.start <= g.end /\ Covers(g, r)
      BY <1>0, <2>4, <3>1, AnswerCovers
    <3>3. g \in todo'
      BY <1>0, <2>4, <3>2
    <3> QED
      BY <2>0, <3>2, <3>3
  <2> QED
    BY <2>2, <2>3, <2>4
<1>2. ASSUME NEW g \in ScanFiles, NEW r \in doomed, Covers(g, r), ~Shows(g, r)'
      PROVE  Clean(r)'
  <2>1. PICK f : Scanned(f) /\ Named(f, g)
    BY ScanNamed
  <2>2. f \in files
    BY <2>1 DEF Scanned
  <2>3. r \notin f.rows \ f.mask
    BY <1>0, <1>2, <2>1, <2>2 DEF Shows
  <2>4. r[1] \in f.start .. f.end
    BY <1>2, <2>1 DEF Covers, Named
  <2>5. r[1] \in registered /\ r \in dead
    BY DiskIs DEF RowsOf
  <2>6. \A t \in Merger : \A h : ~Awaited(t, h)
    BY <1>0 DEF Awaited
  <2>7. Clean(r)
    BY <2>1, <2>3, <2>4, <2>5, <2>6, DiskIs, ScannedClean
  <2> QED
    BY <2>5, <2>7, CleanKept
<1>3. ASSUME NEW g \in todo', NEW r \in doomed, Covers(g, r), ~Shows(g, r)'
      PROVE  Clean(r)'
  <2>1. CASE g \in todo \ {Current}
    BY <1>0, <1>3, <2>1, TodoKept
  <2>2. CASE g \in ScanFiles
    BY <1>2, <1>3, <2>2
  <2> QED
    BY <1>0, <1>3, <2>1, <2>2
<1> QED
  BY <1>0, <1>1, <1>3, Zenon DEF SweptAll, SweptDealt, SweptTodo, SweptSent

\* What VACUUM gives back in the end has been dealt with.
LEMMA SweptStep ==
    ASSUME Inv, Inv', VersionInv, DiskInv, Next
    PROVE  Swept'
<1>1. SweptAll'
  <2>1. CASE VacuumEnd
    BY <2>1 DEF VacuumEnd, SweptAll, SweptDealt, SweptTodo, SweptSent
  <2>2. CASE Vac /\ ~VacuumEnd
    BY <2>2, SweptBegin, SweptSegment, SweptFind, SweptLock, SweptApply, SweptAnswer
       DEF Vac, Vacuum
  <2> QED
    BY <2>1, <2>2, SweptOthers, Frames
<1>2. ASSUME NEW r \in gone' PROVE Clean(r)'
  <2>1. CASE r \in gone
    <3>1. Clean(r)
      BY <2>1, DiskIs, SweptIs
    <3> QED
      BY <2>1, <3>1, CleanKept
  <2>2. CASE r \in doomed /\ VacuumEnd
    <3>1. Dealt(r)
      BY <2>2 DEF Dealt, VacuumEnd
    <3> QED
      BY <2>2, <3>1, DealtKept
  <2> QED
    BY <1>2, <2>1, <2>2, HeapFrom
<1>3. Swept' <=> (\A r \in gone' : Clean(r)') /\ SweptAll'
  BY DEF Swept, SweptAll, SweptDealt, SweptTodo, SweptSent
<1> QED
  BY <1>1, <1>2, <1>3

\* find_segment_by_sids finds what is in the list.
LEMMA FindSlot ==
    ASSUME Inv, NEW i \in Linked
    PROVE  FindBySids(seg(i).start, seg(i).end) = i
<1> DEFINE s == seg(i).start
           e == seg(i).end
           hits == {j \in Linked : seg(j).in_used /\ seg(j).start = s /\ seg(j).end = e}
<1>1. seg(i).in_used
  BY PinnedFacts
<1>2. i \in hits
  BY <1>1
<1>3. ASSUME NEW j \in hits PROVE j = i
  <2>1. s \in Nat /\ e \in Nat /\ s <= e
    BY ListedSids, Constants
  <2> QED
    BY <1>3, <2>1, ListedApart
<1>4. FindBySids(s, e) = CHOOSE j \in hits : TRUE
  BY <1>2 DEF FindBySids
<1>5. (CHOOSE j \in hits : TRUE) \in hits
  BY <1>2
<1> HIDE DEF hits
<1> QED
  BY <1>3, <1>4, <1>5

\* A merge thread has every bitmap of its sources when it has reloaded them.
LEMMA ReloadShows ==
    ASSUME Inv, VersionInv, DiskInv, NEW t \in Merger, MergeReload(t),
           NEW g \in task'[t].src, NEW r \in task'[t].rows \ task'[t].mask, Covers(g, r)
    PROVE  Shows(g, r)
<1>1. /\ mpc[t] = "reload" /\ r \in task[t].rows /\ g \in task[t].src
      /\ r \notin Load(g.start, g.end, g.version).mask
  BY ReloadMask
<1>2. PICK g2 \in task[t].src : \E h \in files : Scanned(h) /\ Named(h, g2) /\ r \in h.rows
  BY <1>1, DiskIs, SourceOf
<1>3. PICK h \in files : Scanned(h) /\ Named(h, g2) /\ r \in h.rows
  BY <1>2
<1>4. PICK f \in files : Named(f, g) /\ Scanned(f)
  BY <1>1, DiskIs, SourceScanned
<1>5. PICK i \in {task[t].lo, task[t].hi} : i \in Linked /\ g = Name(i)
  BY <1>1, DiskIs, SourceScanned
<1>6. r[1] \in h.start .. h.end
  BY <1>3, DiskIs, RowCovered
<1>7. r[1] \in f.start .. f.end
  BY <1>4 DEF Covers, Named
<1>8. r[1] \in registered
  <2>1. r[1] \in seg(i).start .. seg(i).end
    BY <1>5 DEF Covers, Name
  <2> QED
    BY <1>5, <2>1 DEF Inv, PoolInv, ListInv
<1>9. f = h
  BY <1>3, <1>4, <1>6, <1>7, <1>8, DiskIs, ScannedOnce
<1>10. Load(g.start, g.end, g.version) = f
  BY <1>4, FileSids DEF Named
<1> QED
  BY <1>1, <1>3, <1>4, <1>9, <1>10 DEF Shows

\* What VACUUM has sent waits for the merge thread's mutex.
LEMMA AwaitStays ==
    ASSUME Inv, VersionInv, DiskInv, Next, NEW t \in Merger, mpc[t] = "write",
           task'[t] = task[t], NEW g \in task[t].src, Awaited(t, g)
    PROVE  /\ g = Current'
           /\ vpc' = "sent" \/ (vpc' = "lock" /\ vidx' \in {task'[t].lo, task'[t].hi})
<1>1. PICK i \in {task[t].lo, task[t].hi} : i \in Linked /\ g = Name(i)
  BY DiskIs, SourceScanned
<1>2. g = Current
  BY DEF Awaited
<1>3. CASE UNCHANGED vacVars
  <2>1. UNCHANGED <<vpc, todo, vidx>>
    BY <1>3 DEF vacVars
  <2> QED
    BY <2>1 DEF Awaited, Current
<1>4. CASE vpc = "sent" /\ Vac
  <2>1. UpdateFind
    BY <1>4 DEF Vac, Vacuum, VacuumBegin, VacuumAnswer, VacuumEnd, VacuumSegment,
         UpdateLock, UpdateCheck, UpdateApply, UpdateMask, UpdateDrop, UpdateDropCheck, VacuumAt
  <2>2. FindBySids(Current.start, Current.end) = i
    BY <1>1, <1>2, FindSlot DEF Name
  <2>3. i # NIL
    BY <1>1, PinnedFacts, Constants
  <2>4. vpc' = "lock" /\ vidx' = i /\ todo' = todo
    BY <2>1, <2>2, <2>3 DEF UpdateFind
  <2> QED
    BY <1>1, <1>2, <2>4 DEF Current
<1>5. CASE vpc = "lock" /\ Vac
  <2>1. UpdateLock
    BY <1>5 DEF Vac, Vacuum, VacuumBegin, VacuumAnswer, VacuumEnd, VacuumSegment,
         UpdateFind, UpdateApply, UpdateMask, UpdateDrop, UpdateDropCheck, VacuumAt
  <2>2. seg(vidx).mutex = NoThread
    BY <2>1 DEF UpdateLock, UpdateCheck
  <2>3. vidx \in {task[t].lo, task[t].hi}
    BY <1>5 DEF Awaited
  <2>4. seg(task[t].lo).mutex = t /\ seg(task[t].hi).mutex = t
    BY DiskIs, Zenon DEF Locked, Holding
  <2> QED
    BY <2>2, <2>3, <2>4, ThreadAssumption
<1> QED
  BY <1>3, <1>4, <1>5, Frames DEF Awaited

\* VACUUM writes no bitmap behind the back of a merge thread that has reloaded it.
LEMMA ReloadedStep ==
    ASSUME Inv, VersionInv, DiskInv, Next
    PROVE  Reloaded'
<1> DEFINE Waits(t, g) == /\ g = Current'
                          /\ \/ vpc' = "sent"
                             \/ vpc' = "lock" /\ vidx' \in {task'[t].lo, task'[t].hi}
<1>1. ASSUME NEW t \in Merger, mpc'[t] = "write", NEW g \in task'[t].src,
             NEW r \in task'[t].rows \ task'[t].mask, Covers(g, r)
      PROVE  (\E f \in files' : Named(f, g) /\ r \in f.rows \ f.mask) \/ Waits(t, g)
  <2>1. CASE mpc[t] = "write" /\ task'[t] = task[t]
    <3>1. g \in FileId
      BY <1>1, <2>1, TaskFields DEF Inv, PoolInv
    <3>2. CASE Shows(g, r)
      <4>1. CASE Shows(g, r)'
        BY <4>1 DEF Shows
      <4>2. CASE SendsFile /\ g = Current
        BY <4>2 DEF SendsFile, Current
      <4> QED
        BY <3>1, <3>2, <4>1, <4>2, ShowsStays
    <3>3. CASE Awaited(t, g)
      BY <1>1, <2>1, <3>3, AwaitStays
    <3> QED
      BY <1>1, <2>1, <3>2, <3>3, DiskIs, Zenon DEF Reloaded
  <2>2. CASE MergeReload(t)
    <3>1. Shows(g, r)
      BY <1>1, <2>2, ReloadShows
    <3>2. files' = files
      BY <2>2 DEF MergeReload, MergeMask
    <3> QED
      BY <3>1, <3>2 DEF Shows
  <2> QED
    BY <1>1, <2>1, <2>2, WriteFrom
<1> QED
  BY <1>1, Zenon DEF Reloaded, Shows, Awaited, Covers

\* VACUUM has an entry of files[] in hand while the handler works for it.
LEMMA PassingStep ==
    ASSUME Inv, Passing, Next
    PROVE  Passing'
<1>1. CASE UNCHANGED vacVars
  BY <1>1 DEF vacVars, Passing
<1>2. CASE Vac
  <2>1. CASE VacuumBegin \/ VacuumAnswer
    BY <2>1 DEF VacuumBegin, VacuumAnswer, Passing
  <2>2. CASE VacuumSegment
    <3>1. vpc = "next" /\ todo # {}
      BY <2>2, Vacuumed
    <3>2. vpc' = vpc \/ (todo' = todo /\ vpc' = "sent")
      BY <2>2, Vacuumed
    <3> QED
      BY <3>1, <3>2 DEF Passing
  <2>3. CASE UpdateFind \/ UpdateLock \/ UpdateApply \/ UpdateDrop \/ UpdateDropCheck
    <3>1. /\ todo' = todo /\ vpc \notin {"idle", "next"} /\ vpc' # "idle"
      BY <2>3 DEF UpdateFind, UpdateLock, UpdateCheck, UpdateApply, UpdateMask, UpdateDrop,
           UpdateDropCheck, VacuumAt
    <3> QED
      BY <3>1 DEF Passing
  <2>4. CASE VacuumEnd
    BY <2>4 DEF VacuumEnd, Passing
  <2> QED
    BY <1>2, <2>1, <2>2, <2>3, <2>4 DEF Vac, Vacuum
<1> QED
  BY <1>1, <1>2, Frames

\* All of it is inductive.
LEMMA DiskStep ==
    ASSUME Inv, Inv', VersionInv, NoneGivesUp', DiskInv, Next, insert_idx <= insert_idx'
    PROVE  DiskInv'
<1>1. Nested'
  BY DiskIs, NestedStep
<1>2. Contents'
  BY DiskIs, ContentsStep
<1>3. Sources'
  BY DiskIs, SourcesStep
<1>4. Swept' /\ Reloaded'
  BY SweptStep, ReloadedStep
<1>5. Passing'
  BY DiskIs, PassingStep
<1> QED
  BY <1>1, <1>2, <1>3, <1>4, <1>5 DEF DiskInv

\* It survives stuttering.
LEMMA DiskStutter ==
    ASSUME Inv, DiskInv, UNCHANGED vars
    PROVE  DiskInv'
<1>1. UNCHANGED <<poolVars, files, regVars, heapVars, mergeVars, vacVars>>
  BY DEF vars
<1>2. /\ UNCHANGED <<flushed_segments, files, dead, gone, rsid, registered, mpc, task>>
      /\ UNCHANGED <<vpc, todo, doomed, vidx, retry>>
  BY <1>1 DEF poolVars, regVars, heapVars, mergeVars, vacVars
<1>3. Linked' = Linked /\ Current' = Current
  BY <1>1, <1>2, LinkedSame DEF Current
<1>4. Nested' /\ Contents'
  BY <1>2, <1>3, Zenon DEF DiskInv, Nested, Contents
<1>5. Sources'
  BY <1>2, Zenon DEF DiskInv, Sources, Name, Has
<1>6. Swept'
  <2>1. ASSUME NEW r PROVE /\ Clean(r)' <=> Clean(r)
                           /\ Dealt(r)' <=> Dealt(r)
    BY <1>2, <1>3 DEF Clean, Scanned, Dealt, Covers
  <2>2. ASSUME NEW g, NEW r PROVE Shows(g, r)' <=> Shows(g, r)
    BY <1>2 DEF Shows
  <2>3. ASSUME NEW r PROVE (\E f \in files' : Named(f, Current') /\ r \in f.rows \ f.mask) <=> Shows(Current, r)
    BY <1>2, <1>3 DEF Shows
  <2>4. (\A r \in gone : Clean(r)) /\ SweptAll
    BY SweptIs DEF DiskInv
  <2>5. SweptDealt'
    BY <1>2, <2>1, <2>4, Zenon DEF SweptAll, SweptDealt
  <2>6. SweptTodo'
    BY <1>2, <1>3, <2>1, <2>2, <2>4 DEF SweptAll, SweptTodo
  <2>7. SweptSent'
    BY <1>2, <2>3, <2>4 DEF SweptAll, SweptSent, Shows
  <2>8. \A r \in gone' : Clean(r)'
    BY <1>2, <2>1, <2>4, Zenon
  <2>9. Swept' <=> (\A r \in gone' : Clean(r)') /\ SweptAll'
    BY DEF Swept, SweptAll, SweptDealt, SweptTodo, SweptSent
  <2> QED
    BY <2>5, <2>6, <2>7, <2>8, <2>9 DEF SweptAll
<1>7. Reloaded'
  BY <1>2, <1>3, Zenon DEF DiskInv, Reloaded, Shows, Awaited
<1>8. Passing'
  BY <1>2 DEF DiskInv, Passing
<1> QED
  BY <1>4, <1>5, <1>6, <1>7, <1>8 DEF DiskInv

\* In the beginning the files are those of the segments in the list, and
\* nothing has been deleted.
LEMMA InitDisk ==
    ASSUME Init
    PROVE  DiskInv
<1>1. /\ \A t \in Merger : mpc[t] = "idle"
      /\ dead = {} /\ gone = {} /\ doomed = {} /\ todo = {} /\ vpc = "idle"
  BY InitVars
<1>2. ASSUME NEW f \in files
      PROVE  /\ \E i \in Linked : Within(f, seg(i).start, seg(i).end)
             /\ f.rows \subseteq RowsOf(f.start .. f.end)
  <2>1. f.start \in 1 .. InitialSid /\ f.end = f.start /\ f.rows = RowsOf({f.start})
    BY InitFiles
  <2> DEFINE i == f.start - 1
  <2>2. i \in 0 .. InitialSid - 1 /\ i + 1 = f.start
    BY <2>1, Constants
  <2> HIDE DEF i
  <2>3. i \in Linked
    BY <2>2, InitList
  <2>4. seg(i).start = f.start /\ seg(i).end = f.start
    BY <2>2, InitSlots DEF First
  <2>5. Within(f, seg(i).start, seg(i).end)
    BY <2>1, <2>4, Constants DEF Within
  <2>6. f.start \in f.start .. f.end
    BY <2>1, Constants
  <2>7. f.rows \subseteq RowsOf(f.start .. f.end)
    BY <2>1, <2>6 DEF RowsOf
  <2> QED
    BY <2>3, <2>5, <2>7
<1>3. Nested /\ Contents
  BY <1>1, <1>2, Zenon DEF Nested, Contents
<1>4. Sources /\ Reloaded
  BY <1>1 DEF Sources, Reloaded
<1>5. Swept
  BY <1>1 DEF Swept
<1>6. Passing
  BY <1>1 DEF Passing
<1> QED
  BY <1>3, <1>4, <1>5, <1>6 DEF DiskInv

\* Wherever the worker stops, a restart finds on disk every row that has not
\* been deleted and none that VACUUM has given back, in whatever order VACUUM
\* writes its bitmaps, merge threads reload them and write what they have made,
\* and the files of a scan are outdated by the time VACUUM gets to them.
THEOREM RestartStaysSound == Spec /\ NoRewind /\ NoGiveUp => []RestartSound
<1> DEFINE I == Inv /\ VersionInv /\ DiskInv
<1>1. Init => I
  BY InitInv, InitVersion, InitDisk
<1>2. I /\ [Next]_vars /\ [insert_idx <= insert_idx']_vars
        /\ [\A t \in Merger : mpc'[t] # "giveup"]_vars => I'
  <2>1. CASE UNCHANGED vars
    BY <2>1, Stutter, VersionStutter, DiskStutter
  <2>2. CASE ~UNCHANGED vars
    <3> SUFFICES ASSUME Inv, VersionInv, DiskInv, Next, insert_idx <= insert_idx',
                        \A t \in Merger : mpc'[t] # "giveup"
                 PROVE  Inv' /\ VersionInv' /\ DiskInv'
      BY <2>2
    <3>1. Inv'
      BY InvStep
    <3>2. NoneGivesUp'
      BY DEF NoneGivesUp
    <3>3. Locked' /\ Newest'
      BY <3>1, <3>2, LockedStep, NewestStep DEF VersionInv
    <3>4. DiskInv'
      BY <3>1, <3>2, DiskStep
    <3> QED
      BY <3>1, <3>2, <3>3, <3>4 DEF VersionInv
  <2> QED
    BY <2>1, <2>2
<1>3. I => RestartSound
  BY RestartBy, SweptIs DEF DiskInv
<1> HIDE DEF I
<1> QED
  BY <1>1, <1>2, <1>3, PTL DEF Spec, NoRewind, NoGiveUp

=============================================================================
