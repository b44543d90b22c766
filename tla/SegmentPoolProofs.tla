-------------------------- MODULE SegmentPoolProofs --------------------------
(***************************************************************************)
(* Proofs about SegmentPool, for any number of merge threads, searches,    *)
(* VACUUMs, segments and slots, in the behaviours in which no cleanup      *)
(* rewinds insert_idx, so that no slot is used a second time.  PoolInv and *)
(* RowsInv are shown to be inductive together.                             *)
(***************************************************************************)
EXTENDS SegmentPool, TLAPS, FiniteSetTheorems, WellFoundedInduction

USE DEF listVars, poolVars, heapVars, regVars, mergeVars, searchVars, vacVars, seg

-----------------------------------------------------------------------------
(* The walk of the list.                                                   *)

\* A set of numbers that is not empty has a least one.
LEMMA Least ==
    ASSUME NEW S \in SUBSET Nat, S # {}
    PROVE  \E x \in S : \A y \in S : x <= y
<1>1. PICK x \in S : \A y \in S : ~(<<y, x>> \in OpToRel(<, Nat))
  BY NatLessThanWellFounded, WFMin, Zenon
<1>2. \A y \in S : ~(y < x)
  BY <1>1 DEF OpToRel
<1> QED
  BY <1>2

\* One step of the walk.
WalkStep(segs, t, i) == IF i \in {NIL, t} THEN NIL ELSE segs[i].next_idx

\* f has the first n steps.
IsWalk(f, segs, h, t, n) ==
    /\ f = [m \in 0 .. n |-> f[m]]
    /\ f[0] = h
    /\ \A m \in 1 .. n : f[m] = WalkStep(segs, t, f[m - 1])

\* There is such a function: the recursion of Walk is well defined.
LEMMA WalkUpTo ==
    ASSUME NEW segs, NEW h, NEW t, NEW n \in Nat
    PROVE  \E f : IsWalk(f, segs, h, t, n)
<1> DEFINE B == {k \in Nat : ~\E f : IsWalk(f, segs, h, t, k)}
<1>1. SUFFICES ASSUME B # {} PROVE FALSE
  OBVIOUS
<1>2. PICK k \in B : \A y \in B : k <= y
  BY <1>1, Least
<1>3. CASE k = 0
  <2>1. IsWalk([m \in 0 .. 0 |-> h], segs, h, t, 0)
    BY DEF IsWalk
  <2> QED
    BY <1>2, <1>3, <2>1
<1>4. CASE k # 0
  <2>1. k - 1 \in Nat /\ k - 1 \notin B
    BY <1>2, <1>4
  <2>2. PICK f : IsWalk(f, segs, h, t, k - 1)
    BY <2>1
  <2> DEFINE g == [m \in 0 .. k |-> IF m = k THEN WalkStep(segs, t, f[k - 1]) ELSE f[m]]
  <2>3. IsWalk(g, segs, h, t, k)
    <3>1. g = [m \in 0 .. k |-> g[m]]
      OBVIOUS
    <3>2. g[0] = h
      BY <1>4, <2>2 DEF IsWalk
    <3>3. ASSUME NEW m \in 1 .. k PROVE g[m] = WalkStep(segs, t, g[m - 1])
      <4>1. CASE m = k
        BY <4>1, <1>4
      <4>2. CASE m # k
        <5>1. m \in 1 .. k - 1 /\ m - 1 \in 0 .. k /\ m - 1 # k /\ m \in 0 .. k
          BY <4>2
        <5>2. f[m] = WalkStep(segs, t, f[m - 1])
          BY <5>1, <2>2 DEF IsWalk
        <5> HIDE DEF WalkStep
        <5> QED
          BY <5>1, <5>2, <4>2
      <4> QED
        BY <4>1, <4>2
    <3> HIDE DEF g
    <3> QED
      BY <3>1, <3>2, <3>3 DEF IsWalk
  <2> QED
    BY <2>3, <1>2
<1> QED
  BY <1>3, <1>4

\* Walk is its set of values.
LEMMA WalkIs ==
    ASSUME NEW segs, NEW h, NEW t
    PROVE  \E f : /\ IsWalk(f, segs, h, t, MAX_SEGMENTS_COUNT)
                  /\ Walk(segs, h, t) = {f[n] : n \in 0 .. MAX_SEGMENTS_COUNT} \ {NIL}
<1> DEFINE N == MAX_SEGMENTS_COUNT
           Def(f) == [n \in 0 .. N |-> IF n = 0 THEN h
                                       ELSE IF f[n - 1] \in {NIL, t} THEN NIL
                                       ELSE segs[f[n - 1]].next_idx]
           walk == CHOOSE f : f = Def(f)
<1>0. N \in Nat
  BY PoolSizeAssumption
<1>1. PICK f : IsWalk(f, segs, h, t, N)
  BY <1>0, WalkUpTo
<1>2. f = Def(f)
  <2>1. \A n \in 0 .. N : f[n] = IF n = 0 THEN h
                                       ELSE IF f[n - 1] \in {NIL, t} THEN NIL
                                       ELSE segs[f[n - 1]].next_idx
    BY <1>0, <1>1, SMTT(40) DEF IsWalk, WalkStep
  <2>2. f = [m \in 0 .. N |-> f[m]]
    BY <1>1 DEF IsWalk
  <2> QED
    BY <2>1, <2>2, Zenon
<1>3. walk = Def(walk)
  BY <1>2
<1>4. IsWalk(walk, segs, h, t, N)
  <2> HIDE DEF walk
  <2>1. \A n \in 0 .. N : walk[n] = IF n = 0 THEN h
                                       ELSE IF walk[n - 1] \in {NIL, t} THEN NIL
                                       ELSE segs[walk[n - 1]].next_idx
    BY <1>3, Zenon
  <2>2. walk = [m \in 0 .. N |-> walk[m]]
    BY <1>3
  <2>3. \A m \in 1 .. N : m # 0 /\ m \in 0 .. N
    BY <1>0
  <2>4. walk[0] = h
    BY <1>0, <2>1
  <2>5. \A m \in 1 .. N : walk[m] = WalkStep(segs, t, walk[m - 1])
    BY <2>1, <2>3 DEF WalkStep
  <2> QED
    BY <2>2, <2>4, <2>5 DEF IsWalk
<1>5. Walk(segs, h, t) = {walk[n] : n \in 0 .. N} \ {NIL}
  BY DEF Walk
<1> HIDE DEF walk
<1> QED
  BY <1>4, <1>5

\* A list that is linked both ways, in the order of the sids, is what the walk
\* goes through: it starts at its head, does not leave it, cannot come back to a
\* slot, and has time enough to get to its tail.
LEMMA WalkChain ==
    ASSUME NEW segs, NEW h, NEW t, NEW L, Chain(segs, h, t, L)
    PROVE  Walk(segs, h, t) = L
<1> DEFINE N == MAX_SEGMENTS_COUNT
<1>0. N \in Nat /\ NIL \notin Idx /\ Idx = 0 .. N - 1
  BY PoolSizeAssumption DEF Idx, NIL
<1>1. PICK f : /\ IsWalk(f, segs, h, t, N)
               /\ Walk(segs, h, t) = {f[n] : n \in 0 .. N} \ {NIL}
  BY WalkIs
<1>a. f[0] = h /\ \A m \in 0 .. N : m # 0 => f[m] = WalkStep(segs, t, f[m - 1])
  <2>1. \A m \in 0 .. N : m # 0 => m \in 1 .. N
    BY <1>0
  <2>2. f[0] = h /\ \A m \in 1 .. N : f[m] = WalkStep(segs, t, f[m - 1])
    BY <1>1, Zenon DEF IsWalk
  <2> QED
    BY <2>1, <2>2, Zenon
<1>2. \A n \in 0 .. N : f[n] \in L \cup {NIL}
  <2> DEFINE B == {n \in 0 .. N : f[n] \notin L \cup {NIL}}
  <2>1. SUFFICES ASSUME B # {} PROVE FALSE
    OBVIOUS
  <2>b. B \in SUBSET Nat
    BY <1>0
  <2>2. PICK n \in B : \A y \in B : n <= y
    <3> HIDE DEF B
    <3> QED
      BY <2>b, <2>1, Least
  <2>3. n # 0
    BY <1>a, <2>2 DEF Chain
  <2>4. n - 1 \in 0 .. N /\ n - 1 \notin B
    BY <2>2, <2>3, <1>0
  <2>5. f[n] = WalkStep(segs, t, f[n - 1]) /\ f[n - 1] \in L \cup {NIL}
    BY <1>a, <2>3, <2>4
  <2> QED
    BY <2>2, <2>5 DEF WalkStep, Chain
<1>3. \A n \in 0 .. N : f[n] # NIL =>
        \A m \in 0 .. N : m < n => f[m] # NIL /\ segs[f[m]].start < segs[f[n]].start
  <2> DEFINE B == {n \in 0 .. N : f[n] # NIL /\
                     \E m \in 0 .. N : m < n /\ ~(f[m] # NIL /\ segs[f[m]].start < segs[f[n]].start)}
  <2>1. SUFFICES ASSUME B # {} PROVE FALSE
    OBVIOUS
  <2>b. B \in SUBSET Nat
    BY <1>0
  <2>2. PICK n \in B : \A y \in B : n <= y
    <3> HIDE DEF B
    <3> QED
      BY <2>b, <2>1, Least
  <2>3. PICK m \in 0 .. N : m < n /\ ~(f[m] # NIL /\ segs[f[m]].start < segs[f[n]].start)
    OBVIOUS
  <2>4. n - 1 \in 0 .. N /\ n - 1 \notin B /\ m <= n - 1 /\ n # 0
    BY <2>2, <2>3, <1>0
  <2>5. f[n] = WalkStep(segs, t, f[n - 1]) /\ f[n] # NIL
    BY <1>a, <2>4
  <2>6. f[n - 1] \in L \ {t} /\ f[n] = segs[f[n - 1]].next_idx /\ f[n - 1] # NIL
    BY <2>5, <2>4, <1>2 DEF WalkStep
  <2>7. segs[f[n - 1]].start < segs[f[n]].start /\ segs[f[n - 1]].start \in Nat
        /\ segs[f[n]].start \in Nat
    BY <2>6 DEF Chain
  <2>8. f[m] # NIL /\ (m # n - 1 => segs[f[m]].start < segs[f[n - 1]].start)
    BY <2>4, <2>6, <2>3
  <2>9. f[m] \in L /\ segs[f[m]].start \in Nat
    BY <2>8, <1>2 DEF Chain
  <2> QED
    BY <2>3, <2>7, <2>8, <2>9
<1>4. f[N] = NIL
  <2>1. SUFFICES ASSUME f[N] # NIL PROVE FALSE
    OBVIOUS
  <2> DEFINE g == [n \in 0 .. N |-> f[n]]
  <2>2. \A n \in 0 .. N : f[n] \in Idx
    <3>1. \A n \in 0 .. N : f[n] # NIL
      <4>1. \A n \in 0 .. N : n < N \/ n = N
        BY <1>0
      <4>2. N \in 0 .. N
        BY <1>0
      <4> QED
        BY <4>1, <4>2, <1>3, <2>1
    <3>2. L \subseteq Idx
      BY DEF Chain
    <3> QED
      BY <1>2, <3>1, <3>2
  <2>3. g \in [0 .. N -> Idx]
    BY <2>2
  <2>4. /\ IsFiniteSet(0 .. N) /\ IsFiniteSet(Idx)
        /\ Cardinality(0 .. N) = N + 1 /\ Cardinality(Idx) = N
    <3>1. IsFiniteSet(0 .. N) /\ Cardinality(0 .. N) = IF 0 > N THEN 0 ELSE N - 0 + 1
      BY <1>0, FS_Interval
    <3>2. IsFiniteSet(0 .. N - 1) /\ Cardinality(0 .. N - 1) = IF 0 > N - 1 THEN 0 ELSE N - 1 - 0 + 1
      BY <1>0, FS_Interval
    <3> QED
      BY <1>0, <3>1, <3>2
  <2>5. Cardinality(Idx) < Cardinality(0 .. N)
    BY <1>0, <2>4
  <2>6. PICK x, y \in 0 .. N : x # y /\ g[x] = g[y]
    <3> HIDE DEF g, N
    <3> QED
      BY <2>3, <2>4, <2>5, FS_PigeonHole, ZenonT(40)
  <2>7. f[x] = f[y] /\ f[x] # NIL /\ f[x] \in L
    BY <2>2, <2>6, <1>0, <1>2
  <2>8. segs[f[x]].start \in Nat
    BY <2>7 DEF Chain
  <2> QED
    BY <1>0, <1>3, <2>6, <2>7, <2>8
<1>5. ASSUME NEW i \in L PROVE \E n \in 0 .. N : f[n] = i
  <2> DEFINE B == {s \in Nat : \E j \in L : segs[j].start = s /\ ~\E n \in 0 .. N : f[n] = j}
  <2>1. SUFFICES ASSUME B # {} PROVE FALSE
    <3>1. segs[i].start \in Nat
      BY DEF Chain
    <3> QED
      BY <3>1
  <2>2. PICK s \in B : \A y \in B : s <= y
    BY <2>1, Least
  <2>3. PICK j \in L : segs[j].start = s /\ ~\E n \in 0 .. N : f[n] = j
    OBVIOUS
  <2>4. j # h
    BY <1>0, <1>a, <2>3
  <2> DEFINE p == segs[j].prev_idx
  <2>5. /\ p \in L /\ p # t /\ segs[p].next_idx = j
        /\ segs[p].start \in Nat /\ segs[p].start < s /\ p # NIL
    <3>1. p \in L \ {t} /\ segs[p].next_idx = j
      BY <2>3, <2>4 DEF Chain
    <3>2. /\ segs[p].start \in Nat /\ segs[p].end \in Nat /\ segs[p].start <= segs[p].end
          /\ segs[j].start = segs[p].end + 1 /\ L \subseteq Idx
      BY <3>1 DEF Chain
    <3> HIDE DEF p
    <3> QED
      BY <3>1, <3>2, <2>3, <1>0, SMTT(40)
  <2>6. PICK n \in 0 .. N : f[n] = p
    BY <2>2, <2>5
  <2>7. n # N /\ n + 1 \in 0 .. N /\ (n + 1) - 1 = n
    BY <1>0, <1>4, <2>5, <2>6
  <2>8. f[n + 1] = WalkStep(segs, t, f[n])
    BY <1>a, <2>7
  <2> QED
    BY <2>3, <2>5, <2>6, <2>7, <2>8 DEF WalkStep
<1> QED
  <2>1. NIL \notin L
    BY <1>0 DEF Chain
  <2> QED
    BY <1>1, <1>2, <1>5, <2>1

-----------------------------------------------------------------------------
(* Constants and records.                                                  *)

\* The constants, and the ranges made of them.
LEMMA Constants ==
    /\ MAX_SEGMENTS_COUNT \in Nat /\ Idx = 0 .. MAX_SEGMENTS_COUNT - 1
    /\ NIL \notin Idx /\ NIL = -1 /\ AnyIdx = Idx \cup {NIL}
    /\ Idx \subseteq Nat
    /\ InitialSid \in Nat \ {0} /\ InitialSid <= MAX_SEGMENTS_COUNT
    /\ LastSid \in Nat /\ InitialSid <= LastSid
    /\ Sid = 1 .. LastSid /\ AnySid = 0 .. LastSid
    /\ Sid \subseteq AnySid /\ AnySid \subseteq Nat
  BY PoolSizeAssumption DEF Idx, NIL, AnyIdx, Sid, AnySid

\* RowsOf keeps the rows of the given memtables.
LEMMA RowFacts ==
    /\ \A r \in Row : r[1] \in Sid
    /\ \A S : RowsOf(S) \subseteq Row
    /\ \A S : \A r \in RowsOf(S) : r[1] \in S
    /\ \A S : \A r \in Row : r[1] \in S => r \in RowsOf(S)
  BY DEF Row, RowsOf

\* A slot as the pool was created with it has the type of a segment.
LEMMA EmptyType ==
    /\ EmptySegment \in SegmentType
    /\ ~EmptySegment.in_used /\ EmptySegment.ref_count = 0
    /\ ~EmptySegment.is_compacting /\ EmptySegment.load_state = "none"
<1>1. NIL \in AnyIdx /\ 0 \in AnySid
  BY Constants
<1> QED
  BY <1>1 DEF EmptySegment, SegmentType

\* The fields of a segment.
LEMMA SegmentFields ==
    ASSUME NEW g \in SegmentType
    PROVE  /\ g.in_used \in BOOLEAN /\ g.ref_count \in Nat
           /\ g.prev_idx \in AnyIdx /\ g.next_idx \in AnyIdx
           /\ g.start \in AnySid /\ g.end \in AnySid /\ g.version \in Nat
           /\ g.rows \subseteq Row /\ g.mask \subseteq Row
           /\ g.is_compacting \in BOOLEAN
           /\ g.load_state \in {"none", "mmap", "full"}
           /\ g.mutex \in Merger \cup {"vacuum", NoThread}
  BY DEF SegmentType

\* cleanup_flushed_segment.
LEMMA CleanedIs ==
    ASSUME NEW g \in SegmentType
    PROVE  /\ Cleaned(g) \in SegmentType
           /\ ~Cleaned(g).in_used /\ Cleaned(g).ref_count = 0
           /\ Cleaned(g).start = g.start /\ Cleaned(g).end = g.end
           /\ Cleaned(g).version = g.version
           /\ Cleaned(g).is_compacting = g.is_compacting
           /\ Cleaned(g).load_state = g.load_state
<1>1. NIL \in AnyIdx
  BY Constants
<1> QED
  BY <1>1 DEF Cleaned, SegmentType

\* A reference less, of a segment that has one.
LEMMA DroppedIs ==
    ASSUME NEW g \in SegmentType, g.ref_count > 0
    PROVE  /\ Dropped(g) \in SegmentType
           /\ Dropped(g).ref_count = g.ref_count - 1
           /\ Dropped(g).start = g.start /\ Dropped(g).end = g.end
           /\ Dropped(g).version = g.version
           /\ Dropped(g).is_compacting = g.is_compacting
           /\ Dropped(g).load_state = g.load_state
           /\ g.ref_count # 1 =>
                /\ Dropped(g).in_used = g.in_used /\ Dropped(g).rows = g.rows
                /\ Dropped(g).mask = g.mask
           /\ g.ref_count = 1 => ~Dropped(g).in_used
<1>1. CASE g.ref_count = 1
  BY <1>1, CleanedIs DEF Dropped
<1>2. CASE g.ref_count # 1
  BY <1>2 DEF Dropped, SegmentType
<1> QED
  BY <1>1, <1>2

\* load_and_set_segment.
LEMMA LoadedIs ==
    ASSUME NEW g \in SegmentType, NEW f, NEW state \in {"none", "mmap", "full"},
           f.start \in AnySid, f.end \in AnySid, f.version \in Nat,
           f.rows \subseteq Row, f.mask \subseteq Row
    PROVE  /\ Loaded(g, f, state) \in SegmentType
           /\ Loaded(g, f, state).in_used /\ ~Loaded(g, f, state).is_compacting
           /\ Loaded(g, f, state).start = f.start /\ Loaded(g, f, state).end = f.end
           /\ Loaded(g, f, state).version = f.version
           /\ Loaded(g, f, state).rows = f.rows /\ Loaded(g, f, state).mask = f.mask
           /\ Loaded(g, f, state).load_state = state
           /\ Loaded(g, f, state).ref_count = g.ref_count
  BY DEF Loaded, SegmentType

\* reserve_flushed_segment returns the slot at insert_idx.
LEMMA ReservedIs ==
    ASSUME TypeOK, Reserving, Reserved # NIL
    PROVE  Reserved = insert_idx /\ insert_idx \in Idx /\ seg(insert_idx) = EmptySegment
<1> DEFINE free == ReserveFrom(insert_idx)
<1>1. free = {i \in Idx : i >= insert_idx}
  BY EmptyType DEF ReserveFrom, Reserving
<1>2. free # {}
  BY DEF Reserved
<1>3. insert_idx \in Idx
  BY <1>1, <1>2, Constants DEF TypeOK
<1>4. insert_idx \in free /\ \A j \in free : insert_idx <= j
  BY <1>1, <1>3, Constants
<1>5. \A i, j \in free : i <= j /\ j <= i => i = j
  BY <1>1, Constants
<1>6. Reserved = CHOOSE i \in free : \A j \in free : i <= j
  BY <1>2 DEF Reserved
<1>7. Reserved \in free /\ \A j \in free : Reserved <= j
  BY <1>4, <1>6
<1> QED
  BY <1>3, <1>4, <1>5, <1>7, Constants DEF Reserving

-----------------------------------------------------------------------------
(* References.                                                             *)

Inv == PoolInv /\ RowsInv

\* The searches that pin a slot can be counted.
LEMMA PinningFinite ==
    ASSUME NEW i
    PROVE  IsFiniteSet(Pinning(i)) /\ Cardinality(Pinning(i)) \in Nat
<1>1. IsFiniteSet(Searcher) /\ Pinning(i) \subseteq Searcher
  BY PoolSizeAssumption DEF Pinning
<1> QED
  BY <1>1, FS_Subset, FS_CardinalityType

\* Who has a reference is counted.
LEMMA References ==
    ASSUME TypeOK, RefExact, NEW i \in Idx
    PROVE  /\ i \in Linked => seg(i).ref_count > 0
           /\ \A x \in Searcher : \A p \in pins[x] : p[1] = i => seg(i).ref_count > 0
           /\ vidx = i /\ vpc \in {"lock", "apply", "unpin"} => seg(i).ref_count > 0
           /\ seg(i).ref_count = 1 /\ i \in Linked =>
                /\ Pinning(i) = {}
                /\ ~(vidx = i /\ vpc \in {"lock", "apply", "unpin"})
<1>1. Cardinality(Pinning(i)) \in Nat /\ IsFiniteSet(Pinning(i))
  BY PinningFinite
<1>2. /\ One(i \in Linked) \in {0, 1} /\ (i \in Linked => One(i \in Linked) = 1)
      /\ One(vidx = i /\ vpc \in {"lock", "apply", "unpin"}) \in {0, 1}
      /\ (vidx = i /\ vpc \in {"lock", "apply", "unpin"} =>
            One(vidx = i /\ vpc \in {"lock", "apply", "unpin"}) = 1)
  BY DEF One
<1>3. seg(i).ref_count = One(i \in Linked) + Cardinality(Pinning(i))
                              + One(vidx = i /\ vpc \in {"lock", "apply", "unpin"})
  BY DEF RefExact
<1>4. Pinning(i) # {} => Cardinality(Pinning(i)) > 0
  BY <1>1, FS_EmptySet
<1>5. \A x \in Searcher : \A p \in pins[x] : p[1] = i => Pinning(i) # {}
  BY DEF Pinning
<1>6. /\ i \in Linked => seg(i).ref_count > 0
      /\ vidx = i /\ vpc \in {"lock", "apply", "unpin"} => seg(i).ref_count > 0
      /\ Pinning(i) # {} => seg(i).ref_count > 0
  BY <1>1, <1>2, <1>3, <1>4
<1>7. seg(i).ref_count = 1 /\ i \in Linked => /\ Pinning(i) = {}
                /\ ~(vidx = i /\ vpc \in {"lock", "apply", "unpin"})
  BY <1>1, <1>2, <1>3, <1>4
<1> QED
  BY <1>5, <1>6, <1>7

-----------------------------------------------------------------------------
(* What a step does to the pool.                                           *)

\* All but the reference count, the mutex, the bitmap and the mark of a merge.
Kept(i) ==
    LET g == flushed_segments[i]
        n == flushed_segments'[i]
    IN /\ n.in_used = g.in_used /\ n.prev_idx = g.prev_idx /\ n.next_idx = g.next_idx
       /\ n.start = g.start /\ n.end = g.end /\ n.version = g.version
       /\ n.rows = g.rows /\ n.load_state = g.load_state

Marks ==
    /\ UNCHANGED listVars
    /\ flushed_segments' \in [Idx -> SegmentType]
    /\ \A i \in Idx : Kept(i)
    /\ \A i \in Idx : ~Used(i) => flushed_segments'[i] = seg(i)

Reserves ==
    /\ insert_idx \in Idx /\ seg(insert_idx) = EmptySegment
    /\ insert_idx' = insert_idx + 1 /\ head_idx' = head_idx /\ tail_idx' = tail_idx
    /\ flushed_segments' = [flushed_segments EXCEPT ![insert_idx].in_used = TRUE]

Cleans(i) ==
    /\ UNCHANGED listVars
    /\ Used(i) /\ seg(i).ref_count = 0
    /\ flushed_segments' = [flushed_segments EXCEPT ![i] = Cleaned(@)]

\* Nothing happens.
LEMMA UntouchedMarks ==
    ASSUME TypeOK, UNCHANGED poolVars
    PROVE  Marks
  BY DEF TypeOK, Marks, Kept

\* A reservation that succeeds takes the slot at insert_idx.
LEMMA ReservedReserves ==
    ASSUME TypeOK, Reserving, Reserved # NIL, insert_idx' = Reserved + 1,
           head_idx' = head_idx, tail_idx' = tail_idx,
           flushed_segments' = [flushed_segments EXCEPT ![Reserved].in_used = TRUE]
    PROVE  Reserves
  BY ReservedIs DEF Reserves

\* The check of a count that has come down to 0, unless insert_idx is rewound.
LEMMA CheckCleans ==
    ASSUME TypeOK, NEW i, Used(i), CheckDropped(i), insert_idx <= insert_idx',
           head_idx' = head_idx, tail_idx' = tail_idx
    PROVE  (Marks /\ UNCHANGED flushed_segments) \/ Cleans(i)
<1>1. insert_idx \in Nat /\ i \in Nat
  BY Constants DEF TypeOK, Used
<1>2. CASE seg(i).ref_count = 0
  BY <1>1, <1>2 DEF CheckDropped, Cleans
<1>3. CASE seg(i).ref_count # 0
  BY <1>3, UntouchedMarks DEF CheckDropped
<1> QED
  BY <1>2, <1>3

\* Claiming, locking, unlocking and giving up change no more than the marks of
\* slots that are used.
LEMMA MergeMarks ==
    ASSUME Inv, NEW t \in Merger,
           \/ MergeClaim(t) \/ MergeLock(t) \/ MergeLock2(t) \/ MergeGiveUp(t)
           \/ MergeUnlock(t)
    PROVE  Marks
<1>1. TypeOK /\ InHand
  BY DEF Inv, PoolInv
<1>2. \A i \in Idx : seg(i) \in SegmentType
  BY <1>1 DEF TypeOK
<1>a. mpc[t] # "idle"
  BY DEF MergeClaim, MergeLock, MergeLock2, MergeGiveUp, MergeUnlock, MergeAt
<1>b. Used(task[t].lo) /\ Used(task[t].hi)
  BY <1>1, <1>a DEF InHand
<1>3. CASE MergeClaim(t)
  <2>1. CASE UNCHANGED flushed_segments
    BY <1>1, <1>3, <2>1, UntouchedMarks DEF MergeClaim
  <2>2. CASE flushed_segments' =
                [i \in Idx |-> IF i \in {task[t].lo, task[t].hi}
                               THEN [seg(i) EXCEPT !.is_compacting = TRUE]
                               ELSE seg(i)]
    <3>1. \A g \in SegmentType : [g EXCEPT !.is_compacting = TRUE] \in SegmentType
      BY DEF SegmentType
    <3>2. UNCHANGED listVars
      BY <1>3 DEF MergeClaim
    <3>3. flushed_segments' \in [Idx -> SegmentType]
      BY <1>2, <2>2, <3>1
    <3>4. \A i \in Idx : Kept(i)
      BY <1>2, <2>2 DEF Kept, SegmentType
    <3>5. \A i \in Idx : ~Used(i) => flushed_segments'[i] = seg(i)
      BY <1>b, <2>2
    <3> QED
      BY <3>2, <3>3, <3>4, <3>5 DEF Marks
  <2> QED
    BY <1>3, <2>1, <2>2 DEF MergeClaim
<1>4. ASSUME NEW j, Used(j), flushed_segments' = [flushed_segments EXCEPT ![j].mutex = t],
             UNCHANGED listVars
      PROVE  Marks
  <2>1. \A g \in SegmentType : [g EXCEPT !.mutex = t] \in SegmentType
    BY DEF SegmentType
  <2>2. flushed_segments' \in [Idx -> SegmentType]
    BY <1>1, <1>2, <1>4, <2>1 DEF TypeOK
  <2>3. \A i \in Idx : Kept(i)
    BY <1>1, <1>2, <1>4 DEF Kept, SegmentType, TypeOK
  <2>4. \A i \in Idx : ~Used(i) => flushed_segments'[i] = seg(i)
    BY <1>1, <1>4 DEF TypeOK
  <2> QED
    BY <1>4, <2>2, <2>3, <2>4 DEF Marks
<1>5. CASE MergeLock(t)
  BY <1>4, <1>5, <1>b DEF MergeLock
<1>6. CASE MergeLock2(t)
  BY <1>4, <1>6, <1>b DEF MergeLock2
<1>7. ASSUME NEW k, Used(k.lo), Used(k.hi), NEW c \in BOOLEAN, flushed_segments' = Unlocked(k, c),
             UNCHANGED listVars
      PROVE  Marks
  <2>1. \A g \in SegmentType :
          [g EXCEPT !.mutex = NoThread, !.is_compacting = @ /\ c] \in SegmentType
    BY <1>7, ZenonT(40) DEF SegmentType
  <2>2. flushed_segments' \in [Idx -> SegmentType]
    BY <1>2, <1>7, <2>1 DEF Unlocked
  <2>3. \A i \in Idx : Kept(i)
    BY <1>2, <1>7, ZenonT(40) DEF Kept, SegmentType, Unlocked
  <2>4. \A i \in Idx : ~Used(i) => flushed_segments'[i] = seg(i)
    BY <1>7 DEF Unlocked
  <2> QED
    BY <1>7, <2>2, <2>3, <2>4 DEF Marks
<1>8. CASE MergeGiveUp(t)
  BY <1>7, <1>8, <1>b DEF MergeGiveUp
<1>9. CASE MergeUnlock(t)
  BY <1>7, <1>9, <1>b DEF MergeUnlock
<1> QED
  BY <1>3, <1>5, <1>6, <1>8, <1>9

-----------------------------------------------------------------------------
(* Segment files.                                                          *)

\* A set of numbers that is not empty and has a bound has a greatest one.
LEMMA Greatest ==
    ASSUME NEW S \in SUBSET Nat, S # {}, NEW n \in Nat, \A x \in S : x <= n
    PROVE  \E x \in S : \A y \in S : y <= x
<1> DEFINE D == {n - x : x \in S}
<1>1. D \in SUBSET Nat /\ D # {}
  <2>1. \A x \in S : n - x \in Nat
    OBVIOUS
  <2> QED
    BY <2>1
<1>2. PICK d \in D : \A y \in D : d <= y
  <2> HIDE DEF D
  <2> QED
    BY <1>1, Least
<1>3. PICK x \in S : d = n - x
  OBVIOUS
<1>4. \A y \in S : n - x <= n - y
  BY <1>2, <1>3
<1> QED
  BY <1>4

\* The versions of a segment are numbers, and those of its files.
LEMMA VersionFacts ==
    ASSUME TypeOK, NEW s, NEW e
    PROVE  /\ Versions(s, e) \subseteq Nat
           /\ \A f \in files : f.start = s /\ f.end = e => f.version \in Versions(s, e)
           /\ \A v \in Versions(s, e) :
                \E f \in files : f.start = s /\ f.end = e /\ f.version = v
<1>1. \A f \in files : f.version \in Nat
  BY DEF TypeOK, FileType
<1> QED
  BY <1>1 DEF Versions

\* The latest version is that of a file if there is one, and greater than any.
LEMMA LatestIs ==
    ASSUME TypeOK, FilesInv, NEW s, NEW e
    PROVE  /\ LatestVersion(s, e) \in Nat
           /\ LatestVersion(s, e) \in Versions(s, e) \cup {0}
           /\ \A v \in Versions(s, e) : v <= LatestVersion(s, e)
           /\ Versions(s, e) # {} => LatestVersion(s, e) \in Versions(s, e)
           /\ LatestVersion(s, e) <= Cardinality(files)
           /\ Cardinality(files) \in Nat
<1> DEFINE S == Versions(s, e) \cup {0}
<1>1. S \subseteq Nat /\ S # {}
  BY VersionFacts
<1>2. Cardinality(files) \in Nat
  BY FS_CardinalityType DEF FilesInv
<1>3. \A v \in S : v <= Cardinality(files)
  BY <1>2, VersionFacts DEF FilesInv
<1>4. \E x \in S : \A y \in S : y <= x
  <2> HIDE DEF S
  <2> QED
    BY <1>1, <1>2, <1>3, Greatest
<1>5. \E v \in S : \A w \in Versions(s, e) : w <= v
  BY <1>4
<1>6. LatestVersion(s, e) \in S /\ \A w \in Versions(s, e) : w <= LatestVersion(s, e)
  BY <1>5 DEF LatestVersion
<1>7. Versions(s, e) # {} => LatestVersion(s, e) \in Versions(s, e)
  <2>1. ASSUME NEW w \in Versions(s, e), 0 \notin Versions(s, e)
        PROVE  LatestVersion(s, e) # 0
    BY <1>1, <1>6, <2>1
  <2> QED
    BY <1>6, <2>1
<1> QED
  BY <1>1, <1>2, <1>3, <1>6, <1>7

\* Loading a version that is there.
LEMMA LoadIs ==
    ASSUME TypeOK, NEW s, NEW e, NEW v \in Versions(s, e)
    PROVE  /\ Load(s, e, v) \in files
           /\ Load(s, e, v).start = s /\ Load(s, e, v).end = e
           /\ Load(s, e, v).version = v
           /\ Load(s, e, v).rows \subseteq Row /\ Load(s, e, v).mask \subseteq Row
           /\ v \in Nat
<1>1. \E f \in files : f.start = s /\ f.end = e /\ f.version = v
  BY VersionFacts
<1>2. Load(s, e, v) \in files /\ Load(s, e, v).start = s /\ Load(s, e, v).end = e
      /\ Load(s, e, v).version = v
  BY <1>1 DEF Load
<1>3. v \in Nat
  BY VersionFacts
<1> QED
  BY <1>2, <1>3 DEF TypeOK, FileType

\* The file of a segment that is in use.
LEMMA FiledIs ==
    ASSUME TypeOK, FilesInv, NEW s, NEW e, NEW v, NEW rows, Filed(s, e, v, rows)
    PROVE  /\ v \in Versions(s, e) /\ Load(s, e, v).rows = rows
           /\ LatestVersion(s, e) \in Versions(s, e)
<1>1. PICK f \in files : f.start = s /\ f.end = e /\ f.version = v /\ f.rows = rows
  BY DEF Filed
<1>2. v \in Versions(s, e)
  BY <1>1, VersionFacts
<1>3. Load(s, e, v) = f
  BY <1>1, <1>2, LoadIs DEF FilesInv
<1> QED
  BY <1>1, <1>2, <1>3, LatestIs

\* find_segment_by_sids.
LEMMA FindIs ==
    ASSUME NEW s, NEW e, FindBySids(s, e) # NIL
    PROVE  /\ FindBySids(s, e) \in Linked
           /\ seg(FindBySids(s, e)).start = s /\ seg(FindBySids(s, e)).end = e
<1> DEFINE hits == {i \in Linked : seg(i).in_used /\ seg(i).start = s /\ seg(i).end = e}
<1>1. hits # {} /\ FindBySids(s, e) = CHOOSE i \in hits : TRUE
  BY DEF FindBySids
<1> QED
  BY <1>1

\* The pinned segments and the one that VACUUM works on are in use.
LEMMA PinnedFacts ==
    ASSUME Inv
    PROVE  /\ Linked \subseteq Idx
           /\ \A i \in Linked : Used(i)
           /\ \A x \in Searcher : \A p \in pins[x] : Used(p[1])
           /\ vpc \in {"lock", "apply", "unpin"} => Used(vidx)
           /\ \A x \in Searcher : \A p \in pins[x] :
                p[1] \in Idx /\ seg(p[1]).ref_count > 0
           /\ vpc \in {"lock", "apply", "unpin"} =>
                vidx \in Idx /\ seg(vidx).ref_count > 0
           /\ \A i \in Idx : seg(i) \in SegmentType
           /\ \A i \in Linked : seg(i).ref_count > 0 /\ seg(i).in_used
<1>1. TypeOK /\ RefExact /\ InHand /\ ListInv /\ SegmentsInv
  BY DEF Inv, PoolInv, RowsInv
<1>2. Linked \subseteq Idx
  BY <1>1 DEF ListInv, Chain
<1>3. \A x \in Searcher : \A p \in pins[x] : p[1] \in Idx
  BY <1>1 DEF InHand, Used
<1>4. vpc \in {"lock", "apply", "unpin"} => vidx \in Idx
  BY <1>1 DEF InHand, Used
<1>5. \A i \in Linked : seg(i).ref_count > 0
  BY <1>1, <1>2, References
<1>6. \A x \in Searcher : \A p \in pins[x] : seg(p[1]).ref_count > 0
  BY <1>1, <1>3, References
<1>7. vpc \in {"lock", "apply", "unpin"} => seg(vidx).ref_count > 0
  BY <1>1, <1>4, References
<1>8. \A i \in Linked : seg(i).in_used
  BY <1>1, <1>2, <1>5 DEF SegmentsInv
<1>9. \A i \in Idx : seg(i) \in SegmentType
  BY <1>1 DEF TypeOK
<1>10. /\ \A i \in Linked : Used(i)
       /\ \A x \in Searcher : \A p \in pins[x] : Used(p[1])
       /\ vpc \in {"lock", "apply", "unpin"} => Used(vidx)
  BY <1>1 DEF InHand
<1> QED
  BY <1>2, <1>3, <1>4, <1>5, <1>6, <1>7, <1>8, <1>9, <1>10

\* What they may do to one slot.
LEMMA OneMarks ==
    ASSUME TypeOK, UNCHANGED listVars, NEW j \in Idx, Used(j), NEW n \in SegmentType,
           LET g == flushed_segments[j] IN
           /\ n.in_used = g.in_used /\ n.prev_idx = g.prev_idx /\ n.next_idx = g.next_idx
           /\ n.start = g.start /\ n.end = g.end /\ n.version = g.version
           /\ n.rows = g.rows /\ n.load_state = g.load_state,
           flushed_segments' = [flushed_segments EXCEPT ![j] = n]
    PROVE  Marks
<1>1. flushed_segments' \in [Idx -> SegmentType]
  BY DEF TypeOK
<1>2. \A i \in Idx : Kept(i)
  BY DEF Kept, TypeOK
<1>3. \A i \in Idx : ~Used(i) => flushed_segments'[i] = seg(i)
  BY DEF TypeOK
<1> QED
  BY <1>1, <1>2, <1>3 DEF Marks

\* Searches change no more than the reference counts of slots that are used.
LEMMA SearchMarks ==
    ASSUME Inv, NEW x \in Searcher, SearchPin(x) \/ SearchDrop(x)
    PROVE  Marks
<1>1. TypeOK
  BY DEF Inv, PoolInv
<1>2. CASE SearchPin(x)
  <2> DEFINE walk == {i \in Linked : seg(i).in_used}
  <2>1. /\ flushed_segments' =
             [i \in Idx |-> IF i \in walk THEN [seg(i) EXCEPT !.ref_count = @ + 1]
                            ELSE seg(i)]
        /\ UNCHANGED listVars
    BY <1>2 DEF SearchPin, PinAll
  <2> HIDE DEF walk
  <2>2. \A g \in SegmentType : [g EXCEPT !.ref_count = @ + 1] \in SegmentType
    BY DEF SegmentType
  <2>3. flushed_segments' \in [Idx -> SegmentType]
    BY <2>1, <2>2, PinnedFacts
  <2>4. \A i \in Idx : Kept(i)
    BY <2>1, PinnedFacts DEF Kept, SegmentType
  <2>5. \A i \in Idx : ~Used(i) => flushed_segments'[i] = seg(i)
    BY <2>1, PinnedFacts DEF walk
  <2> QED
    BY <2>1, <2>3, <2>4, <2>5 DEF Marks
<1>3. CASE SearchDrop(x)
  <2>1. PICK p \in pins[x] :
          flushed_segments' = [flushed_segments EXCEPT ![p[1]].ref_count = @ - 1]
    BY <1>3 DEF SearchDrop
  <2>2. UNCHANGED listVars
    BY <1>3 DEF SearchDrop
  <2>3. p[1] \in Idx /\ Used(p[1]) /\ seg(p[1]) \in SegmentType /\ seg(p[1]).ref_count > 0
    BY PinnedFacts
  <2> DEFINE n == [seg(p[1]) EXCEPT !.ref_count = @ - 1]
  <2>4. n \in SegmentType
    BY <2>3 DEF SegmentType
  <2>5. flushed_segments' = [flushed_segments EXCEPT ![p[1]] = n]
    BY <2>1
  <2>6. LET g == flushed_segments[p[1]] IN
           /\ n.in_used = g.in_used /\ n.prev_idx = g.prev_idx /\ n.next_idx = g.next_idx
           /\ n.start = g.start /\ n.end = g.end /\ n.version = g.version
           /\ n.rows = g.rows /\ n.load_state = g.load_state
    BY <2>3 DEF SegmentType
  <2> HIDE DEF n
  <2> QED
    BY <1>1, <2>2, <2>3, <2>4, <2>5, <2>6, OneMarks
<1> QED
  BY <1>2, <1>3

\* So do the steps of SEGMENT_UPDATE_VACUUM, with a mutex and a bitmap.
LEMMA VacuumMarks ==
    ASSUME Inv, UpdateFind \/ UpdateLock \/ UpdateApply \/ UpdateDrop
    PROVE  Marks
<1>1. TypeOK /\ FilesInv /\ SegmentsInv
  BY DEF Inv, PoolInv, RowsInv
<1>2. ASSUME NEW j \in Idx, Used(j), NEW r \in Nat, UNCHANGED listVars,
             flushed_segments' = [flushed_segments EXCEPT ![j].ref_count = r]
      PROVE  Marks
  <2>1. seg(j) \in SegmentType
    BY PinnedFacts
  <2> DEFINE n == [seg(j) EXCEPT !.ref_count = r]
  <2>2. n \in SegmentType
    BY <2>1 DEF SegmentType
  <2>3. flushed_segments' = [flushed_segments EXCEPT ![j] = n]
    BY <1>2
  <2>4. LET g == flushed_segments[j] IN
           /\ n.in_used = g.in_used /\ n.prev_idx = g.prev_idx /\ n.next_idx = g.next_idx
           /\ n.start = g.start /\ n.end = g.end /\ n.version = g.version
           /\ n.rows = g.rows /\ n.load_state = g.load_state
    BY <2>1 DEF SegmentType
  <2> HIDE DEF n
  <2> QED
    BY <1>1, <1>2, <2>2, <2>3, <2>4, OneMarks
<1>3. CASE UpdateFind
  <2> DEFINE i == FindBySids(Current.start, Current.end)
  <2>1. CASE UNCHANGED flushed_segments
    BY <1>1, <1>3, <2>1, UntouchedMarks DEF UpdateFind
  <2>2. CASE i # NIL /\ flushed_segments' = [flushed_segments EXCEPT ![i].ref_count = @ + 1]
    <3>1. i \in Idx /\ Used(i)
      BY <2>2, FindIs, PinnedFacts
    <3> HIDE DEF i
    <3>2. seg(i).ref_count + 1 \in Nat
      BY <3>1, PinnedFacts, SegmentFields
    <3>3. UNCHANGED listVars
      BY <1>3 DEF UpdateFind
    <3> QED
      BY <1>2, <2>2, <3>1, <3>2, <3>3
  <2> QED
    BY <1>3, <2>1, <2>2 DEF UpdateFind
<1>4. CASE UpdateDrop
  <2>1. vidx \in Idx /\ Used(vidx) /\ seg(vidx).ref_count > 0 /\ seg(vidx).ref_count \in Nat
    BY <1>4, PinnedFacts, SegmentFields DEF UpdateDrop, VacuumAt
  <2>2. flushed_segments' = [flushed_segments EXCEPT ![vidx].ref_count = @ - 1]
        /\ UNCHANGED listVars
    BY <1>4 DEF UpdateDrop
  <2>3. seg(vidx).ref_count - 1 \in Nat
    BY <2>1
  <2> QED
    BY <1>2, <2>1, <2>2, <2>3
<1>5. CASE UpdateLock
  <2>1. /\ vidx \in Idx /\ Used(vidx) /\ seg(vidx) \in SegmentType
        /\ flushed_segments' = [flushed_segments EXCEPT ![vidx].mutex = "vacuum"]
        /\ UNCHANGED listVars
    BY <1>5, PinnedFacts DEF UpdateLock, UpdateCheck, VacuumAt
  <2> DEFINE n == [seg(vidx) EXCEPT !.mutex = "vacuum"]
  <2>2. n \in SegmentType
    BY <2>1 DEF SegmentType
  <2>3. flushed_segments' = [flushed_segments EXCEPT ![vidx] = n]
    BY <2>1
  <2>4. LET g == flushed_segments[vidx] IN
           /\ n.in_used = g.in_used /\ n.prev_idx = g.prev_idx /\ n.next_idx = g.next_idx
           /\ n.start = g.start /\ n.end = g.end /\ n.version = g.version
           /\ n.rows = g.rows /\ n.load_state = g.load_state
    BY <2>1 DEF SegmentType
  <2> HIDE DEF n
  <2> QED
    BY <1>1, <2>1, <2>2, <2>3, <2>4, OneMarks
<1>6. CASE UpdateApply
  <2> DEFINE g == seg(vidx)
             f == Load(g.start, g.end, LatestVersion(g.start, g.end))
             m == IF retry THEN g.mask ELSE g.mask \cup f.mask
  <2>1. /\ vidx \in Idx /\ Used(vidx) /\ seg(vidx) \in SegmentType /\ seg(vidx).ref_count > 0
        /\ UNCHANGED listVars
    BY <1>6, PinnedFacts DEF UpdateApply, UpdateMask, VacuumAt
  <2>2. m \subseteq Row
    <3>1. Filed(g.start, g.end, g.version, g.rows)
      BY <1>1, <2>1 DEF SegmentsInv
    <3>2. LatestVersion(g.start, g.end) \in Versions(g.start, g.end)
      BY <1>1, <3>1, FiledIs
    <3>3. f.mask \subseteq Row
      BY <1>1, <3>2, LoadIs
    <3>4. g.mask \subseteq Row
      BY <2>1, SegmentFields
    <3> QED
      BY <3>3, <3>4
  <2> DEFINE n == [seg(vidx) EXCEPT !.mutex = NoThread, !.mask = m]
  <2>3. flushed_segments' = [flushed_segments EXCEPT ![vidx] = n]
    BY <1>6, <2>1, <1>1 DEF UpdateApply, UpdateMask, TypeOK
  <2> HIDE DEF m
  <2>4. n \in SegmentType
    BY <2>1, <2>2 DEF SegmentType
  <2>5. LET h == flushed_segments[vidx] IN
           /\ n.in_used = h.in_used /\ n.prev_idx = h.prev_idx /\ n.next_idx = h.next_idx
           /\ n.start = h.start /\ n.end = h.end /\ n.version = h.version
           /\ n.rows = h.rows /\ n.load_state = h.load_state
    BY <2>1 DEF SegmentType
  <2> HIDE DEF n
  <2> QED
    BY <1>1, <2>1, <2>3, <2>4, <2>5, OneMarks
<1> QED
  BY <1>3, <1>4, <1>5, <1>6

-----------------------------------------------------------------------------
(* The list.                                                               *)

\* As long as nobody edits it.
LEMMA ListKept ==
    ASSUME ListInv, head_idx' = head_idx, tail_idx' = tail_idx,
           \A i \in Linked :
             LET g == flushed_segments[i]
                 n == flushed_segments'[i]
             IN /\ n.prev_idx = g.prev_idx /\ n.next_idx = g.next_idx
                /\ n.start = g.start /\ n.end = g.end
    PROVE  /\ Linked' = Linked
           /\ Chain(flushed_segments', head_idx', tail_idx', Linked')
           /\ registered' = registered => ListInv'
<1> DEFINE L == Linked
<1>1. Chain(flushed_segments, head_idx, tail_idx, L)
  BY DEF ListInv
<1> HIDE DEF L
<1>2. \A i \in L : LET g == flushed_segments[i]
                       n == flushed_segments'[i]
                   IN /\ n.prev_idx = g.prev_idx /\ n.next_idx = g.next_idx
                      /\ n.start = g.start /\ n.end = g.end
  BY DEF L
<1>3. Chain(flushed_segments', head_idx', tail_idx', L)
  BY <1>1, <1>2 DEF Chain
<1>4. Linked' = L
  BY <1>3, WalkChain DEF Linked
<1>5. Linked' = Linked
  BY <1>4 DEF L
<1>6. ASSUME registered' = registered
      PROVE  ListInv'
  <2>1. {seg(i).start .. seg(i).end : i \in L} =
          {flushed_segments'[i].start .. flushed_segments'[i].end : i \in L}
    BY <1>2
  <2>2. UNION {seg(i).start .. seg(i).end : i \in L} = registered
    BY DEF L, ListInv
  <2>3. UNION {flushed_segments'[i].start .. flushed_segments'[i].end : i \in L} = registered
    BY <2>1, <2>2
  <2> QED
    BY <1>3, <1>4, <1>6, <2>3 DEF ListInv
<1> QED
  BY <1>3, <1>4, <1>5, <1>6

\* The slot of the list with the greatest sids is its tail.
LEMMA LastIsTail ==
    ASSUME NEW segs, NEW h, NEW t, NEW L, Chain(segs, h, t, L),
           NEW j \in L, \A k \in L : segs[k].start <= segs[j].start
    PROVE  j = t
  BY DEF Chain

\* No segment of a list starts behind its last one.
LEMMA TailIsLast ==
    ASSUME NEW segs, NEW h, NEW t, NEW L, Chain(segs, h, t, L),
           NEW n \in Nat, \A k \in L : segs[k].start <= n
    PROVE  \A k \in L : segs[k].start <= segs[t].start
<1> DEFINE S == {segs[k].start : k \in L}
<1>1. S \in SUBSET Nat /\ S # {} /\ \A x \in S : x <= n
  BY DEF Chain
<1>2. PICK x \in S : \A y \in S : y <= x
  <2> HIDE DEF S
  <2> QED
    BY <1>1, Greatest
<1>3. PICK j \in L : segs[j].start = x
  OBVIOUS
<1>4. \A k \in L : segs[k].start <= segs[j].start
  BY <1>2, <1>3
<1> QED
  BY <1>4, LastIsTail

\* A segment behind the tail.
LEMMA ChainAppend ==
    ASSUME NEW segs, NEW h, NEW t, NEW L, Chain(segs, h, t, L),
           NEW i \in Idx \ L, NEW new, NEW segs2,
           segs2[i] = new, new.prev_idx = t, new.next_idx = NIL,
           new.start \in Nat, new.end \in Nat, new.start <= new.end,
           new.start = segs[t].end + 1,
           \A j \in L : segs2[j].start = segs[j].start /\ segs2[j].end = segs[j].end
                        /\ segs2[j].prev_idx = segs[j].prev_idx,
           \A j \in L \ {t} : segs2[j].next_idx = segs[j].next_idx,
           segs2[t].next_idx = i
    PROVE  Chain(segs2, h, i, L \cup {i})
<1>1. L \cup {i} \subseteq Idx /\ h \in L /\ t \in L /\ h # i
  BY DEF Chain
<1>2. segs2[h].prev_idx = NIL /\ segs2[i].next_idx = NIL
  BY DEF Chain
<1>3. \A j \in L \cup {i} : /\ segs2[j].start \in Nat /\ segs2[j].end \in Nat
                            /\ segs2[j].start <= segs2[j].end
  BY DEF Chain
<1>4. ASSUME NEW j \in (L \cup {i}) \ {i}
      PROVE  /\ segs2[j].next_idx \in L \cup {i}
             /\ segs2[segs2[j].next_idx].prev_idx = j
             /\ segs2[segs2[j].next_idx].start = segs2[j].end + 1
  BY DEF Chain
<1>5. ASSUME NEW j \in (L \cup {i}) \ {h}
      PROVE  /\ segs2[j].prev_idx \in (L \cup {i}) \ {i}
             /\ segs2[segs2[j].prev_idx].next_idx = j
  BY DEF Chain
<1> QED
  BY <1>1, <1>2, <1>3, <1>4, <1>5 DEF Chain

\* A segment in the place of one or of two that are adjacent.
Replacing(segs, h, t, L, a, b, i, segs2, h2, t2) ==
    /\ Chain(segs, h, t, L) /\ NIL \notin L
    /\ a \in L /\ b \in L
    /\ a = b \/ segs[a].next_idx = b
    /\ i \in Idx \ L
    /\ h2 = (IF h = a THEN i ELSE h)
    /\ t2 = (IF t = b THEN i ELSE t)
    /\ segs2[i].prev_idx = segs[a].prev_idx /\ segs2[i].next_idx = segs[b].next_idx
    /\ segs2[i].start = segs[a].start /\ segs2[i].end = segs[b].end
    /\ \A j \in L \ {a, b} :
         /\ segs2[j].start = segs[j].start /\ segs2[j].end = segs[j].end
         /\ segs2[j].next_idx = (IF j = segs[a].prev_idx THEN i ELSE segs[j].next_idx)
         /\ segs2[j].prev_idx = (IF j = segs[b].next_idx THEN i ELSE segs[j].prev_idx)

\* A list with one or two neighbours replaced by a new segment is a list.
LEMMA ChainReplace ==
    ASSUME NEW segs, NEW h, NEW t, NEW L, NEW a, NEW b, NEW i, NEW segs2, NEW h2, NEW t2,
           Replacing(segs, h, t, L, a, b, i, segs2, h2, t2)
    PROVE  Chain(segs2, h2, t2, (L \ {a, b}) \cup {i})
<1> DEFINE M == (L \ {a, b}) \cup {i}
           p == segs[a].prev_idx
           n == segs[b].next_idx
<1>x. /\ Chain(segs, h, t, L) /\ NIL \notin L
      /\ a \in L /\ b \in L
      /\ a = b \/ segs[a].next_idx = b
      /\ i \in Idx \ L
      /\ h2 = (IF h = a THEN i ELSE h)
      /\ t2 = (IF t = b THEN i ELSE t)
      /\ segs2[i].prev_idx = segs[a].prev_idx /\ segs2[i].next_idx = segs[b].next_idx
      /\ segs2[i].start = segs[a].start /\ segs2[i].end = segs[b].end
      /\ \A j \in L \ {a, b} :
         /\ segs2[j].start = segs[j].start /\ segs2[j].end = segs[j].end
         /\ segs2[j].next_idx = (IF j = segs[a].prev_idx THEN i ELSE segs[j].next_idx)
         /\ segs2[j].prev_idx = (IF j = segs[b].next_idx THEN i ELSE segs[j].prev_idx)
  BY DEF Replacing
<1> USE <1>x
<1>0. /\ L \subseteq Idx /\ h \in L /\ t \in L
      /\ segs[h].prev_idx = NIL /\ segs[t].next_idx = NIL
      /\ \A j \in L : /\ segs[j].start \in Nat /\ segs[j].end \in Nat
                      /\ segs[j].start <= segs[j].end
      /\ \A j \in L \ {t} : /\ segs[j].next_idx \in L
                            /\ segs[segs[j].next_idx].prev_idx = j
                            /\ segs[segs[j].next_idx].start = segs[j].end + 1
      /\ \A j \in L \ {h} : /\ segs[j].prev_idx \in L \ {t}
                            /\ segs[segs[j].prev_idx].next_idx = j
  BY DEF Chain
<1>1. a # b => a # t /\ b # h /\ segs[b].prev_idx = a /\ segs[b].start = segs[a].end + 1
  BY <1>0
<1>2. /\ a # h => p \in L \ {a, b} /\ segs[p].next_idx = a /\ p # t
      /\ a = h => p = NIL
      /\ b # t => n \in L \ {a, b} /\ segs[n].prev_idx = b /\ n # h
      /\ b = t => n = NIL
      /\ segs[a].start <= segs[b].end
  BY <1>0, <1>1
<1>3. M \subseteq Idx /\ h2 \in M /\ t2 \in M
  BY <1>0, <1>1, <1>2
<1>4. segs2[h2].prev_idx = NIL /\ segs2[t2].next_idx = NIL
  BY <1>0, <1>1, <1>2
<1>5. \A j \in M : /\ segs2[j].start \in Nat /\ segs2[j].end \in Nat
                   /\ segs2[j].start <= segs2[j].end
  BY <1>0, <1>2
<1>6. ASSUME NEW j \in M \ {t2}
      PROVE  /\ segs2[j].next_idx \in M
             /\ segs2[segs2[j].next_idx].prev_idx = j
             /\ segs2[segs2[j].next_idx].start = segs2[j].end + 1
  <2>1. CASE j = i
    BY <1>0, <1>2, <2>1
  <2>2. CASE j # i /\ j = p
    <3>1. a # h
      BY <1>2, <2>2
    <3> QED
      BY <1>0, <1>2, <2>2, <3>1
  <2>3. CASE j # i /\ j # p
    <3>1. j \in L \ {a, b} /\ j # t
      BY <2>3, <1>2
    <3>2. segs[j].next_idx \in L \ {a, b}
      BY <1>0, <1>1, <1>2, <2>3, <3>1
    <3>3. segs[j].next_idx # n
      BY <1>0, <1>2, <3>1
    <3> QED
      BY <1>0, <2>3, <3>1, <3>2, <3>3
  <2> QED
    BY <2>1, <2>2, <2>3
<1>7. ASSUME NEW j \in M \ {h2}
      PROVE  /\ segs2[j].prev_idx \in M \ {t2}
             /\ segs2[segs2[j].prev_idx].next_idx = j
  <2>1. CASE j = i
    BY <1>0, <1>2, <2>1
  <2>2. CASE j # i /\ j = n
    BY <1>0, <1>2, <2>2
  <2>3. CASE j # i /\ j # n
    <3>1. j \in L \ {a, b} /\ j # h
      BY <2>3, <1>2
    <3>2. segs[j].prev_idx \in L \ {a, b} /\ segs[j].prev_idx # t
      BY <1>0, <1>1, <1>2, <2>3, <3>1
    <3>3. segs[j].prev_idx # p
      BY <1>0, <1>2, <3>1
    <3> QED
      BY <1>0, <2>3, <3>1, <3>2, <3>3
  <2> QED
    BY <2>1, <2>2, <2>3
<1> HIDE DEF M
<1>8. Chain(segs2, h2, t2, M)
  BY <1>3, <1>4, <1>5, <1>6, <1>7 DEF Chain
<1> QED
  BY <1>8 DEF M

\* All but the links.
Steady(j) ==
    LET g == flushed_segments[j]
        n == flushed_segments'[j]
    IN /\ n.in_used = g.in_used /\ n.ref_count = g.ref_count
       /\ n.start = g.start /\ n.end = g.end /\ n.version = g.version
       /\ n.rows = g.rows /\ n.mask = g.mask
       /\ n.is_compacting = g.is_compacting /\ n.load_state = g.load_state

\* Slot i holds new, with the list's reference.
Holds(i, new) ==
    LET n == flushed_segments'[i]
    IN /\ n.in_used = new.in_used /\ n.ref_count = 1
       /\ n.start = new.start /\ n.end = new.end /\ n.version = new.version
       /\ n.rows = new.rows /\ n.mask = new.mask
       /\ n.is_compacting = new.is_compacting /\ n.load_state = new.load_state

Appends(i) ==
    /\ i \in Idx \ Linked
    /\ insert_idx' = insert_idx
    /\ flushed_segments' \in [Idx -> SegmentType]
    /\ head_idx' \in Idx /\ tail_idx' \in Idx
    /\ Linked' = Linked \cup {i}
    /\ Chain(flushed_segments', head_idx', tail_idx', Linked')
    /\ Holds(i, seg(i))
    /\ \A j \in Idx \ {i} : Steady(j)
    /\ \A j \in Idx \ Linked : j # i => flushed_segments'[j] = seg(j)
    /\ \A j \in Linked : j # tail_idx => flushed_segments'[j].next_idx = seg(j).next_idx
    /\ seg(tail_idx).next_idx = NIL

Replaces(a, b, i, new) ==
    /\ a \in Linked /\ b \in Linked
    /\ a = b \/ seg(a).next_idx = b
    /\ i \in Idx \ Linked
    /\ flushed_segments' \in [Idx -> SegmentType]
    /\ head_idx' \in Idx /\ tail_idx' \in Idx
    /\ Linked' = (Linked \ {a, b}) \cup {i}
    /\ Chain(flushed_segments', head_idx', tail_idx', Linked')
    /\ Holds(i, new)
    /\ \A j \in {a, b} : flushed_segments'[j] = Dropped(seg(j))
    /\ \A j \in Idx \ {a, b, i} : Steady(j)
    /\ \A j \in Idx \ Linked : j # i => flushed_segments'[j] = seg(j)
    /\ \A j \in Linked \ {a, b} : seg(j).next_idx # a =>
         flushed_segments'[j].next_idx = seg(j).next_idx

\* register_flushed_segment puts what has just been flushed at the end of the list.
LEMMA RegisterAppends ==
    ASSUME Inv, RegularRegister
    PROVE  Appends(ridx)
<1>1. TypeOK /\ ListInv /\ Reserving /\ InHand /\ FilesInv /\ TasksInv /\ SegmentsInv
  BY DEF Inv, PoolInv, RowsInv
<1>2. rpc = "register" /\ Register(ridx, seg(ridx)) /\ insert_idx' = insert_idx
  BY DEF RegularRegister
<1>3. /\ ridx \in Idx /\ ridx \notin Linked /\ seg(ridx) \in SegmentType
      /\ seg(ridx).start = rsid /\ seg(ridx).end = rsid
  <2>1. Coming(ridx)
    BY <1>2 DEF Coming
  <2>2. ridx \in Idx /\ ridx \notin Linked
    BY <1>1, <1>2, <2>1 DEF Reserving, InHand, Used
  <2> QED
    BY <1>1, <1>2, <2>2 DEF TypeOK, TasksInv
<1>4. Chain(flushed_segments, head_idx, tail_idx, Linked)
  BY <1>1 DEF ListInv
<1>5. rsid \in Nat /\ rsid # 0 /\ registered = 1 .. rsid - 1
  <2>1. rsid \in AnySid /\ registered = 1 .. rsid - 1
    BY <1>1, <1>2 DEF TypeOK, FilesInv
  <2>2. seg(ridx).start \in Sid
    BY <1>1, <1>2, <1>3 DEF SegmentsInv
  <2> QED
    BY <2>1, <2>2, <1>3, Constants
<1>6. \A j \in Linked : seg(j).start <= seg(j).end /\ seg(j).end <= rsid - 1
                        /\ seg(j).start \in Nat /\ seg(j).end \in Nat
  <2>1. \A j \in Linked : seg(j).start \in Nat /\ seg(j).end \in Nat
                          /\ seg(j).start <= seg(j).end
    BY <1>4 DEF Chain
  <2>2. \A j \in Linked : seg(j).end \in seg(j).start .. seg(j).end
    BY <2>1
  <2>3. \A j \in Linked : seg(j).end \in registered
    BY <1>1, <2>2 DEF ListInv
  <2> QED
    BY <2>1, <2>3, <1>5
<1> DEFINE before == {j \in Linked : seg(j).start <= seg(ridx).start}
<1>7. before = Linked /\ tail_idx \in Linked /\ head_idx \in Linked /\ Linked \subseteq Idx
  <2>1. \A j \in Linked : seg(j).start <= rsid
    BY <1>5, <1>6
  <2> QED
    BY <1>3, <1>4, <2>1 DEF Chain
<1> DEFINE p == CHOOSE j \in before : \A k \in before : seg(k).start <= seg(j).start
<1>8. p = tail_idx
  <2>1. \A k \in Linked : seg(k).start <= rsid - 1 /\ rsid - 1 \in Nat
    BY <1>5, <1>6
  <2>2. rsid - 1 \in Nat
    BY <1>5
  <2>3. \A k \in Linked : seg(k).start <= seg(tail_idx).start
    BY <1>4, <2>1, <2>2, TailIsLast
  <2>4. p \in Linked /\ \A k \in Linked : seg(k).start <= seg(p).start
    BY <1>7, <2>3
  <2> HIDE DEF p
  <2> QED
    BY <1>4, <2>4, LastIsTail
<1>9. seg(tail_idx).next_idx = NIL
  BY <1>4 DEF Chain
<1>10. /\ flushed_segments' =
            [j \in Idx |->
               CASE j = ridx -> [seg(ridx) EXCEPT !.ref_count = 1, !.prev_idx = tail_idx,
                                                  !.next_idx = NIL]
                 [] j # ridx /\ j = tail_idx -> [seg(j) EXCEPT !.next_idx = ridx]
                 [] j # ridx /\ j = NIL -> [seg(j) EXCEPT !.prev_idx = ridx]
                 [] OTHER -> seg(j)]
       /\ head_idx' = head_idx /\ tail_idx' = ridx
  <2>1. before # {} /\ tail_idx # NIL
    BY <1>7, Constants
  <2> DEFINE q == IF before = {} THEN NIL ELSE p
             n == IF q = NIL THEN head_idx ELSE seg(q).next_idx
  <2>2. /\ flushed_segments' =
            [j \in Idx |->
              CASE j = ridx -> [seg(ridx) EXCEPT !.ref_count = 1, !.prev_idx = q,
                                        !.next_idx = n]
                [] j # ridx /\ j = q -> [seg(j) EXCEPT !.next_idx = ridx]
                [] j # ridx /\ j = n -> [seg(j) EXCEPT !.prev_idx = ridx]
                [] OTHER -> seg(j)]
        /\ head_idx' = (IF q = NIL THEN ridx ELSE head_idx)
        /\ tail_idx' = (IF n = NIL THEN ridx ELSE tail_idx)
    BY <1>2, Zenon DEF Register
  <2>3. q = tail_idx
    BY <2>1, <1>8
  <2> HIDE DEF q
  <2>4. n = NIL
    BY <2>1, <2>3, <1>9
  <2> HIDE DEF n
  <2> QED
    BY <2>1, <2>2, <2>3, <2>4
<1> HIDE DEF before, p
<1> DEFINE new == [seg(ridx) EXCEPT !.ref_count = 1, !.prev_idx = tail_idx, !.next_idx = NIL]
<1>11. /\ new \in SegmentType /\ new.ref_count = 1
       /\ new.prev_idx = tail_idx /\ new.next_idx = NIL /\ new.start = rsid /\ new.end = rsid
       /\ new.in_used = seg(ridx).in_used /\ new.version = seg(ridx).version
       /\ new.rows = seg(ridx).rows /\ new.mask = seg(ridx).mask
       /\ new.is_compacting = seg(ridx).is_compacting
       /\ new.load_state = seg(ridx).load_state
  <2>1. tail_idx \in AnyIdx /\ NIL \in AnyIdx
    BY <1>7, Constants
  <2> QED
    BY <1>3, <2>1 DEF SegmentType
<1> HIDE DEF new
<1>12. \A j \in Idx : seg(j) \in SegmentType
  BY <1>1 DEF TypeOK
<1>13. /\ flushed_segments'[ridx] = new
       /\ flushed_segments'[tail_idx] = [seg(tail_idx) EXCEPT !.next_idx = ridx]
       /\ \A j \in Idx : j # ridx /\ j # tail_idx => flushed_segments'[j] = seg(j)
  BY <1>3, <1>7, <1>10, Constants DEF new
<1>14. /\ flushed_segments'[tail_idx] \in SegmentType
       /\ Steady(tail_idx)
       /\ flushed_segments'[tail_idx].next_idx = ridx
       /\ flushed_segments'[tail_idx].prev_idx = seg(tail_idx).prev_idx
  <2>1. ridx \in AnyIdx /\ seg(tail_idx) \in SegmentType
    BY <1>3, <1>7, <1>12, Constants
  <2> QED
    BY <1>13, <2>1 DEF SegmentType, Steady
<1>15. flushed_segments' \in [Idx -> SegmentType]
  <2>1. \A j \in Idx : flushed_segments'[j] \in SegmentType
    BY <1>11, <1>12, <1>13, <1>14
  <2>2. flushed_segments' = [j \in Idx |-> flushed_segments'[j]]
    BY <1>10
  <2> QED
    BY <2>1, <2>2
<1>16. \A j \in Idx \ {ridx} : Steady(j)
  BY <1>13, <1>14 DEF Steady
<1>17. seg(tail_idx).end + 1 = rsid
  <2>1. rsid - 1 \in registered \/ rsid = 1
    BY <1>5
  <2>2. seg(tail_idx).end \in registered
    <3>1. seg(tail_idx).end \in seg(tail_idx).start .. seg(tail_idx).end
      BY <1>6, <1>7
    <3> QED
      BY <1>1, <1>7, <3>1 DEF ListInv
  <2>3. rsid # 1 /\ rsid - 1 \in registered
    BY <1>5, <2>1, <2>2
  <2>4. PICK j \in Linked : rsid - 1 \in seg(j).start .. seg(j).end
    BY <1>1, <2>3 DEF ListInv
  <2>5. seg(j).end = rsid - 1
    BY <1>5, <1>6, <2>4
  <2>6. j = tail_idx
    <3>1. SUFFICES ASSUME j # tail_idx PROVE FALSE
      OBVIOUS
    <3>2. seg(j).next_idx \in Linked /\ seg(seg(j).next_idx).start = seg(j).end + 1
      BY <1>4, <3>1 DEF Chain
    <3>3. seg(seg(j).next_idx).start <= rsid - 1
      <4>1. seg(seg(j).next_idx).start <= seg(seg(j).next_idx).end
            /\ seg(seg(j).next_idx).end <= rsid - 1
            /\ seg(seg(j).next_idx).start \in Nat /\ seg(seg(j).next_idx).end \in Nat
        BY <3>2, <1>6
      <4> QED
        BY <4>1, <1>5
    <3> QED
      BY <2>5, <3>2, <3>3, <1>5
  <2> QED
    BY <2>5, <2>6, <1>5
<1>18. Chain(flushed_segments', head_idx', tail_idx', Linked \cup {ridx})
  <2> DEFINE segs2 == flushed_segments'
             L == Linked
  <2>1. \A j \in L : segs2[j].start = seg(j).start /\ segs2[j].end = seg(j).end
                     /\ segs2[j].prev_idx = seg(j).prev_idx
    BY <1>3, <1>7, <1>13, <1>14 DEF Steady
  <2>2. \A j \in L \ {tail_idx} : segs2[j].next_idx = seg(j).next_idx
    BY <1>3, <1>7, <1>13
  <2>3. segs2[tail_idx].next_idx = ridx /\ segs2[ridx] = new
    BY <1>13, <1>14
  <2>4. /\ new.start \in Nat /\ new.end \in Nat /\ new.start <= new.end
        /\ new.start = seg(tail_idx).end + 1 /\ ridx \in Idx \ L
    BY <1>3, <1>5, <1>11, <1>17
  <2> HIDE DEF segs2, L
  <2>5. Chain(flushed_segments, head_idx, tail_idx, L)
    BY <1>4 DEF L
  <2>6. Chain(segs2, head_idx, ridx, L \cup {ridx})
    BY <2>1, <2>2, <2>3, <2>4, <2>5, <1>11, ChainAppend
  <2> QED
    BY <2>6, <1>10 DEF segs2, L
<1>19. Linked' = Linked \cup {ridx}
  BY <1>18, WalkChain DEF Linked
<1>20. \A j \in Linked : j # tail_idx => flushed_segments'[j].next_idx = seg(j).next_idx
  BY <1>3, <1>7, <1>13
<1>21. Holds(ridx, seg(ridx))
  BY <1>3, <1>11, <1>13 DEF Holds
<1>22. \A j \in Idx \ Linked : j # ridx => flushed_segments'[j] = seg(j)
  BY <1>7, <1>13
<1> QED
  BY <1>2, <1>3, <1>7, <1>9, <1>10, <1>15, <1>16, <1>18, <1>19, <1>20, <1>21, <1>22
     DEF Appends

\* replace_flushed_segments_n on adjacent segments of the list.
LEMMA ReplaceReplaces ==
    ASSUME TypeOK, ListInv, RefExact,
           NEW a \in Linked, NEW b \in Linked, a = b \/ seg(a).next_idx = b,
           NEW i \in Idx \ Linked, NEW new \in SegmentType,
           new.start = seg(a).start, new.end = seg(b).end,
           Replace(a, b, i, new)
    PROVE  Replaces(a, b, i, new)
<1> DEFINE p == seg(a).prev_idx
           n == seg(b).next_idx
           in == [new EXCEPT !.ref_count = 1, !.prev_idx = p, !.next_idx = n]
           New(j) == CASE j = i -> in
                       [] j # i /\ j \in {a, b} -> Dropped(seg(j))
                       [] OTHER -> seg(j)
<1>1. /\ flushed_segments' =
            [j \in Idx |->
              IF j = p THEN [New(j) EXCEPT !.next_idx = i]
              ELSE IF j = n THEN [New(j) EXCEPT !.prev_idx = i]
              ELSE New(j)]
      /\ head_idx' = (IF head_idx = a THEN i ELSE head_idx)
      /\ tail_idx' = (IF tail_idx = b THEN i ELSE tail_idx)
  BY DEF Replace, ReplaceInList
<1>2. Chain(flushed_segments, head_idx, tail_idx, Linked)
  BY DEF ListInv
<1>3. Linked \subseteq Idx /\ NIL \notin Linked /\ head_idx \in Linked /\ tail_idx \in Linked
  BY <1>2, Constants DEF Chain
<1>4. \A j \in Idx : seg(j) \in SegmentType
  BY DEF TypeOK
<1>5. /\ p = NIL \/ (p \in Linked /\ p \notin {a, b} /\ seg(p).next_idx = a)
      /\ n = NIL \/ (n \in Linked /\ n \notin {a, b} /\ seg(n).prev_idx = b)
      /\ \A j \in Linked : seg(j).next_idx = a => j = p
      /\ p = n => p = NIL
  <2>0. /\ seg(head_idx).prev_idx = NIL /\ seg(tail_idx).next_idx = NIL
        /\ \A j \in Linked : /\ seg(j).start \in Nat /\ seg(j).end \in Nat
                             /\ seg(j).start <= seg(j).end
        /\ \A j \in Linked \ {tail_idx} :
             /\ seg(j).next_idx \in Linked
             /\ seg(seg(j).next_idx).prev_idx = j
             /\ seg(seg(j).next_idx).start = seg(j).end + 1
        /\ \A j \in Linked \ {head_idx} :
             /\ seg(j).prev_idx \in Linked \ {tail_idx}
             /\ seg(seg(j).prev_idx).next_idx = j
    BY <1>2 DEF Chain
  <2>1. p = NIL \/ (p \in Linked /\ seg(p).next_idx = a /\ seg(p).end + 1 = seg(a).start)
    BY <2>0
  <2>2. n = NIL \/ (n \in Linked /\ seg(n).prev_idx = b /\ seg(n).start = seg(b).end + 1)
    BY <2>0
  <2>3. a # b => seg(b).start = seg(a).end + 1
    BY <2>0, <1>3
  <2>4. seg(a).start <= seg(b).end /\ seg(a).start <= seg(b).start /\ seg(a).end <= seg(b).end
    BY <2>0, <2>3
  <2>5. p # NIL => p \notin {a, b}
    BY <2>0, <2>1, <2>4
  <2>6. n # NIL => n \notin {a, b}
    BY <2>0, <2>2, <2>4
  <2>7. \A j \in Linked : seg(j).next_idx = a => j = p
    BY <2>0, <1>3
  <2>8. p = n => p = NIL
    BY <2>0, <2>1, <2>2, <2>4
  <2> QED
    BY <2>1, <2>2, <2>5, <2>6, <2>7, <2>8
<1>6. /\ in \in SegmentType /\ in.ref_count = 1 /\ in.prev_idx = p /\ in.next_idx = n
      /\ in.in_used = new.in_used
      /\ in.start = new.start /\ in.end = new.end /\ in.version = new.version
      /\ in.rows = new.rows /\ in.mask = new.mask
      /\ in.is_compacting = new.is_compacting /\ in.load_state = new.load_state
  <2>1. p \in AnyIdx /\ n \in AnyIdx
    BY <1>3, <1>4, SegmentFields
  <2> HIDE DEF p, n
  <2> QED
    BY <2>1 DEF SegmentType
<1> HIDE DEF in
<1>7. \A j \in Linked : seg(j).ref_count > 0
  BY <1>3, References
<1>8. flushed_segments'[i] = in
  BY <1>1, <1>3, <1>5, Constants
<1>9. \A j \in {a, b} : flushed_segments'[j] = Dropped(seg(j))
                        /\ Dropped(seg(j)) \in SegmentType
  <2>1. \A j \in {a, b} : j # p /\ j # n /\ j # i /\ j \in Idx
    BY <1>3, <1>5
  <2>2. \A j \in {a, b} : New(j) = Dropped(seg(j))
    BY <2>1
  <2>3. \A j \in {a, b} : flushed_segments'[j] = Dropped(seg(j))
    BY <1>1, <2>1, <2>2
  <2>4. \A j \in {a, b} : Dropped(seg(j)) \in SegmentType
    BY <1>3, <1>4, <1>7, DroppedIs
  <2> QED
    BY <2>3, <2>4
<1>10. ASSUME NEW j \in Idx \ {a, b, i}
       PROVE  /\ flushed_segments'[j] \in SegmentType /\ Steady(j)
              /\ flushed_segments'[j].next_idx = IF j = p THEN i ELSE seg(j).next_idx
              /\ flushed_segments'[j].prev_idx = IF j = n THEN i ELSE seg(j).prev_idx
  <2>1. New(j) = seg(j) /\ seg(j) \in SegmentType /\ i \in AnyIdx
    BY <1>4, Constants, Zenon
  <2> HIDE DEF New
  <2>2. CASE j = p
    <3>1. flushed_segments'[j] = [seg(j) EXCEPT !.next_idx = i] /\ j # n
      BY <1>1, <1>5, <2>1, <2>2, Constants
    <3> QED
      BY <2>1, <2>2, <3>1 DEF SegmentType, Steady
  <2>3. CASE j # p /\ j = n
    <3>1. flushed_segments'[j] = [seg(j) EXCEPT !.prev_idx = i]
      BY <1>1, <2>1, <2>3
    <3> QED
      BY <2>1, <2>3, <3>1 DEF SegmentType, Steady
  <2>4. CASE j # p /\ j # n
    BY <1>1, <2>1, <2>4 DEF Steady
  <2> QED
    BY <2>2, <2>3, <2>4
<1>11. flushed_segments' \in [Idx -> SegmentType]
  <2>1. \A j \in Idx : flushed_segments'[j] \in SegmentType
    BY <1>6, <1>8, <1>9, <1>10
  <2>2. flushed_segments' = [j \in Idx |-> flushed_segments'[j]]
    BY <1>1
  <2> QED
    BY <2>1, <2>2
<1>12. Chain(flushed_segments', head_idx', tail_idx', (Linked \ {a, b}) \cup {i})
  <2> DEFINE segs2 == flushed_segments'
             L == Linked
             h2 == head_idx'
             t2 == tail_idx'
  <2>1. \A j \in L \ {a, b} :
             /\ segs2[j].start = seg(j).start /\ segs2[j].end = seg(j).end
             /\ segs2[j].next_idx = (IF j = seg(a).prev_idx THEN i ELSE seg(j).next_idx)
             /\ segs2[j].prev_idx = (IF j = seg(b).next_idx THEN i ELSE seg(j).prev_idx)
    BY <1>3, <1>10 DEF Steady
  <2>2. h2 = (IF head_idx = a THEN i ELSE head_idx) /\ t2 = (IF tail_idx = b THEN i ELSE tail_idx)
    BY <1>1
  <2>3. segs2[i] = in
    BY <1>8
  <2>4. in.prev_idx = seg(a).prev_idx /\ in.next_idx = seg(b).next_idx
        /\ in.start = seg(a).start /\ in.end = seg(b).end
    BY <1>6
  <2>5. Chain(flushed_segments, head_idx, tail_idx, L) /\ NIL \notin L /\ i \in Idx \ L
        /\ a \in L /\ b \in L
    BY <1>2, <1>3
  <2> HIDE DEF segs2, L, h2, t2
  <2>a. a = b \/ flushed_segments[a].next_idx = b
    OBVIOUS
  <2> HIDE DEF in
  <2>6. Replacing(flushed_segments, head_idx, tail_idx, L, a, b, i, segs2, h2, t2)
    BY <2>1, <2>2, <2>3, <2>4, <2>5, <2>a DEF Replacing
  <2>7. Chain(segs2, h2, t2, (L \ {a, b}) \cup {i})
    BY <2>6, ChainReplace
  <2> QED
    BY <2>7 DEF segs2, L, h2, t2
<1>13. Linked' = (Linked \ {a, b}) \cup {i}
  BY <1>12, WalkChain DEF Linked
<1>14. \A j \in Linked \ {a, b} : seg(j).next_idx # a =>
         flushed_segments'[j].next_idx = seg(j).next_idx
  <2>1. \A j \in Linked \ {a, b} : seg(j).next_idx # a => j # p
    BY <1>5, <1>3
  <2> QED
    BY <1>3, <1>10, <2>1
<1>15. Holds(i, new)
  BY <1>6, <1>8 DEF Holds
<1>16. head_idx' \in Idx /\ tail_idx' \in Idx
  BY <1>1, <1>3
<1>17. \A j \in Idx \ Linked : j # i => flushed_segments'[j] = seg(j)
  <2>1. \A j \in Idx \ Linked : j # i => j # p /\ j # n /\ New(j) = seg(j)
    BY <1>3, <1>5, Constants
  <2> HIDE DEF New, p, n
  <2> QED
    BY <1>1, <2>1
<1> QED
  BY <1>9, <1>10, <1>11, <1>12, <1>13, <1>14, <1>15, <1>16, <1>17 DEF Replaces

-----------------------------------------------------------------------------
(* The kinds of steps.                                                     *)

Fills ==
    /\ UNCHANGED listVars
    /\ ridx \in Idx \ Linked /\ ridx < insert_idx /\ Coming(ridx)
    /\ \E f \in files :
         /\ f.start = rsid /\ f.end = rsid
         /\ flushed_segments' = [flushed_segments EXCEPT ![ridx] = Loaded(@, f, "full")]

\* A slot that somebody has reserved is not in the list.
LEMMA ComingFacts ==
    ASSUME Inv, NEW i \in Idx, Coming(i) \/ i >= insert_idx
    PROVE  i \notin Linked /\ ~Used(i) /\ seg(i) \in SegmentType
<1>1. TypeOK /\ InHand
  BY DEF Inv, PoolInv
<1>2. insert_idx \in Nat /\ i \in Nat
  BY <1>1, Constants DEF TypeOK
<1>3. ~Used(i)
  BY <1>2 DEF Used
<1> QED
  BY <1>1, <1>3 DEF InHand, TypeOK

\* load_and_set_segment fills in the slot that was reserved for it.
LEMMA LoadFills ==
    ASSUME Inv, RegularLoad
    PROVE  Fills
<1>1. TypeOK /\ Reserving /\ FilesInv
  BY DEF Inv, PoolInv, RowsInv
<1>2. /\ rpc = "load" /\ UNCHANGED listVars
      /\ flushed_segments' = [flushed_segments EXCEPT
             ![ridx] = Loaded(@, Load(rsid, rsid, LatestVersion(rsid, rsid)), "full")]
  BY DEF RegularLoad
<1>3. Coming(ridx) /\ ridx \in Idx /\ ridx < insert_idx
  BY <1>1, <1>2 DEF Coming, Reserving
<1>4. ridx \notin Linked
  BY <1>3, ComingFacts
<1>5. LatestVersion(rsid, rsid) \in Versions(rsid, rsid)
  BY <1>1, <1>2, LatestIs DEF FilesInv
<1> DEFINE f == Load(rsid, rsid, LatestVersion(rsid, rsid))
<1>6. f \in files /\ f.start = rsid /\ f.end = rsid
  BY <1>1, <1>5, LoadIs
<1> HIDE DEF f
<1> QED
  BY <1>2, <1>3, <1>4, <1>6 DEF Fills, f

\* An upgrade does nothing or replaces its segment by the slot at insert_idx.
LEMMA UpgradeReplaces ==
    ASSUME Inv, NEW u \in upgrades, Upgrade(u)
    PROVE  \/ Marks /\ UNCHANGED poolVars
           \/ /\ Replaces(u.idx, u.idx, insert_idx, Loaded(EmptySegment, seg(u.idx), "full"))
              /\ insert_idx' = insert_idx + 1
              /\ insert_idx \in Idx /\ seg(insert_idx) = EmptySegment
<1>1. TypeOK /\ ListInv /\ Reserving /\ RefExact /\ Upgrading
  BY DEF Inv, PoolInv
<1>2. CASE UNCHANGED poolVars
  BY <1>1, <1>2, UntouchedMarks
<1>3. CASE /\ Reserved # NIL /\ insert_idx' = Reserved + 1
           /\ Replace(u.idx, u.idx, Reserved, Loaded(seg(Reserved), seg(u.idx), "full"))
  <2>1. Reserved = insert_idx /\ insert_idx \in Idx /\ seg(insert_idx) = EmptySegment
    BY <1>1, <1>3, ReservedIs
  <2>2. u.idx \in Linked /\ u.idx \in Idx /\ seg(u.idx) \in SegmentType
    BY <1>1, PinnedFacts DEF Upgrading
  <2>3. insert_idx \in Idx \ Linked
    <3>1. insert_idx >= insert_idx
      BY <1>1, <2>1, Constants
    <3> QED
      BY <2>1, <3>1, ComingFacts
  <2> DEFINE a == u.idx
             i == insert_idx
             new == Loaded(EmptySegment, seg(u.idx), "full")
  <2>4. new \in SegmentType /\ new.start = seg(a).start /\ new.end = seg(a).end
    <3>1. /\ seg(u.idx).start \in AnySid /\ seg(u.idx).end \in AnySid
          /\ seg(u.idx).version \in Nat
          /\ seg(u.idx).rows \subseteq Row /\ seg(u.idx).mask \subseteq Row
      BY <2>2, SegmentFields
    <3> QED
      BY <3>1, EmptyType, LoadedIs
  <2>5. Replace(a, a, i, new)
    BY <1>3, <2>1
  <2> HIDE DEF new
  <2>6. Replaces(a, a, i, new)
    BY <1>1, <2>2, <2>3, <2>4, <2>5, ReplaceReplaces
  <2> QED
    BY <1>3, <2>1, <2>6 DEF new
<1> QED
  BY <1>2, <1>3 DEF Upgrade

\* The end of a merge replaces what the thread has claimed by its new slot.
LEMMA MergeReplaces ==
    ASSUME Inv, NEW t \in Merger, MergeReplace(t)
    PROVE  /\ Replaces(task[t].lo, task[t].hi, task[t].new,
                       Loaded(seg(task[t].new),
                              File(task[t].start, task[t].end, task[t].version,
                                   task[t].rows, task[t].mask), "full"))
           /\ insert_idx' = insert_idx
           /\ Coming(task[t].new) /\ task[t].new < insert_idx
<1>1. TypeOK /\ ListInv /\ Reserving /\ RefExact /\ Claims
  BY DEF Inv, PoolInv
<1> DEFINE a == task[t].lo
           b == task[t].hi
           i == task[t].new
           f == File(task[t].start, task[t].end, task[t].version, task[t].rows, task[t].mask)
           new == Loaded(seg(i), f, "full")
<1>2. mpc[t] = "replace" /\ Replace(a, b, i, new) /\ insert_idx' = insert_idx
  BY DEF MergeReplace, MergeAt
<1>3. /\ a \in Linked /\ b \in Linked
      /\ a = b \/ seg(a).next_idx = b
      /\ task[t].start = seg(a).start /\ task[t].end = seg(b).end
  BY <1>1, <1>2 DEF Claims, Claiming, Adjoining
<1>4. Coming(i) /\ i \in Idx /\ i < insert_idx
  BY <1>1, <1>2 DEF Coming, Reserving
<1>5. i \in Idx \ Linked /\ seg(i) \in SegmentType
  BY <1>4, ComingFacts
<1>6. /\ f.start = task[t].start /\ f.end = task[t].end /\ f.version \in Nat
      /\ f.start \in AnySid /\ f.end \in AnySid /\ f.rows \subseteq Row /\ f.mask \subseteq Row
  BY <1>1 DEF TypeOK, TaskType, File
<1> HIDE DEF f
<1>7. new \in SegmentType /\ new.start = seg(a).start /\ new.end = seg(b).end
  BY <1>3, <1>5, <1>6, LoadedIs
<1> HIDE DEF new, a, b, i
<1>8. Replaces(a, b, i, new)
  BY <1>1, <1>2, <1>3, <1>5, <1>7, ReplaceReplaces
<1> QED
  BY <1>2, <1>4, <1>8 DEF a, b, i, f, new

-----------------------------------------------------------------------------
(* Who does what.                                                          *)

Reg == FlushSegment \/ Regular
Upg == \E u \in upgrades : Upgrade(u)
Mrg == \E t \in Merger : Merge(t)
Sch == \E x \in Searcher : SearchBegin(x) \/ Search(x)
Del == \E r \in Row : DeleteRow(r)
Vac == VacuumBegin \/ Vacuum

\* Each step is one party's.
LEMMA Parties ==
    ASSUME Next
    PROVE  Reg \/ Upg \/ Mrg \/ Sch \/ Del \/ Vac
  BY DEF Next, Reg, Upg, Mrg, Sch, Del, Vac

\* What flushing and SEGMENT_UPDATE_REGULAR leave alone.
LEMMA RegFrame ==
    ASSUME Reg
    PROVE  UNCHANGED <<heapVars, upgrades, mergeVars, searchVars, vacVars>>
           /\ (FlushSegment \/ files' = files)
  BY DEF Reg, FlushSegment, Regular, RegularFind, RegularReserve, RegularLoad,
         RegularRegister

\* What an upgrade leaves alone.
LEMMA UpgFrame ==
    ASSUME Upg
    PROVE  UNCHANGED <<files, heapVars, regVars, mergeVars, searchVars, vacVars>>
  BY DEF Upg, Upgrade

\* What a merge thread leaves alone.
LEMMA MrgFrame ==
    ASSUME NEW t \in Merger, Merge(t)
    PROVE  UNCHANGED <<heapVars, regVars, upgrades, searchVars, vacVars>>
           /\ (MergeWrite(t) \/ files' = files)
<1>1. CASE MergeScan(t) \/ MergeClaim(t)
  BY <1>1, ZenonT(40) DEF MergeScan, MergeClaim
<1>2. CASE MergeLoad(t) \/ MergeLock(t) \/ MergeLock2(t) \/ MergeReload(t)
  BY <1>2 DEF MergeLoad, MergeBuild, MergeLock, MergeLock2, MergeReload, MergeMask
<1>3. CASE MergeWrite(t) \/ MergeReserve(t) \/ MergeGiveUp(t)
  BY <1>3 DEF MergeWrite, MergeReserve, MergeGiveUp
<1>4. CASE MergeReplace(t) \/ MergeUnlock(t)
  BY <1>4 DEF MergeReplace, MergeUnlock
<1> QED
  BY <1>1, <1>2, <1>3, <1>4, Zenon DEF Merge, Compact

\* What a search leaves alone.
LEMMA SchFrame ==
    ASSUME Sch
    PROVE  UNCHANGED <<files, heapVars, regVars, upgrades, mergeVars, vacVars>>
  BY DEF Sch, SearchBegin, Search, SearchPin, PinAll, SearchSegments, SearchDrop,
         SearchCheck, SearchEnd

\* What the deletion of a row leaves alone.
LEMMA DelFrame ==
    ASSUME Del
    PROVE  /\ UNCHANGED <<poolVars, files, gone, regVars, upgrades, mergeVars, searchVars,
                          vacVars>>
           /\ dead \subseteq dead'
  BY DEF Del, DeleteRow

\* What VACUUM leaves alone.
LEMMA VacFrame ==
    ASSUME Vac
    PROVE  UNCHANGED <<dead, regVars, upgrades, mergeVars, searchVars>>
           /\ (VacuumSegment \/ files' = files)
<1>1. CASE VacuumBegin \/ VacuumAnswer \/ VacuumEnd \/ VacuumSegment
  BY <1>1 DEF VacuumBegin, VacuumAnswer, VacuumEnd, VacuumSegment
<1>2. CASE UpdateFind \/ UpdateLock \/ UpdateApply
  BY <1>2 DEF UpdateFind, UpdateLock, UpdateCheck, UpdateApply, UpdateMask
<1>3. CASE UpdateDrop \/ UpdateDropCheck
  BY <1>3 DEF UpdateDrop, UpdateDropCheck
<1> QED
  BY <1>1, <1>2, <1>3 DEF Vac, Vacuum

\* What a party writes nobody else does.
LEMMA Frames ==
    ASSUME Next
    PROVE  /\ Reg \/ UNCHANGED regVars
           /\ Upg \/ UNCHANGED upgrades
           /\ Mrg \/ UNCHANGED mergeVars
           /\ Sch \/ UNCHANGED searchVars
           /\ Vac \/ UNCHANGED vacVars
           /\ Del \/ UNCHANGED dead
           /\ dead \subseteq dead'
           /\ \/ FlushSegment \/ (\E t \in Merger : MergeWrite(t)) \/ VacuumSegment
              \/ UNCHANGED files
<1>1. CASE Reg
  BY <1>1, RegFrame
<1>2. CASE Upg
  BY <1>2, UpgFrame
<1>3. CASE Mrg
  BY <1>3, MrgFrame DEF Mrg
<1>4. CASE Sch
  BY <1>4, SchFrame
<1>5. CASE Del
  BY <1>5, DelFrame
<1>6. CASE Vac
  BY <1>6, VacFrame
<1> QED
  BY <1>1, <1>2, <1>3, <1>4, <1>5, <1>6, Parties

\* The steps of each party and their kinds.
LEMMA RegKinds ==
    ASSUME Inv, Reg
    PROVE  \/ RegularRegister /\ Appends(ridx)
           \/ RegularLoad /\ Fills /\ registered' = registered
           \/ RegularReserve /\ Reserves /\ ridx' = insert_idx /\ rpc' = "load"
              /\ registered' = registered
           \/ /\ rpc' \in {"idle", "find", "reserve", "crash"} /\ rpc \in {"idle", "find", "reserve"}
              /\ UNCHANGED <<poolVars, ridx, registered>>
              /\ Marks
<1>1. TypeOK /\ Reserving
  BY DEF Inv, PoolInv
<1>2. CASE FlushSegment \/ RegularFind
  <2>1. /\ UNCHANGED <<poolVars, ridx, registered>>
        /\ rpc' \in {"idle", "find", "reserve"} /\ rpc \in {"idle", "find"}
    BY <1>2 DEF FlushSegment, RegularFind
  <2> QED
    BY <1>1, <2>1, UntouchedMarks
<1>3. CASE RegularReserve
  <2>1. CASE Reserved = NIL
    <3>1. UNCHANGED <<poolVars, ridx, registered>> /\ rpc' = "crash" /\ rpc = "reserve"
      BY <1>3, <2>1 DEF RegularReserve
    <3> QED
      BY <1>1, <3>1, UntouchedMarks
  <2>2. CASE Reserved # NIL
    <3>1. /\ insert_idx' = Reserved + 1 /\ head_idx' = head_idx /\ tail_idx' = tail_idx
          /\ flushed_segments' = [flushed_segments EXCEPT ![Reserved].in_used = TRUE]
          /\ ridx' = Reserved /\ rpc' = "load" /\ registered' = registered
      BY <1>3, <2>2 DEF RegularReserve
    <3> QED
      BY <1>1, <1>3, <2>2, <3>1, ReservedReserves, ReservedIs
  <2> QED
    BY <2>1, <2>2
<1>4. CASE RegularLoad
  <2>1. registered' = registered
    BY <1>4 DEF RegularLoad
  <2> QED
    BY <1>4, <2>1, LoadFills
<1>5. CASE RegularRegister
  BY <1>5, RegisterAppends
<1> QED
  BY <1>2, <1>3, <1>4, <1>5 DEF Reg, Regular

\* What a merge thread may do to the pool.
LEMMA MrgKinds ==
    ASSUME Inv, NEW t \in Merger, Merge(t)
    PROVE  \/ Marks
           \/ MergeReserve(t) /\ Reserves /\ task'[t].new = insert_idx
           \/ MergeReplace(t)
<1>1. TypeOK /\ Reserving
  BY DEF Inv, PoolInv
<1>2. CASE \/ MergeScan(t) \/ MergeLoad(t) \/ MergeReload(t) \/ MergeWrite(t)
  <2>1. UNCHANGED poolVars
    BY <1>2 DEF MergeScan, MergeLoad, MergeBuild, MergeReload, MergeMask, MergeWrite
  <2> QED
    BY <1>1, <2>1, UntouchedMarks, Zenon
<1>3. CASE \/ MergeClaim(t) \/ MergeLock(t) \/ MergeLock2(t) \/ MergeGiveUp(t)
           \/ MergeUnlock(t)
  BY <1>3, MergeMarks
<1>4. CASE MergeReserve(t)
  <2>1. CASE Reserved = NIL
    <3>1. UNCHANGED poolVars
      BY <1>4, <2>1 DEF MergeReserve
    <3> QED
      BY <1>1, <3>1, UntouchedMarks
  <2>2. CASE Reserved # NIL
    <3>1. /\ insert_idx' = Reserved + 1 /\ head_idx' = head_idx /\ tail_idx' = tail_idx
          /\ flushed_segments' = [flushed_segments EXCEPT ![Reserved].in_used = TRUE]
          /\ task' = [task EXCEPT ![t] = [task[t] EXCEPT !.new = Reserved]]
      BY <1>4, <2>2 DEF MergeReserve, MergeStep
    <3>2. task \in [Merger -> TaskType] /\ task[t] \in TaskType
      BY <1>1 DEF TypeOK
    <3>3. task'[t].new = Reserved
      BY <3>1, <3>2 DEF TaskType
    <3> QED
      BY <1>1, <1>4, <2>2, <3>1, <3>3, ReservedReserves, ReservedIs
  <2> QED
    BY <2>1, <2>2
<1> QED
  BY <1>2, <1>3, <1>4 DEF Merge, Compact

\* What a search may do to the pool.
LEMMA SchKinds ==
    ASSUME Inv, NEW x \in Searcher, SearchBegin(x) \/ Search(x), insert_idx <= insert_idx'
    PROVE  \/ Marks
           \/ SearchCheck(x) /\ \E i : Cleans(i)
<1>1. TypeOK /\ InHand
  BY DEF Inv, PoolInv
<1>2. CASE SearchBegin(x) \/ SearchSegments(x) \/ SearchEnd(x)
  <2>1. UNCHANGED poolVars
    BY <1>2 DEF SearchBegin, SearchSegments, SearchEnd
  <2> QED
    BY <1>1, <2>1, UntouchedMarks
<1>3. CASE SearchPin(x) \/ SearchDrop(x)
  BY <1>3, SearchMarks
<1>4. CASE SearchCheck(x)
  <2> DEFINE i == drop[x]
  <2>1. /\ i # NIL /\ CheckDropped(i) /\ head_idx' = head_idx /\ tail_idx' = tail_idx
    BY <1>4 DEF SearchCheck
  <2>2. Used(i)
    BY <1>1, <2>1 DEF InHand
  <2> HIDE DEF i
  <2> QED
    BY <1>1, <1>4, <2>1, <2>2, CheckCleans
<1> QED
  BY <1>2, <1>3, <1>4 DEF Search

\* What VACUUM may do to the pool.
LEMMA VacKinds ==
    ASSUME Inv, Vac, insert_idx <= insert_idx'
    PROVE  \/ Marks
           \/ UpdateDropCheck /\ \E i : Cleans(i)
<1>1. TypeOK /\ InHand
  BY DEF Inv, PoolInv
<1>2. CASE VacuumBegin \/ VacuumSegment \/ VacuumAnswer \/ VacuumEnd
  <2>1. UNCHANGED poolVars
    BY <1>2 DEF VacuumBegin, VacuumSegment, VacuumAnswer, VacuumEnd
  <2> QED
    BY <1>1, <2>1, UntouchedMarks
<1>3. CASE UpdateFind \/ UpdateLock \/ UpdateApply \/ UpdateDrop
  BY <1>3, VacuumMarks
<1>4. CASE UpdateDropCheck
  <2>1. vpc = "check" /\ CheckDropped(vidx) /\ head_idx' = head_idx /\ tail_idx' = tail_idx
    BY <1>4 DEF UpdateDropCheck, VacuumAt
  <2>2. Used(vidx)
    BY <1>1, <2>1 DEF InHand
  <2> QED
    BY <1>1, <1>4, <2>1, <2>2, CheckCleans
<1> QED
  BY <1>2, <1>3, <1>4 DEF Vac, Vacuum

\* Two slots or one leave the list for a slot that comes from outside.
Swaps == \E a, b, i, new :
    /\ Replaces(a, b, i, new)
    /\ Coming(i) \/ i >= insert_idx
    /\ i < insert_idx'
    /\ insert_idx' \in {insert_idx, insert_idx + 1}
    /\ insert_idx' = insert_idx \/ insert_idx \in Idx
    /\ new.start = seg(a).start /\ new.end = seg(b).end /\ new.in_used
    /\ ~new.is_compacting /\ new.load_state = "full"

\* An upgrade that does something and the end of a merge replace segments.
LEMMA SwapKinds ==
    ASSUME Inv, \/ (\E u \in upgrades : Upgrade(u)) /\ ~Marks
                \/ \E t \in Merger : MergeReplace(t)
    PROVE  Swaps
<1>1. ASSUME NEW u \in upgrades, Upgrade(u), ~Marks
      PROVE  Swaps
  <2> DEFINE a == u.idx
             new == Loaded(EmptySegment, seg(a), "full")
  <2>1. /\ Replaces(a, a, insert_idx, new) /\ insert_idx' = insert_idx + 1
        /\ insert_idx \in Idx
    BY <1>1, UpgradeReplaces
  <2>2. a \in Idx /\ seg(a) \in SegmentType
    BY <2>1, PinnedFacts DEF Replaces
  <2>3. /\ new.start = seg(a).start /\ new.end = seg(a).end /\ new.in_used
        /\ ~new.is_compacting /\ new.load_state = "full"
    <3>1. /\ seg(a).start \in AnySid /\ seg(a).end \in AnySid
          /\ seg(a).version \in Nat
          /\ seg(a).rows \subseteq Row /\ seg(a).mask \subseteq Row
      BY <2>2, SegmentFields
    <3> QED
      BY <3>1, EmptyType, LoadedIs
  <2>4. insert_idx >= insert_idx /\ insert_idx < insert_idx'
    BY <2>1, Constants
  <2> HIDE DEF a, new
  <2> QED
    BY <2>1, <2>3, <2>4 DEF Swaps
<1>2. ASSUME NEW t \in Merger, MergeReplace(t)
      PROVE  Swaps
  <2> DEFINE a == task[t].lo
             b == task[t].hi
             i == task[t].new
             f == File(task[t].start, task[t].end, task[t].version, task[t].rows, task[t].mask)
             new == Loaded(seg(i), f, "full")
  <2>1. Replaces(a, b, i, new) /\ insert_idx' = insert_idx /\ Coming(i) /\ i < insert_idx
    BY <1>2, MergeReplaces
  <2>2. task[t].start = seg(a).start /\ task[t].end = seg(b).end
    BY <1>2 DEF Inv, PoolInv, Claims, Claiming, MergeReplace, MergeAt
  <2>3. seg(i) \in SegmentType
    BY <2>1, PinnedFacts DEF Replaces
  <2>4. /\ f.start = task[t].start /\ f.end = task[t].end /\ f.version \in Nat
        /\ f.start \in AnySid /\ f.end \in AnySid /\ f.rows \subseteq Row /\ f.mask \subseteq Row
    BY DEF Inv, PoolInv, TypeOK, TaskType, File
  <2> HIDE DEF f
  <2>5. /\ new.start = seg(a).start /\ new.end = seg(b).end /\ new.in_used
        /\ ~new.is_compacting /\ new.load_state = "full"
    BY <2>2, <2>3, <2>4, LoadedIs
  <2> HIDE DEF a, b, i, new
  <2> QED
    BY <2>1, <2>5 DEF Swaps
<1> QED
  BY <1>1, <1>2

\* All steps.
LEMMA Kinds ==
    ASSUME Inv, Next, insert_idx <= insert_idx'
    PROVE  \/ Marks /\ registered' = registered
           \/ Reserves /\ registered' = registered
           \/ (\E i : Cleans(i)) /\ registered' = registered
           \/ Fills /\ registered' = registered
           \/ RegularRegister /\ Appends(ridx)
           \/ Swaps /\ registered' = registered
<1>1. CASE Reg
  BY <1>1, RegKinds
<1>2. CASE Upg
  BY <1>2, UpgFrame, SwapKinds DEF Upg
<1>3. CASE Mrg
  BY <1>3, MrgFrame, MrgKinds, SwapKinds DEF Mrg
<1>4. CASE Sch
  BY <1>4, SchFrame, SchKinds DEF Sch
<1>5. CASE Del
  BY <1>5, DelFrame, UntouchedMarks DEF Inv, PoolInv
<1>6. CASE Vac
  BY <1>6, VacFrame, VacKinds
<1> QED
  BY <1>1, <1>2, <1>3, <1>4, <1>5, <1>6, Parties

-----------------------------------------------------------------------------
(* What holds in the pool after a step of any kind.                        *)

\* A reservation changes in_used of the slot at insert_idx.
LEMMA ReservesFacts ==
    ASSUME Inv, Reserves
    PROVE  /\ flushed_segments' \in [Idx -> SegmentType]
           /\ \A i \in Idx : i # insert_idx => flushed_segments'[i] = seg(i)
           /\ flushed_segments'[insert_idx].in_used
           /\ ~flushed_segments'[insert_idx].is_compacting
           /\ flushed_segments'[insert_idx].load_state = "none"
           /\ flushed_segments'[insert_idx].ref_count = 0
<1>1. flushed_segments \in [Idx -> SegmentType]
  BY DEF Inv, PoolInv, TypeOK
<1> DEFINE n == [EmptySegment EXCEPT !.in_used = TRUE]
<1>2. /\ n \in SegmentType /\ n.in_used /\ ~n.is_compacting /\ n.load_state = "none"
      /\ n.ref_count = 0
  BY EmptyType DEF SegmentType
<1>3. flushed_segments' = [flushed_segments EXCEPT ![insert_idx] = n]
  BY <1>1 DEF Reserves
<1> HIDE DEF n
<1> QED
  BY <1>1, <1>2, <1>3 DEF Reserves

\* The reserved slot is filled in from a file of the segment, the others stay.
LEMMA FillsFacts ==
    ASSUME Inv, Fills
    PROVE  /\ flushed_segments' \in [Idx -> SegmentType]
           /\ \A i \in Idx : i # ridx => flushed_segments'[i] = seg(i)
           /\ flushed_segments'[ridx].in_used
           /\ ~flushed_segments'[ridx].is_compacting
           /\ flushed_segments'[ridx].load_state = "full"
           /\ flushed_segments'[ridx].ref_count = seg(ridx).ref_count
           /\ flushed_segments'[ridx].start = rsid /\ flushed_segments'[ridx].end = rsid
           /\ \E f \in files :
                /\ f.start = rsid /\ f.end = rsid
                /\ f.version = flushed_segments'[ridx].version
                /\ f.rows = flushed_segments'[ridx].rows
                /\ f.mask = flushed_segments'[ridx].mask
<1>1. flushed_segments \in [Idx -> SegmentType] /\ files \subseteq FileType
  BY DEF Inv, PoolInv, TypeOK
<1>2. PICK f \in files :
         /\ f.start = rsid /\ f.end = rsid
         /\ flushed_segments' = [flushed_segments EXCEPT ![ridx] = Loaded(@, f, "full")]
  BY DEF Fills
<1>3. ridx \in Idx /\ seg(ridx) \in SegmentType
  BY <1>1 DEF Fills
<1>4. /\ f.start \in AnySid /\ f.end \in AnySid /\ f.version \in Nat
      /\ f.rows \subseteq Row /\ f.mask \subseteq Row
  BY <1>1 DEF FileType
<1> DEFINE n == Loaded(seg(ridx), f, "full")
<1>5. /\ n \in SegmentType
      /\ n.in_used /\ ~n.is_compacting
      /\ n.start = f.start /\ n.end = f.end
      /\ n.version = f.version
      /\ n.rows = f.rows /\ n.mask = f.mask
      /\ n.load_state = "full"
      /\ n.ref_count = seg(ridx).ref_count
  BY <1>3, <1>4, LoadedIs, SMTT(40)
<1>6. flushed_segments' = [flushed_segments EXCEPT ![ridx] = n]
  BY <1>2
<1> HIDE DEF n
<1> QED
  BY <1>1, <1>2, <1>3, <1>5, <1>6

\* A cleanup leaves the other slots alone.
LEMMA CleansFacts ==
    ASSUME Inv, NEW j, Cleans(j)
    PROVE  /\ j \in Idx /\ j \notin Linked
           /\ flushed_segments' \in [Idx -> SegmentType]
           /\ \A i \in Idx : i # j => flushed_segments'[i] = seg(i)
           /\ flushed_segments'[j] = Cleaned(seg(j))
<1>1. flushed_segments \in [Idx -> SegmentType]
  BY DEF Inv, PoolInv, TypeOK
<1>2. j \in Idx /\ seg(j) \in SegmentType /\ seg(j).ref_count = 0
  BY <1>1 DEF Cleans, Used
<1>3. j \notin Linked
  BY <1>2, PinnedFacts
<1>4. Cleaned(seg(j)) \in SegmentType
  BY <1>2, CleanedIs
<1> QED
  BY <1>1, <1>2, <1>3, <1>4 DEF Cleans

\* The pool keeps its type.
LEMMA PoolType ==
    ASSUME Inv, Next, insert_idx <= insert_idx'
    PROVE  /\ flushed_segments' \in [Idx -> SegmentType]
           /\ head_idx' \in AnyIdx /\ tail_idx' \in AnyIdx
           /\ insert_idx' \in 0 .. MAX_SEGMENTS_COUNT
<1>1. /\ head_idx \in AnyIdx /\ tail_idx \in AnyIdx
      /\ insert_idx \in 0 .. MAX_SEGMENTS_COUNT
  BY DEF Inv, PoolInv, TypeOK
<1>2. CASE Marks
  BY <1>1, <1>2 DEF Marks
<1>3. CASE Reserves
  <2>1. insert_idx + 1 \in 0 .. MAX_SEGMENTS_COUNT
    BY <1>3, Constants DEF Reserves
  <2> QED
    BY <1>1, <1>3, <2>1, ReservesFacts DEF Reserves
<1>4. CASE \E j : Cleans(j)
  BY <1>1, <1>4, CleansFacts DEF Cleans
<1>5. CASE Fills
  BY <1>1, <1>5, FillsFacts DEF Fills
<1>6. CASE Appends(ridx)
  BY <1>1, <1>6, Constants DEF Appends
<1>7. CASE Swaps
  <2>1. insert_idx \in Idx => insert_idx + 1 \in 0 .. MAX_SEGMENTS_COUNT
    BY Constants
  <2> QED
    BY <1>1, <1>7, <2>1, Constants DEF Swaps, Replaces
<1> QED
  BY <1>2, <1>3, <1>4, <1>5, <1>6, <1>7, Kinds

\* Nobody but register_flushed_segment and replace_flushed_segments_n edits the
\* list.
LEMMA LinkedStays ==
    ASSUME Inv, Marks \/ Reserves \/ Fills \/ (\E j : Cleans(j))
    PROVE  /\ Linked' = Linked
           /\ registered' = registered => ListInv'
           /\ \A i \in Linked : flushed_segments'[i].next_idx = seg(i).next_idx
<1>1. ListInv /\ Linked \subseteq Idx /\ InHand
  BY PinnedFacts DEF Inv, PoolInv
<1>2. head_idx' = head_idx /\ tail_idx' = tail_idx
  BY DEF Marks, Reserves, Fills, Cleans
<1>3. ASSUME NEW i \in Linked
      PROVE  LET g == flushed_segments[i]
                 n == flushed_segments'[i]
             IN /\ n.prev_idx = g.prev_idx /\ n.next_idx = g.next_idx
                /\ n.start = g.start /\ n.end = g.end
  <2>1. CASE Marks
    BY <1>1, <2>1 DEF Marks, Kept
  <2>2. CASE Reserves
    <3>1. i # insert_idx
      BY <1>1, <2>2, Constants DEF InHand, Used, Reserves
    <3> QED
      BY <1>1, <2>2, <3>1, ReservesFacts
  <2>3. CASE Fills
    BY <1>1, <2>3, FillsFacts DEF Fills
  <2>4. CASE \E j : Cleans(j)
    BY <1>1, <2>4, CleansFacts
  <2> QED
    BY <2>1, <2>2, <2>3, <2>4
<1> QED
  BY <1>1, <1>2, <1>3, ListKept

\* The list stays a list of the registered sids.
LEMMA ListStep ==
    ASSUME Inv, Next, insert_idx <= insert_idx'
    PROVE  ListInv'
<1>0. UNION {seg(i).start .. seg(i).end : i \in Linked} = registered /\ Linked \subseteq Idx
  BY PinnedFacts DEF Inv, PoolInv, ListInv
<1>1. CASE (Marks \/ Reserves \/ Fills \/ (\E j : Cleans(j))) /\ registered' = registered
  BY <1>1, LinkedStays
<1>2. CASE RegularRegister /\ Appends(ridx)
  <2>1. registered' = registered \cup {rsid} /\ seg(ridx).start = rsid /\ seg(ridx).end = rsid
    BY <1>2 DEF RegularRegister, Inv, RowsInv, TasksInv
  <2>2. rsid \in Nat /\ rsid .. rsid = {rsid}
    <3>1. rsid \in Nat
      BY Constants DEF Inv, PoolInv, TypeOK
    <3> QED
      BY <3>1
  <2>3. \A i \in Linked : flushed_segments'[i].start = seg(i).start
                          /\ flushed_segments'[i].end = seg(i).end
    BY <1>0, <1>2 DEF Appends, Steady
  <2>4. flushed_segments'[ridx].start = rsid /\ flushed_segments'[ridx].end = rsid
    BY <1>2, <2>1 DEF Appends, Holds
  <2> DEFINE L == Linked
             segs2 == flushed_segments'
  <2>5. \A r : r \in registered <=> \E i \in L : r \in segs2[i].start .. segs2[i].end
    BY <1>0, <2>3
  <2>6. Linked' = L \cup {ridx}
    BY <1>2 DEF Appends
  <2>7. UNION {segs2[i].start .. segs2[i].end : i \in L \cup {ridx}} = registered'
    <3> HIDE DEF L, segs2
    <3>1. segs2[ridx].start .. segs2[ridx].end = {rsid}
      BY <2>2, <2>4 DEF segs2
    <3> QED
      BY <2>1, <2>5, <3>1
  <2>8. Chain(flushed_segments', head_idx', tail_idx', Linked')
    BY <1>2 DEF Appends
  <2> QED
    BY <2>6, <2>7, <2>8 DEF ListInv
<1>3. CASE Swaps /\ registered' = registered
  <2>1. PICK a, b, i, new : /\ Replaces(a, b, i, new)
                            /\ new.start = seg(a).start /\ new.end = seg(b).end
    BY <1>3 DEF Swaps
  <2> DEFINE L == Linked
             segs2 == flushed_segments'
  <2>2. /\ a \in L /\ b \in L /\ i \in Idx \ L
        /\ a = b \/ flushed_segments[a].next_idx = b
        /\ Linked' = (L \ {a, b}) \cup {i}
        /\ Chain(flushed_segments', head_idx', tail_idx', Linked')
        /\ Chain(flushed_segments, head_idx, tail_idx, L)
    BY <2>1 DEF Replaces, Inv, PoolInv, ListInv
  <2>3. /\ \A j \in L \ {a, b} : segs2[j].start = seg(j).start /\ segs2[j].end = seg(j).end
        /\ segs2[i].start = seg(a).start /\ segs2[i].end = seg(b).end
    BY <1>0, <2>1 DEF Replaces, Steady, Holds
  <2>4. a # b => seg(b).start = seg(a).end + 1
    <3>1. a # b => a # tail_idx
      BY <2>2, <1>0, Constants DEF Chain
    <3> QED
      BY <2>2, <3>1 DEF Chain
  <2>5. /\ seg(a).start \in Nat /\ seg(a).end \in Nat /\ seg(a).start <= seg(a).end
        /\ seg(b).start \in Nat /\ seg(b).end \in Nat /\ seg(b).start <= seg(b).end
    BY <2>2 DEF Chain
  <2>6. \A r : r \in seg(a).start .. seg(b).end <=>
                 r \in seg(a).start .. seg(a).end \/ r \in seg(b).start .. seg(b).end
    BY <2>4, <2>5
  <2>7. \A r : r \in registered <=> \E j \in L : r \in seg(j).start .. seg(j).end
    BY <1>0
  <2>8. UNION {segs2[j].start .. segs2[j].end : j \in (L \ {a, b}) \cup {i}} = registered
    <3> HIDE DEF L, segs2
    <3> QED
      BY <2>2, <2>3, <2>6, <2>7
  <2> QED
    BY <1>3, <2>2, <2>8 DEF ListInv
<1> QED
  BY <1>1, <1>2, <1>3, Kinds

\* What a slot keeps from when it comes into the list.
Same(i) ==
    LET g == flushed_segments[i]
        n == flushed_segments'[i]
    IN /\ n.start = g.start /\ n.end = g.end /\ n.version = g.version
       /\ n.load_state = g.load_state

\* What is in a used slot stays what it is.
LEMMA SlotsStay ==
    ASSUME Inv, Next, insert_idx <= insert_idx', NEW i, Used(i)
    PROVE  Same(i)
<1>0. i \in Idx /\ i < insert_idx /\ ~Coming(i) /\ seg(i) \in SegmentType
  BY PinnedFacts DEF Used
<1>1. CASE Marks
  BY <1>0, <1>1 DEF Marks, Kept, Same
<1>2. CASE Reserves
  <2>1. i # insert_idx
    BY <1>0, Constants
  <2> QED
    BY <1>0, <1>2, <2>1, ReservesFacts DEF Same
<1>3. CASE \E j : Cleans(j)
  BY <1>0, <1>3, CleansFacts, CleanedIs DEF Same
<1>4. CASE Fills
  BY <1>0, <1>4, FillsFacts DEF Fills, Same
<1>5. CASE Appends(ridx)
  BY <1>0, <1>5 DEF Appends, Same, Steady, Holds
<1>6. CASE Swaps
  <2>1. PICK a, b, j, new : Replaces(a, b, j, new) /\ (Coming(j) \/ j >= insert_idx)
    BY <1>6 DEF Swaps
  <2>2. i # j
    <3>1. j \in Nat /\ insert_idx \in Nat /\ i \in Nat
      BY <1>0, <2>1, Constants DEF Replaces, Inv, PoolInv, TypeOK
    <3> QED
      BY <1>0, <2>1, <3>1
  <2>3. CASE i \in {a, b}
    <3>1. flushed_segments'[i] = Dropped(seg(i)) /\ i \in Linked
      BY <2>1, <2>3 DEF Replaces
    <3>2. seg(i).ref_count > 0
      BY <3>1, PinnedFacts
    <3> QED
      BY <1>0, <3>1, <3>2, DroppedIs DEF Same
  <2>4. CASE i \notin {a, b}
    BY <1>0, <2>1, <2>2, <2>4 DEF Replaces, Steady, Same
  <2> QED
    BY <2>3, <2>4
<1> QED
  BY <1>1, <1>2, <1>3, <1>4, <1>5, <1>6, Kinds

-----------------------------------------------------------------------------
(* Merge threads.                                                          *)

\* MergeStep changes the label and the task of one thread.
LEMMA MergeStepIs ==
    ASSUME TypeOK, NEW t \in Merger, NEW label, NEW k, MergeStep(t, label, k)
    PROVE  /\ mpc'[t] = label /\ task'[t] = k
           /\ \A u \in Merger \ {t} : mpc'[u] = mpc[u] /\ task'[u] = task[u]
           /\ mpc' = [u \in Merger |-> mpc'[u]] /\ task' = [u \in Merger |-> task'[u]]
  BY DEF TypeOK, MergeStep

\* The fields of a task.
LEMMA TaskFields ==
    ASSUME TypeOK, NEW t \in Merger
    PROVE  /\ task[t] \in TaskType
           /\ task[t].lo \in AnyIdx /\ task[t].hi \in AnyIdx
           /\ task[t].start \in AnySid /\ task[t].end \in AnySid
           /\ task[t].src \subseteq FileId /\ task[t].rows \subseteq Row
           /\ task[t].mask \subseteq Row /\ task[t].version \in Nat
           /\ task[t].new \in AnyIdx
<1>1. task[t] \in TaskType
  BY DEF TypeOK
<1> QED
  BY <1>1 DEF TaskType

\* The task of an idle thread is a task.
LEMMA NoTaskType == NoTask \in TaskType
<1>1. NIL \in AnyIdx /\ 0 \in AnySid
  BY Constants
<1> QED
  BY <1>1 DEF NoTask, TaskType

\* The neighbour that choose_adjacent_smaller_pool finds.
LEMMA AdjacentIs ==
    ASSUME Inv, NEW i \in Linked, Adjacent(i) # NIL
    PROVE  LET j == Adjacent(i) IN
           /\ j \in Linked
           /\ seg(j).start < seg(i).start => seg(j).next_idx = i
           /\ ~(seg(j).start < seg(i).start) => seg(i).next_idx = j
<1>1. Chain(flushed_segments, head_idx, tail_idx, Linked)
  BY DEF Inv, PoolInv, ListInv
<1>2. Adjacent(i) \in {seg(i).prev_idx, seg(i).next_idx}
  BY DEF Adjacent
<1> DEFINE j == Adjacent(i)
           L == Linked
<1> HIDE DEF j, L
<1>a. Chain(flushed_segments, head_idx, tail_idx, L) /\ i \in L
  BY <1>1 DEF L
<1>3. CASE j = seg(i).prev_idx
  <2>1. i # head_idx
    BY <1>a, <1>3 DEF Chain, j
  <2>2. j \in L /\ j # tail_idx /\ seg(j).next_idx = i
    BY <1>a, <1>3, <2>1 DEF Chain
  <2>3. seg(i).start = seg(j).end + 1 /\ seg(j).start <= seg(j).end
        /\ seg(j).start \in Nat /\ seg(j).end \in Nat
    BY <1>a, <2>2 DEF Chain
  <2>4. seg(j).start < seg(i).start
    BY <2>3
  <2> QED
    BY <2>2, <2>4 DEF j, L
<1>4. CASE j = seg(i).next_idx
  <2>1. i # tail_idx
    BY <1>a, <1>4 DEF Chain, j
  <2>2. j \in L /\ seg(j).start = seg(i).end + 1 /\ seg(i).start <= seg(i).end
        /\ seg(i).start \in Nat /\ seg(i).end \in Nat
    BY <1>a, <1>4, <2>1 DEF Chain
  <2>3. ~(seg(j).start < seg(i).start)
    BY <2>2
  <2> QED
    BY <1>4, <2>2, <2>3 DEF j, L
<1> QED
  BY <1>2, <1>3, <1>4 DEF j

\* traverse_and_check_priority_pool chooses a segment or two neighbours of the list.
LEMMA ScanTask ==
    ASSUME Inv, NEW t \in Merger, MergeScan(t)
    PROVE  /\ mpc[t] = "idle" /\ mpc'[t] = "claim" /\ task'[t] \in TaskType
           /\ task'[t].lo \in Linked /\ task'[t].hi \in Linked
           /\ task'[t].lo = task'[t].hi \/ seg(task'[t].lo).next_idx = task'[t].hi
           /\ \A u \in Merger \ {t} : mpc'[u] = mpc[u] /\ task'[u] = task[u]
           /\ mpc' = [u \in Merger |-> mpc'[u]] /\ task' = [u \in Merger |-> task'[u]]
<1>1. TypeOK
  BY Zenon DEF Inv, PoolInv
<1>2. PICK i \in Linked :
          \/ MergeStep(t, "claim", [NoTask EXCEPT !.lo = i, !.hi = i])
          \/ LET j == Adjacent(i) IN
                /\ j # NIL
                /\ MergeStep(t, "claim",
                      IF seg(j).start < seg(i).start
                      THEN [NoTask EXCEPT !.lo = j, !.hi = i]
                      ELSE [NoTask EXCEPT !.lo = i, !.hi = j])
  BY DEF MergeScan
<1>3. \E a, b \in Linked : /\ a = b \/ seg(a).next_idx = b
                           /\ MergeStep(t, "claim", [NoTask EXCEPT !.lo = a, !.hi = b])
  BY <1>2, AdjacentIs
<1>4. PICK a, b \in Linked : /\ a = b \/ seg(a).next_idx = b
                             /\ MergeStep(t, "claim", [NoTask EXCEPT !.lo = a, !.hi = b])
  BY <1>3
<1>5. a \in AnyIdx /\ b \in AnyIdx
  BY PinnedFacts, Constants
<1> DEFINE k == [NoTask EXCEPT !.lo = a, !.hi = b]
<1>6. k \in TaskType /\ k.lo = a /\ k.hi = b
  BY <1>5, NoTaskType DEF TaskType
<1> HIDE DEF k
<1>7. mpc[t] = "idle"
  BY DEF MergeScan, MergeAt
<1>8. MergeStep(t, "claim", k)
  BY <1>4 DEF k
<1> QED
  BY <1>1, <1>4, <1>6, <1>7, <1>8, MergeStepIs

\* The slots and the range of a task do not change.
SameTask(t) ==
    LET k == task[t]
        n == task'[t]
    IN /\ n \in TaskType
       /\ n.lo = k.lo /\ n.hi = k.hi /\ n.start = k.start /\ n.end = k.end

Others(t) ==
    /\ \A u \in Merger \ {t} : mpc'[u] = mpc[u] /\ task'[u] = task[u]
    /\ mpc' = [u \in Merger |-> mpc'[u]] /\ task' = [u \in Merger |-> task'[u]]

\* A claim sets the range of the new segment.
LEMMA ClaimTask ==
    ASSUME Inv, NEW t \in Merger, MergeClaim(t)
    PROVE  /\ mpc[t] = "claim" /\ Others(t) /\ task'[t] \in TaskType
           /\ \/ /\ mpc'[t] = "load"
                 /\ Eligible(task[t].lo) /\ Eligible(task[t].hi)
                 /\ task'[t].lo = task[t].lo /\ task'[t].hi = task[t].hi
                 /\ task'[t].start = seg(task[t].lo).start
                 /\ task'[t].end = seg(task[t].hi).end
                 /\ flushed_segments' =
                      [i \in Idx |-> IF i \in {task[t].lo, task[t].hi}
                                     THEN [seg(i) EXCEPT !.is_compacting = TRUE]
                                     ELSE seg(i)]
              \/ /\ mpc'[t] = "idle" /\ UNCHANGED flushed_segments
<1>1. TypeOK /\ InHand
  BY DEF Inv, PoolInv
<1>2. mpc[t] = "claim"
  BY DEF MergeClaim, MergeAt
<1>3. task[t].lo \in Idx /\ task[t].hi \in Idx
  BY <1>1, <1>2 DEF InHand, Used
<1> DEFINE k == [task[t] EXCEPT !.start = seg(task[t].lo).start,
                                !.end = seg(task[t].hi).end]
<1>4. /\ k \in TaskType /\ k.lo = task[t].lo /\ k.hi = task[t].hi
      /\ k.start = seg(task[t].lo).start /\ k.end = seg(task[t].hi).end
  <2>1. seg(task[t].lo).start \in AnySid /\ seg(task[t].hi).end \in AnySid
    BY <1>3, PinnedFacts, SegmentFields
  <2>2. task[t] \in TaskType
    BY <1>1, TaskFields
  <2> QED
    BY <2>1, <2>2 DEF TaskType
<1> HIDE DEF k
<1>5. CASE /\ Eligible(task[t].lo) /\ Eligible(task[t].hi)
           /\ flushed_segments' =
                [i \in Idx |-> IF i \in {task[t].lo, task[t].hi}
                               THEN [seg(i) EXCEPT !.is_compacting = TRUE]
                               ELSE seg(i)]
           /\ MergeStep(t, "load", k)
  <2>1. mpc'[t] = "load" /\ task'[t] = k /\ Others(t)
    BY <1>1, <1>5, MergeStepIs DEF Others
  <2> QED
    BY <1>2, <1>4, <1>5, <2>1
<1>6. CASE MergeStep(t, "idle", NoTask) /\ UNCHANGED flushed_segments
  <2>1. mpc'[t] = "idle" /\ task'[t] = NoTask /\ Others(t)
    BY <1>1, <1>6, MergeStepIs DEF Others
  <2> QED
    BY <1>2, <1>6, <2>1, NoTaskType
<1>7. \/ /\ Eligible(task[t].lo) /\ Eligible(task[t].hi)
         /\ flushed_segments' =
                [i \in Idx |-> IF i \in {task[t].lo, task[t].hi}
                               THEN [seg(i) EXCEPT !.is_compacting = TRUE]
                               ELSE seg(i)]
         /\ MergeStep(t, "load", k)
      \/ MergeStep(t, "idle", NoTask) /\ UNCHANGED flushed_segments
  BY DEF MergeClaim, k
<1> QED
  BY <1>5, <1>6, <1>7

\* The segments a merge thread has claimed have files.
LEMMA SourceFacts ==
    ASSUME Inv, NEW t \in Merger, mpc[t] \in Claiming, NEW i \in {task[t].lo, task[t].hi}
    PROVE  LET f == Load(seg(i).start, seg(i).end, LatestVersion(seg(i).start, seg(i).end)) IN
           /\ f \in files /\ f.start = seg(i).start /\ f.end = seg(i).end
           /\ f.version \in Versions(f.start, f.end)
           /\ f \in FileType
<1>1. TypeOK /\ FilesInv /\ SegmentsInv /\ Claims
  BY DEF Inv, PoolInv, RowsInv
<1>2. i \in Linked
  BY <1>1 DEF Claims
<1>3. i \in Idx /\ seg(i).ref_count > 0
  BY <1>2, PinnedFacts
<1>4. Filed(seg(i).start, seg(i).end, seg(i).version, seg(i).rows)
  BY <1>1, <1>3 DEF SegmentsInv
<1>5. LatestVersion(seg(i).start, seg(i).end) \in Versions(seg(i).start, seg(i).end)
  BY <1>1, <1>4, FiledIs
<1> DEFINE f == Load(seg(i).start, seg(i).end, LatestVersion(seg(i).start, seg(i).end))
<1>6. /\ f \in files /\ f.start = seg(i).start /\ f.end = seg(i).end
      /\ f.version = LatestVersion(seg(i).start, seg(i).end)
  BY <1>1, <1>5, LoadIs
<1> HIDE DEF f
<1>7. f \in FileType /\ f.version \in Versions(f.start, f.end)
  BY <1>1, <1>5, <1>6, Zenon DEF TypeOK
<1> QED
  BY <1>6, <1>7 DEF f

\* The load of the old files sets the rows, and keeps the range.
LEMMA LoadTask ==
    ASSUME Inv, NEW t \in Merger, MergeLoad(t)
    PROVE  /\ mpc[t] = "load" /\ mpc'[t] = "lock" /\ Others(t) /\ SameTask(t)
           /\ \E f1, f2 \in files :
                /\ f1.start = seg(task[t].lo).start /\ f1.end = seg(task[t].lo).end
                /\ f2.start = seg(task[t].hi).start /\ f2.end = seg(task[t].hi).end
                /\ task[t].lo = task[t].hi => f1 = f2
                /\ task'[t].rows = IF task[t].lo = task[t].hi
                                   THEN (f1.rows \cup f2.rows) \ f1.mask
                                   ELSE f1.rows \cup f2.rows
           /\ \A g \in task'[t].src : g.version \in Versions(g.start, g.end)
<1>1. TypeOK
  BY DEF Inv, PoolInv
<1>2. mpc[t] = "load" /\ mpc[t] \in Claiming
  BY DEF MergeLoad, MergeBuild, MergeAt, Claiming
<1> DEFINE Source(i) == Load(seg(i).start, seg(i).end,
                             LatestVersion(seg(i).start, seg(i).end))
           a == task[t].lo
           b == task[t].hi
           f1 == Source(a)
           f2 == Source(b)
           src == {Source(i) : i \in {a, b}}
           all == UNION {f.rows : f \in src}
           ids == {[start |-> f.start, end |-> f.end, version |-> f.version] : f \in src}
           rows == IF a = b THEN all \ f1.mask ELSE all
           k == [task[t] EXCEPT !.src = ids, !.rows = rows]
<1>3. MergeStep(t, "lock", k)
  BY Zenon DEF MergeLoad, MergeBuild
<1>4. /\ f1 \in files /\ f1.start = seg(a).start /\ f1.end = seg(a).end
      /\ f1.version \in Versions(f1.start, f1.end) /\ f1 \in FileType
  BY <1>2, SourceFacts, Zenon
<1>5. /\ f2 \in files /\ f2.start = seg(b).start /\ f2.end = seg(b).end
      /\ f2.version \in Versions(f2.start, f2.end) /\ f2 \in FileType
  BY <1>2, SourceFacts
<1>6. a = b => f1 = f2
  OBVIOUS
<1>7. src = {f1, f2}
  OBVIOUS
<1> HIDE DEF f1, f2, Source
<1>8. all = f1.rows \cup f2.rows
  BY <1>7
<1>9. ids = {[start |-> f1.start, end |-> f1.end, version |-> f1.version],
             [start |-> f2.start, end |-> f2.end, version |-> f2.version]}
  BY <1>7
<1> HIDE DEF src
<1>10. rows = (IF a = b THEN (f1.rows \cup f2.rows) \ f1.mask ELSE f1.rows \cup f2.rows)
  BY <1>8
<1>11. rows \subseteq Row /\ ids \subseteq FileId
  <2>1. /\ f1.rows \subseteq Row /\ f2.rows \subseteq Row
        /\ f1.start \in AnySid /\ f1.end \in AnySid /\ f1.version \in Nat
        /\ f2.start \in AnySid /\ f2.end \in AnySid /\ f2.version \in Nat
    BY <1>4, <1>5 DEF FileType
  <2> HIDE DEF all, ids, rows
  <2> QED
    BY <2>1, <1>9, <1>10 DEF FileId
<1>12. \A g \in ids : g.version \in Versions(g.start, g.end)
  BY <1>4, <1>5, <1>9
<1> HIDE DEF all, ids, rows
<1>13. /\ k \in TaskType /\ k.lo = a /\ k.hi = b /\ k.start = task[t].start
       /\ k.end = task[t].end /\ k.src = ids /\ k.rows = rows
  <2>1. task[t] \in TaskType
    BY <1>1, TaskFields
  <2> QED
    BY <2>1, <1>11 DEF TaskType
<1> HIDE DEF k
<1>14. mpc'[t] = "lock" /\ task'[t] = k /\ Others(t)
  BY <1>1, <1>3, MergeStepIs DEF Others
<1>15. SameTask(t)
  BY <1>13, <1>14 DEF SameTask
<1> QED
  BY <1>2, <1>4, <1>5, <1>6, <1>10, <1>12, <1>13, <1>14, <1>15

\* Locking the mutexes keeps the task.
LEMMA LockTask ==
    ASSUME Inv, NEW t \in Merger, MergeLock(t) \/ MergeLock2(t)
    PROVE  /\ mpc[t] \in {"lock", "lock2"} /\ mpc'[t] \in {"lock2", "reload"}
           /\ task'[t] = task[t] /\ Others(t) /\ SameTask(t)
<1>1. TypeOK
  BY DEF Inv, PoolInv
<1>2. task[t] \in TaskType
  BY <1>1, TaskFields
<1>3. CASE MergeLock(t)
  BY <1>1, <1>2, <1>3, MergeStepIs DEF MergeLock, MergeAt, Others, SameTask
<1>4. CASE MergeLock2(t)
  BY <1>1, <1>2, <1>4, MergeStepIs DEF MergeLock2, MergeAt, Others, SameTask
<1> QED
  BY <1>3, <1>4

\* The second look at the bitmaps sets the mask.
LEMMA ReloadTask ==
    ASSUME Inv, NEW t \in Merger, MergeReload(t)
    PROVE  /\ mpc[t] = "reload" /\ mpc'[t] = "write" /\ Others(t) /\ SameTask(t)
           /\ task'[t].rows = task[t].rows
           /\ \A r \in task'[t].mask :
                \E f \in task[t].src : r \in Load(f.start, f.end, f.version).mask
<1>1. TypeOK
  BY DEF Inv, PoolInv
<1> DEFINE mask == UNION {Load(f.start, f.end, f.version).mask : f \in task[t].src}
           k == [task[t] EXCEPT !.mask = mask \cap task[t].rows]
<1>2. mpc[t] = "reload" /\ MergeStep(t, "write", k)
  BY DEF MergeReload, MergeMask, MergeAt
<1>a. \A r \in mask : \E f \in task[t].src : r \in Load(f.start, f.end, f.version).mask
  OBVIOUS
<1> HIDE DEF mask
<1>3. task[t] \in TaskType /\ mask \cap task[t].rows \subseteq Row
  BY <1>1, TaskFields
<1>4. /\ k \in TaskType /\ k.lo = task[t].lo /\ k.hi = task[t].hi
      /\ k.start = task[t].start /\ k.end = task[t].end /\ k.rows = task[t].rows
      /\ k.mask = mask \cap task[t].rows
  BY <1>3 DEF TaskType
<1> HIDE DEF k
<1>5. mpc'[t] = "write" /\ task'[t] = k /\ Others(t)
  BY <1>1, <1>2, MergeStepIs DEF Others
<1>6. SameTask(t) /\ task'[t].rows = task[t].rows
  BY <1>4, <1>5 DEF SameTask
<1>7. task'[t].mask = mask \cap task[t].rows
  BY <1>4, <1>5
<1> QED
  BY <1>2, <1>5, <1>6, <1>7, <1>a

\* Writing the new files sets the version.
LEMMA WriteTask ==
    ASSUME Inv, NEW t \in Merger, MergeWrite(t)
    PROVE  /\ mpc[t] = "write" /\ mpc'[t] = "reserve" /\ Others(t) /\ SameTask(t)
           /\ task'[t].rows = task[t].rows /\ task'[t].mask = task[t].mask
           /\ task'[t].version = LatestVersion(task[t].start, task[t].end) + 1
<1>1. TypeOK /\ FilesInv
  BY DEF Inv, PoolInv, RowsInv
<1> DEFINE v == LatestVersion(task[t].start, task[t].end) + 1
           k == [task[t] EXCEPT !.version = v]
<1>2. mpc[t] = "write" /\ MergeStep(t, "reserve", k)
  BY DEF MergeWrite, MergeAt
<1>3. task[t] \in TaskType /\ v \in Nat
  BY <1>1, TaskFields, LatestIs
<1> HIDE DEF v
<1>4. /\ k \in TaskType /\ k.lo = task[t].lo /\ k.hi = task[t].hi
      /\ k.start = task[t].start /\ k.end = task[t].end /\ k.rows = task[t].rows
      /\ k.mask = task[t].mask /\ k.version = v
  BY <1>3 DEF TaskType
<1> HIDE DEF k
<1>5. mpc'[t] = "reserve" /\ task'[t] = k /\ Others(t)
  BY <1>1, <1>2, MergeStepIs DEF Others
<1> QED
  BY <1>2, <1>4, <1>5 DEF SameTask, v

\* A reservation sets the new slot.
LEMMA ReserveTask ==
    ASSUME Inv, NEW t \in Merger, MergeReserve(t)
    PROVE  /\ mpc[t] = "reserve" /\ Others(t) /\ SameTask(t)
           /\ task'[t].rows = task[t].rows /\ task'[t].mask = task[t].mask
           /\ task'[t].version = task[t].version
           /\ \/ mpc'[t] = "giveup" /\ UNCHANGED poolVars
              \/ mpc'[t] = "replace" /\ Reserves /\ task'[t].new = insert_idx
<1>1. TypeOK /\ Reserving
  BY DEF Inv, PoolInv
<1>2. mpc[t] = "reserve" /\ task[t] \in TaskType
  BY <1>1, TaskFields DEF MergeReserve, MergeAt
<1>3. CASE Reserved = NIL
  <2>1. MergeStep(t, "giveup", task[t]) /\ UNCHANGED poolVars
    BY <1>3 DEF MergeReserve
  <2>2. mpc'[t] = "giveup" /\ task'[t] = task[t] /\ Others(t)
    BY <1>1, <2>1, MergeStepIs DEF Others
  <2> QED
    BY <1>2, <2>1, <2>2 DEF SameTask
<1>4. CASE Reserved # NIL
  <2> DEFINE k == [task[t] EXCEPT !.new = insert_idx]
  <2>1. Reserved = insert_idx /\ insert_idx \in Idx
    BY <1>1, <1>4, ReservedIs
  <2>2. MergeStep(t, "replace", k) /\ Reserves
    BY <1>1, <1>4, <2>1, ReservedReserves DEF MergeReserve
  <2>3. /\ k \in TaskType /\ k.lo = task[t].lo /\ k.hi = task[t].hi
        /\ k.start = task[t].start /\ k.end = task[t].end /\ k.rows = task[t].rows
        /\ k.mask = task[t].mask /\ k.version = task[t].version /\ k.new = insert_idx
    BY <1>2, <2>1, Constants DEF TaskType
  <2> HIDE DEF k
  <2>4. mpc'[t] = "replace" /\ task'[t] = k /\ Others(t)
    BY <1>1, <2>2, MergeStepIs DEF Others
  <2> QED
    BY <1>2, <2>2, <2>3, <2>4 DEF SameTask
<1> QED
  BY <1>3, <1>4

\* What the end of a merge makes of its task and of the marks of its slots.
LEMMA EndTask ==
    ASSUME Inv, NEW t \in Merger
    PROVE  /\ MergeReplace(t) => mpc[t] = "replace" /\ mpc'[t] = "unlock"
                                 /\ task'[t] = task[t] /\ Others(t) /\ SameTask(t)
           /\ MergeGiveUp(t) => mpc[t] = "giveup" /\ mpc'[t] = "idle" /\ Others(t)
                                /\ task'[t] \in TaskType
                                /\ flushed_segments' = Unlocked(task[t], FALSE)
           /\ MergeUnlock(t) => mpc[t] = "unlock" /\ mpc'[t] = "idle" /\ Others(t)
                                /\ task'[t] \in TaskType
                                /\ flushed_segments' = Unlocked(task[t], TRUE)
<1>1. TypeOK
  BY DEF Inv, PoolInv
<1>2. task[t] \in TaskType
  BY <1>1, TaskFields
<1>3. CASE MergeReplace(t)
  BY <1>1, <1>2, <1>3, MergeStepIs DEF MergeReplace, MergeGiveUp, MergeUnlock, MergeAt, Others, SameTask
<1>4. CASE MergeGiveUp(t)
  BY <1>1, <1>4, MergeStepIs, NoTaskType DEF MergeReplace, MergeGiveUp, MergeUnlock, MergeAt, Others
<1>5. CASE MergeUnlock(t)
  BY <1>1, <1>5, MergeStepIs, NoTaskType DEF MergeReplace, MergeGiveUp, MergeUnlock, MergeAt, Others
<1> QED
  BY <1>3, <1>4, <1>5

-----------------------------------------------------------------------------
(* Slots that are reserved.                                                *)

\* What a merge thread's step is.
LEMMA MergeTable ==
    ASSUME Inv, NEW t \in Merger, Merge(t)
    PROVE  /\ Others(t) /\ task'[t] \in TaskType
           /\ \/ MergeScan(t) /\ mpc[t] = "idle" /\ mpc'[t] = "claim"
              \/ MergeClaim(t) /\ mpc[t] = "claim" /\ mpc'[t] \in {"load", "idle"}
              \/ /\ MergeLoad(t) \/ MergeLock(t) \/ MergeLock2(t) \/ MergeReload(t)
                    \/ MergeWrite(t)
                 /\ mpc[t] \in {"load", "lock", "lock2", "reload", "write"}
                 /\ mpc'[t] \in {"lock", "lock2", "reload", "write", "reserve"}
                 /\ SameTask(t)
              \/ /\ MergeReserve(t) /\ mpc[t] = "reserve" /\ SameTask(t)
                 /\ mpc'[t] \in {"giveup", "replace"}
              \/ MergeReplace(t) /\ mpc[t] = "replace" /\ mpc'[t] = "unlock" /\ SameTask(t)
              \/ MergeGiveUp(t) /\ mpc[t] = "giveup" /\ mpc'[t] = "idle"
              \/ MergeUnlock(t) /\ mpc[t] = "unlock" /\ mpc'[t] = "idle"
<1>1. CASE MergeScan(t)
  BY <1>1, ScanTask DEF Others
<1>2. CASE MergeClaim(t)
  BY <1>2, ClaimTask
<1>3. CASE MergeLoad(t)
  BY <1>3, LoadTask DEF SameTask
<1>4. CASE MergeLock(t) \/ MergeLock2(t)
  BY <1>4, LockTask DEF SameTask
<1>5. CASE MergeReload(t)
  BY <1>5, ReloadTask DEF SameTask
<1>6. CASE MergeWrite(t)
  BY <1>6, WriteTask DEF SameTask
<1>7. CASE MergeReserve(t)
  BY <1>7, ReserveTask DEF SameTask
<1>8. CASE MergeReplace(t) \/ MergeGiveUp(t) \/ MergeUnlock(t)
  BY <1>8, EndTask DEF SameTask
<1> QED
  BY <1>1, <1>2, <1>3, <1>4, <1>5, <1>6, <1>7, <1>8 DEF Merge, Compact

\* The thread that registers.
LEMMA RegTable ==
    ASSUME Inv, Reg
    PROVE  \/ rpc' \notin {"load", "register"}
           \/ rpc' = "load" /\ Reserves /\ ridx' = insert_idx
           \/ rpc' = "register" /\ rpc = "load" /\ ridx' = ridx /\ RegularLoad
  BY RegKinds DEF RegularRegister, RegularLoad

\* A slot on its way to the list was on its way before, or is reserved now.
LEMMA ComesFrom ==
    ASSUME Inv, Next, NEW i, Coming(i)'
    PROVE  Coming(i) \/ (i = insert_idx /\ Reserves)
<1>1. CASE UNCHANGED <<regVars, mergeVars>>
  BY <1>1 DEF Coming
<1>2. CASE Reg
  BY <1>2, RegFrame, RegTable DEF Coming
<1>3. CASE Mrg
  <2>1. PICK t \in Merger : Merge(t)
    BY <1>3 DEF Mrg
  <2>2. UNCHANGED regVars
    BY <2>1, MrgFrame
  <2>3. Others(t) /\ (mpc'[t] = "replace" => MergeReserve(t))
    BY <2>1, MergeTable
  <2>4. mpc'[t] = "replace" => Reserves /\ task'[t].new = insert_idx
    BY <2>3, ReserveTask
  <2> QED
    BY <2>2, <2>3, <2>4 DEF Coming, Others
<1> QED
  BY <1>1, <1>2, <1>3, Frames

\* A used slot is never on its way again.
LEMMA UsedStays ==
    ASSUME Inv, Next, insert_idx <= insert_idx', NEW i, Used(i)
    PROVE  Used(i)'
<1>0. TypeOK
  BY DEF Inv, PoolInv
<1>1. i \in Idx /\ i < insert_idx /\ ~Coming(i)
  BY DEF Used
<1>2. insert_idx \in Nat /\ insert_idx' \in Nat /\ i \in Nat
  BY <1>0, <1>1, PoolType, Constants DEF TypeOK
<1>3. ~Coming(i)'
  BY <1>1, <1>2, ComesFrom
<1> QED
  BY <1>1, <1>2, <1>3 DEF Used

\* Reserved slots stay one thread's each.
LEMMA ReservingStep ==
    ASSUME Inv, Next, insert_idx <= insert_idx'
    PROVE  Reserving'
<1>0. TypeOK /\ Reserving
  BY DEF Inv, PoolInv
<1>1. insert_idx \in Nat /\ insert_idx' \in Nat /\ Idx \subseteq Nat
  BY <1>0, PoolType, Constants DEF TypeOK
<1>2. ASSUME NEW i \in Idx, i >= insert_idx'
      PROVE  flushed_segments'[i] = EmptySegment
  <2>1. i >= insert_idx /\ i \in Nat
    BY <1>1, <1>2
  <2>2. seg(i) = EmptySegment /\ ~Used(i) /\ i \notin Linked
    BY <1>0, <2>1, ComingFacts DEF Reserving
  <2>3. CASE Marks
    BY <2>2, <2>3 DEF Marks
  <2>4. CASE Reserves
    BY <1>1, <1>2, <2>1, <2>2, <2>4, ReservesFacts DEF Reserves
  <2>5. CASE \E j : Cleans(j)
    BY <2>2, <2>5, CleansFacts DEF Cleans
  <2>6. CASE Fills
    <3>1. i # ridx
      BY <1>1, <2>1, <2>6 DEF Fills
    <3> QED
      BY <2>2, <2>6, <3>1, FillsFacts
  <2>7. CASE RegularRegister /\ Appends(ridx)
    <3>1. ridx < insert_idx /\ ridx \in Nat
      BY <1>0, <1>1, <2>7 DEF RegularRegister, Reserving, Coming
    <3>2. i # ridx
      BY <1>1, <2>1, <3>1
    <3> QED
      BY <2>2, <2>7, <3>2 DEF Appends
  <2>8. CASE Swaps
    <3>1. PICK a, b, j, new : Replaces(a, b, j, new) /\ j < insert_idx'
      BY <2>8 DEF Swaps
    <3>2. j # i
      BY <1>1, <1>2, <3>1 DEF Replaces
    <3> QED
      BY <2>2, <3>1, <3>2 DEF Replaces
  <2> QED
    BY <2>3, <2>4, <2>5, <2>6, <2>7, <2>8, Kinds
<1>3. ASSUME NEW i \in Idx, Coming(i)'
      PROVE  /\ i < insert_idx'
             /\ flushed_segments'[i].in_used /\ ~flushed_segments'[i].is_compacting
             /\ flushed_segments'[i].load_state # "mmap"
  <2>1. CASE i = insert_idx /\ Reserves
    BY <1>1, <2>1, ReservesFacts DEF Reserves
  <2>2. CASE Coming(i)
    <3>1. i < insert_idx /\ seg(i).in_used /\ ~seg(i).is_compacting
          /\ seg(i).load_state # "mmap" /\ ~Used(i)
      BY <1>0, <2>2 DEF Reserving, Used
    <3>2. i < insert_idx' /\ i # insert_idx /\ i \notin Linked
      BY <1>1, <2>2, <3>1, ComingFacts
    <3>3. CASE Marks
      BY <3>1, <3>2, <3>3 DEF Marks
    <3>4. CASE Reserves
      BY <3>1, <3>2, <3>4, ReservesFacts
    <3>5. CASE \E j : Cleans(j)
      BY <3>1, <3>2, <3>5, CleansFacts DEF Cleans
    <3>6. CASE Fills
      BY <3>1, <3>2, <3>6, FillsFacts
    <3>7. CASE Appends(ridx)
      BY <3>1, <3>2, <3>7 DEF Appends, Holds, Steady
    <3>8. CASE Swaps
      <4>1. PICK a, b, j, new : /\ Replaces(a, b, j, new) /\ new.in_used
                                /\ ~new.is_compacting /\ new.load_state = "full"
        BY <3>8 DEF Swaps
      <4>2. CASE i = j
        BY <3>2, <4>1, <4>2 DEF Replaces, Holds
      <4>3. CASE i # j
        BY <3>1, <3>2, <4>1, <4>3 DEF Replaces
      <4> QED
        BY <4>2, <4>3
    <3> QED
      BY <3>3, <3>4, <3>5, <3>6, <3>7, <3>8, Kinds
  <2> QED
    BY <1>3, <2>1, <2>2, ComesFrom
<1>4. /\ rpc' \in {"load", "register"} => ridx' \in Idx
      /\ \A t \in Merger : mpc'[t] = "replace" => task'[t].new \in Idx
      /\ \A t \in Merger : mpc'[t] = "replace" =>
           /\ rpc' \in {"load", "register"} => ridx' # task'[t].new
           /\ \A u \in Merger : mpc'[u] = "replace" /\ task'[u].new = task'[t].new => u = t
  <2>1. CASE UNCHANGED <<regVars, mergeVars>>
    BY <1>0, <2>1 DEF Reserving
  <2>2. \A t \in Merger : mpc[t] = "replace" => task[t].new \in Idx /\ task[t].new < insert_idx
    BY <1>0 DEF Reserving, Coming
  <2>3. rpc \in {"load", "register"} => ridx \in Idx /\ ridx < insert_idx
    BY <1>0 DEF Reserving, Coming
  <2>4. CASE Reg
    <3>1. UNCHANGED mergeVars
      BY <2>4, RegFrame
    <3>2. CASE rpc' \notin {"load", "register"}
      BY <1>0, <3>1, <3>2 DEF Reserving
    <3>3. CASE rpc' = "load" /\ Reserves /\ ridx' = insert_idx
      <4>1. \A t \in Merger : mpc[t] = "replace" => task[t].new # insert_idx
        BY <1>1, <2>2
      <4> QED
        BY <1>0, <3>1, <3>3, <4>1 DEF Reserving, Reserves
    <3>4. CASE rpc' = "register" /\ rpc = "load" /\ ridx' = ridx
      BY <1>0, <3>1, <3>4 DEF Reserving
    <3> QED
      BY <2>4, <3>2, <3>3, <3>4, RegTable
  <2>5. CASE Mrg
    <3>1. PICK t \in Merger : Merge(t)
      BY <2>5 DEF Mrg
    <3>2. UNCHANGED regVars /\ Others(t)
      BY <3>1, MrgFrame, MergeTable
    <3>3. CASE mpc'[t] # "replace"
      BY <1>0, <3>2, <3>3 DEF Reserving, Others
    <3>4. CASE mpc'[t] = "replace"
      <4>1. Reserves /\ task'[t].new = insert_idx
        BY <3>1, <3>4, MergeTable, ReserveTask
      <4>2. /\ \A u \in Merger : mpc[u] = "replace" => task[u].new # insert_idx
            /\ rpc \in {"load", "register"} => ridx # insert_idx
        BY <1>1, <2>2, <2>3
      <4> QED
        BY <1>0, <3>2, <3>4, <4>1, <4>2 DEF Reserving, Reserves, Others
    <3> QED
      BY <3>3, <3>4
  <2> QED
    BY <2>1, <2>4, <2>5, Frames
<1> QED
  BY <1>2, <1>3, <1>4 DEF Reserving, Coming

-----------------------------------------------------------------------------
(* Types.                                                                  *)

\* The entry of files[] that VACUUM has in hand.
LEMMA CurrentIs ==
    ASSUME TypeOK, todo # {}
    PROVE  Current \in todo /\ Current \in FileId
<1>1. todo \subseteq FileId
  BY DEF TypeOK
<1>2. \A f \in todo : f.start \in Nat
  BY <1>1, Constants DEF FileId
<1> DEFINE S == {f.start : f \in todo}
<1>3. S \in SUBSET Nat /\ S # {}
  BY <1>2
<1>4. PICK s \in S : \A y \in S : s <= y
  <2> HIDE DEF S
  <2> QED
    BY <1>3, Least
<1>5. \E f \in todo : \A g \in todo : f.start <= g.start
  BY <1>4
<1>6. Current \in todo
  BY <1>5 DEF Current
<1> QED
  BY <1>1, <1>6

\* A scan of the metadata files lists versions that are there.
LEMMA ScanIs ==
    ASSUME TypeOK
    PROVE  /\ ScanFiles \subseteq FileId
           /\ \A g \in ScanFiles : g.version \in Versions(g.start, g.end)
<1>1. ASSUME NEW g \in ScanFiles
      PROVE  g \in FileId /\ g.version \in Versions(g.start, g.end)
  <2>1. PICK f \in files : g = [start |-> f.start, end |-> f.end, version |-> f.version]
    BY DEF ScanFiles
  <2>2. f \in FileType
    BY DEF TypeOK
  <2>3. f.start \in AnySid /\ f.end \in AnySid /\ f.version \in Nat
    BY <2>2 DEF FileType
  <2>4. g \in FileId /\ g.start = f.start /\ g.end = f.end /\ g.version = f.version
    BY <2>1, <2>3 DEF FileId
  <2> QED
    BY <2>4, VersionFacts
<1> QED
  BY <1>1

\* The flusher's and SEGMENT_UPDATE_REGULAR's variables keep their types.
LEMMA RegType ==
    ASSUME Inv, Next
    PROVE  /\ rpc' \in {"idle", "find", "reserve", "load", "register", "crash"}
           /\ rsid' \in AnySid /\ ridx' \in AnyIdx /\ registered' \subseteq Sid
<1>1. TypeOK /\ Reserving
  BY DEF Inv, PoolInv
<1>a. /\ rpc \in {"idle", "find", "reserve", "load", "register", "crash"}
      /\ rsid \in AnySid /\ ridx \in AnyIdx /\ registered \subseteq Sid
  BY <1>1 DEF TypeOK
<1>2. CASE UNCHANGED regVars
  BY <1>a, <1>2
<1>3. CASE FlushSegment
  <2>1. rsid + 1 \in AnySid
    BY <1>a, <1>3, Constants DEF FlushSegment
  <2> QED
    BY <1>a, <1>3, <2>1 DEF FlushSegment
<1>4. CASE RegularFind \/ RegularLoad
  BY <1>a, <1>4 DEF RegularFind, RegularLoad
<1>5. CASE RegularReserve
  <2>1. ridx' = ridx \/ (ridx' = insert_idx /\ insert_idx \in Idx)
    <3>1. CASE Reserved = NIL
      BY <1>5, <3>1 DEF RegularReserve
    <3>2. CASE Reserved # NIL
      <4>1. Reserved = insert_idx /\ insert_idx \in Idx
        BY <1>1, <3>2, ReservedIs
      <4>2. ridx' = Reserved
        BY <1>5, <3>2 DEF RegularReserve
      <4> QED
        BY <4>1, <4>2
    <3> QED
      BY <3>1, <3>2
  <2> QED
    BY <1>a, <1>5, <2>1, Constants DEF RegularReserve
<1>6. CASE RegularRegister
  <2>1. rpc = "register" /\ ridx \in Idx
    BY <1>1, <1>6 DEF RegularRegister, Reserving
  <2>2. seg(ridx).start = rsid /\ seg(ridx).start \in Sid
    BY <2>1 DEF Inv, RowsInv, TasksInv, SegmentsInv
  <2>3. NIL \in AnyIdx
    BY Constants
  <2> QED
    BY <1>a, <1>6, <2>2, <2>3 DEF RegularRegister
<1> QED
  BY <1>2, <1>3, <1>4, <1>5, <1>6, Frames DEF Reg, Regular

\* A record of a file has the type of one.
LEMMA FileIs ==
    ASSUME NEW s \in AnySid, NEW e \in AnySid, NEW v \in Nat, NEW rows \in SUBSET Row,
           NEW mask \in SUBSET Row
    PROVE  /\ File(s, e, v, rows, mask) \in FileType
           /\ File(s, e, v, rows, mask).start = s /\ File(s, e, v, rows, mask).end = e
           /\ File(s, e, v, rows, mask).version = v
           /\ File(s, e, v, rows, mask).rows = rows
           /\ File(s, e, v, rows, mask).mask = mask
  BY DEF File, FileType

\* VACUUM's new bitmap.
LEMMA SegmentVacuumed ==
    ASSUME Inv, VacuumSegment
    PROVE  \/ files' = files
           \/ \E f \in files : \E g \in FileType :
                /\ files' = (files \ {f}) \cup {g}
                /\ g.start = f.start /\ g.end = f.end /\ g.version = f.version
                /\ g.rows = f.rows /\ f.mask \subseteq g.mask
                /\ g.mask \subseteq f.mask \cup doomed
<1>1. TypeOK /\ VacuumInv
  BY DEF Inv, PoolInv, RowsInv
<1> DEFINE f == Load(Current.start, Current.end, Current.version)
           hit == (f.rows \ f.mask) \cap doomed
           g == [f EXCEPT !.mask = @ \cup hit]
<1>2. files' = files \/ files' = (files \ {f}) \cup {g}
  BY DEF VacuumSegment
<1>3. Current \in todo
  BY <1>1, CurrentIs DEF VacuumSegment
<1>4. Current.version \in Versions(Current.start, Current.end)
  BY <1>1, <1>3 DEF VacuumInv
<1>5. f \in files /\ f \in FileType
  BY <1>1, <1>4, LoadIs DEF TypeOK
<1> HIDE DEF f
<1>6. hit \subseteq Row
  BY <1>5 DEF FileType
<1>7. hit \subseteq doomed
  OBVIOUS
<1> HIDE DEF hit
<1>8. /\ g \in FileType /\ g.start = f.start /\ g.end = f.end /\ g.version = f.version
      /\ g.rows = f.rows /\ g.mask = f.mask \cup hit
  BY <1>5, <1>6 DEF FileType
<1> HIDE DEF g
<1> QED
  BY <1>2, <1>5, <1>7, <1>8

\* The files keep their type.
LEMMA FilesType ==
    ASSUME Inv, Next
    PROVE  files' \subseteq FileType
<1>1. TypeOK /\ FilesInv /\ files \subseteq FileType
  BY DEF Inv, PoolInv, RowsInv, TypeOK
<1>2. CASE FlushSegment
  <2>1. rsid' \in AnySid /\ files' = files \cup {File(rsid', rsid', 1, RowsOf({rsid'}), {})}
    BY <1>2, RegType DEF FlushSegment
  <2>2. RowsOf({rsid'}) \in SUBSET Row /\ {} \in SUBSET Row /\ 1 \in Nat
    BY RowFacts
  <2>3. File(rsid', rsid', 1, RowsOf({rsid'}), {}) \in FileType
    <3> DEFINE s == rsid'
    <3>1. s \in AnySid /\ RowsOf({s}) \in SUBSET Row
      BY <2>1, <2>2
    <3> HIDE DEF s
    <3>2. File(s, s, 1, RowsOf({s}), {}) \in FileType
      BY <3>1, FileIs
    <3> QED
      BY <3>2 DEF s
  <2> QED
    BY <1>1, <2>1, <2>3
<1>3. ASSUME NEW t \in Merger, MergeWrite(t)
      PROVE  files' \subseteq FileType
  <2> DEFINE v == LatestVersion(task[t].start, task[t].end) + 1
  <2>1. v \in Nat
    BY <1>1, LatestIs
  <2>2. File(task[t].start, task[t].end, v, task[t].rows, task[t].mask) \in FileType
    BY <1>1, <2>1, TaskFields, FileIs
  <2> QED
    BY <1>1, <1>3, <2>2 DEF MergeWrite
<1>4. CASE VacuumSegment
  BY <1>1, <1>4, SegmentVacuumed
<1> QED
  BY <1>1, <1>2, <1>3, <1>4, Frames

\* The heap keeps its type.
LEMMA HeapType ==
    ASSUME Inv, Next
    PROVE  dead' \subseteq Row /\ gone' \subseteq Row
<1>1. dead \subseteq Row /\ gone \subseteq Row /\ doomed \subseteq Row
  BY DEF Inv, PoolInv, TypeOK
<1>2. CASE Reg
  BY <1>1, <1>2, RegFrame
<1>3. CASE Upg
  BY <1>1, <1>3, UpgFrame
<1>4. CASE Mrg
  BY <1>1, <1>4, MrgFrame DEF Mrg
<1>5. CASE Sch
  BY <1>1, <1>5, SchFrame
<1>6. CASE Del
  BY <1>1, <1>6 DEF Del, DeleteRow
<1>7. CASE Vac
  <2>1. gone' = gone \/ gone' = gone \cup doomed
    BY <1>7 DEF Vac, Vacuum, VacuumBegin, VacuumAnswer, VacuumEnd, VacuumSegment, UpdateFind,
         UpdateLock, UpdateCheck, UpdateApply, UpdateMask, UpdateDrop, UpdateDropCheck
  <2> QED
    BY <1>1, <1>7, <2>1, VacFrame
<1> QED
  BY <1>2, <1>3, <1>4, <1>5, <1>6, <1>7, Parties

\* The merge threads' variables keep their types.
LEMMA MergeType ==
    ASSUME Inv, Next
    PROVE  /\ mpc' \in [Merger -> {"idle", "claim", "load", "lock", "lock2", "reload",
                           "write", "reserve", "giveup", "replace", "unlock"}]
           /\ task' \in [Merger -> TaskType]
           /\ compactions' \in Nat
           /\ upgrades' \subseteq [idx : Idx, sid : Sid]
<1>1. /\ mpc \in [Merger -> {"idle", "claim", "load", "lock", "lock2", "reload",
                           "write", "reserve", "giveup", "replace", "unlock"}]
      /\ task \in [Merger -> TaskType]
      /\ compactions \in Nat
      /\ upgrades \subseteq [idx : Idx, sid : Sid]
  BY DEF Inv, PoolInv, TypeOK
<1>2. upgrades' \subseteq upgrades
  BY Frames DEF Upg, Upgrade
<1>3. CASE UNCHANGED mergeVars
  BY <1>1, <1>2, <1>3
<1>4. ASSUME NEW t \in Merger, Merge(t)
      PROVE  /\ mpc' \in [Merger -> {"idle", "claim", "load", "lock", "lock2", "reload",
                           "write", "reserve", "giveup", "replace", "unlock"}]
             /\ task' \in [Merger -> TaskType]
             /\ compactions' \in Nat
  <2>1. Others(t) /\ task'[t] \in TaskType
    BY <1>4, MergeTable
  <2>2. mpc'[t] \in {"idle", "claim", "load", "lock", "lock2", "reload",
                     "write", "reserve", "giveup", "replace", "unlock"}
    BY <1>4, MergeTable
  <2>3. compactions' \in Nat
    <3>1. MergeScan(t) => compactions > 0 /\ compactions' = compactions - 1
      BY DEF MergeScan
    <3>3. MergeClaim(t) => compactions' = compactions \/ compactions' = compactions + 1
      BY DEF MergeClaim
    <3>2. CASE Compact(t)
      BY <1>1, <3>2 DEF Compact, MergeLoad, MergeBuild, MergeLock, MergeLock2, MergeReload,
         MergeMask, MergeWrite, MergeReserve, MergeGiveUp, MergeReplace, MergeUnlock
    <3> QED
      BY <1>1, <1>4, <3>1, <3>2, <3>3 DEF Merge
  <2>4. \A u \in Merger : task'[u] \in TaskType
    BY <1>1, <2>1 DEF Others
  <2>5. \A u \in Merger : mpc'[u] \in {"idle", "claim", "load", "lock", "lock2", "reload",
                     "write", "reserve", "giveup", "replace", "unlock"}
    BY <1>1, <2>1, <2>2 DEF Others
  <2> QED
    BY <2>1, <2>3, <2>4, <2>5 DEF Others
<1> QED
  BY <1>1, <1>2, <1>3, <1>4, Frames DEF Mrg

SearchTypes ==
    /\ spc \in [Searcher -> {"idle", "sent", "search", "drop"}]
    /\ cover \in [Searcher -> SUBSET Sid]
    /\ pins \in [Searcher -> SUBSET (Idx \X AnySid \X AnySid \X Nat)]
    /\ drop \in [Searcher -> AnyIdx]
    /\ found \in [Searcher -> SUBSET Row]
    /\ expect \in [Searcher -> SUBSET Row]
    /\ searches \in Nat

\* The searches' variables keep their types.
LEMMA SearchType ==
    ASSUME Inv, Next
    PROVE  SearchTypes'
<1>1. SearchTypes
  BY DEF Inv, PoolInv, TypeOK, SearchTypes
<1>2. CASE UNCHANGED searchVars
  BY <1>1, <1>2 DEF SearchTypes
<1>3. ASSUME NEW x \in Searcher, SearchBegin(x)
      PROVE  SearchTypes'
  <2>1. PICK n \in 0 .. LastSid :
          /\ cover' = [cover EXCEPT ![x] = (n + 1) .. LastSid]
          /\ expect' = [expect EXCEPT ![x] = RowsOf(1 .. n) \ dead]
    BY <1>3 DEF SearchBegin
  <2>2. (n + 1) .. LastSid \subseteq Sid
    BY Constants
  <2>3. RowsOf(1 .. n) \ dead \subseteq Row
    BY RowFacts
  <2>4. cover' \in [Searcher -> SUBSET Sid]
    BY <1>1, <2>1, <2>2 DEF SearchTypes
  <2>5. expect' \in [Searcher -> SUBSET Row]
    BY <1>1, <2>1, <2>3 DEF SearchTypes
  <2>6. /\ spc' = [spc EXCEPT ![x] = "sent"] /\ found' = [found EXCEPT ![x] = {}]
        /\ searches > 0 /\ searches' = searches - 1 /\ pins' = pins /\ drop' = drop
    BY <1>3 DEF SearchBegin
  <2> QED
    BY <1>1, <2>4, <2>5, <2>6 DEF SearchTypes
<1>4. ASSUME NEW x \in Searcher, SearchPin(x)
      PROVE  SearchTypes'
  <2> DEFINE walk == {i \in Linked : seg(i).in_used}
             ids == {Ident(i) : i \in walk}
  <2>1. /\ pins' = [pins EXCEPT ![x] = ids] /\ spc' = [spc EXCEPT ![x] = "search"]
        /\ UNCHANGED <<cover, drop, found, expect, searches>>
    BY <1>4 DEF SearchPin, PinAll
  <2>2. \A i \in Linked : Ident(i) \in Idx \X AnySid \X AnySid \X Nat
    BY PinnedFacts, SegmentFields DEF Ident
  <2>3. ids \subseteq Idx \X AnySid \X AnySid \X Nat
    BY <2>2
  <2> HIDE DEF ids
  <2>4. pins' \in [Searcher -> SUBSET (Idx \X AnySid \X AnySid \X Nat)]
    BY <1>1, <2>1, <2>3 DEF SearchTypes
  <2>5. spc' \in [Searcher -> {"idle", "sent", "search", "drop"}]
    BY <1>1, <2>1 DEF SearchTypes
  <2> QED
    BY <1>1, <2>1, <2>4, <2>5 DEF SearchTypes
<1>5. ASSUME NEW x \in Searcher, SearchSegments(x)
      PROVE  SearchTypes'
  <2> DEFINE rows == UNION {seg(p[1]).rows \ seg(p[1]).mask : p \in pins[x]}
  <2>1. /\ found' = [found EXCEPT ![x] = rows] /\ spc' = [spc EXCEPT ![x] = "drop"]
        /\ UNCHANGED <<cover, pins, drop, expect, searches>>
    BY <1>5 DEF SearchSegments
  <2>2. \A p \in pins[x] : seg(p[1]).rows \subseteq Row
    BY PinnedFacts, SegmentFields
  <2>3. rows \subseteq Row
    BY <2>2
  <2> HIDE DEF rows
  <2>4. found' \in [Searcher -> SUBSET Row]
    BY <1>1, <2>1, <2>3 DEF SearchTypes
  <2>5. spc' \in [Searcher -> {"idle", "sent", "search", "drop"}]
    BY <1>1, <2>1 DEF SearchTypes
  <2> QED
    BY <1>1, <2>1, <2>4, <2>5 DEF SearchTypes
<1>6. ASSUME NEW x \in Searcher, SearchDrop(x)
      PROVE  SearchTypes'
  <2>1. PICK p \in pins[x] :
          /\ pins' = [pins EXCEPT ![x] = @ \ {p}] /\ drop' = [drop EXCEPT ![x] = p[1]]
    BY <1>6 DEF SearchDrop
  <2>2. UNCHANGED <<spc, cover, found, expect, searches>>
    BY <1>6 DEF SearchDrop
  <2>3. p[1] \in AnyIdx
    BY PinnedFacts, Constants
  <2>4. pins[x] \subseteq Idx \X AnySid \X AnySid \X Nat
    BY <1>1 DEF SearchTypes
  <2>5. pins' \in [Searcher -> SUBSET (Idx \X AnySid \X AnySid \X Nat)]
    <3> DEFINE s == pins[x] \ {p}
    <3>1. s \in SUBSET (Idx \X AnySid \X AnySid \X Nat)
      BY <2>4
    <3>2. pins' = [pins EXCEPT ![x] = s]
      BY <2>1
    <3> HIDE DEF s
    <3> QED
      BY <1>1, <3>1, <3>2 DEF SearchTypes
  <2>6. drop' \in [Searcher -> AnyIdx]
    BY <1>1, <2>1, <2>3 DEF SearchTypes
  <2> QED
    BY <1>1, <2>2, <2>5, <2>6 DEF SearchTypes
<1>7. ASSUME NEW x \in Searcher, SearchCheck(x)
      PROVE  SearchTypes'
  <2>1. NIL \in AnyIdx
    BY Constants
  <2>2. drop' = [drop EXCEPT ![x] = NIL] /\ UNCHANGED <<spc, cover, pins, found, expect, searches>>
    BY <1>7 DEF SearchCheck
  <2> QED
    BY <1>1, <2>1, <2>2 DEF SearchTypes
<1>8. ASSUME NEW x \in Searcher, SearchEnd(x)
      PROVE  SearchTypes'
  <2>1. /\ spc' = [spc EXCEPT ![x] = "idle"]
        /\ cover' = [cover EXCEPT ![x] = {}]
        /\ found' = [found EXCEPT ![x] = {}]
        /\ expect' = [expect EXCEPT ![x] = {}]
        /\ UNCHANGED <<pins, drop, searches>>
    BY <1>8 DEF SearchEnd
  <2> QED
    BY <1>1, <2>1 DEF SearchTypes
<1> QED
  BY <1>2, <1>3, <1>4, <1>5, <1>6, <1>7, <1>8, Frames DEF Sch, Search

VacTypes ==
    /\ vpc \in {"idle", "next", "sent", "lock", "apply", "unpin", "check", "answer"}
    /\ todo \subseteq FileId
    /\ doomed \subseteq Row /\ vidx \in AnyIdx
    /\ retry \in BOOLEAN /\ vacuums \in Nat

\* VACUUM's variables keep their types.
LEMMA VacType ==
    ASSUME Inv, Next
    PROVE  VacTypes'
<1>1. VacTypes /\ dead \subseteq Row /\ TypeOK
  BY DEF Inv, PoolInv, TypeOK, VacTypes
<1>2. CASE UNCHANGED vacVars
  BY <1>1, <1>2 DEF VacTypes
<1>3. CASE VacuumBegin
  BY <1>1, <1>3, ScanIs DEF VacuumBegin, VacTypes
<1>4. CASE VacuumSegment \/ VacuumEnd
  BY <1>1, <1>4 DEF VacuumSegment, VacuumEnd, VacTypes
<1>5. CASE VacuumAnswer
  BY <1>1, <1>5, ScanIs DEF VacuumAnswer, VacTypes
<1>6. CASE UpdateFind
  <2> DEFINE i == FindBySids(Current.start, Current.end)
  <2>1. i # NIL => i \in AnyIdx
    BY FindIs, PinnedFacts, Constants
  <2> HIDE DEF i
  <2>2. \/ retry' = TRUE /\ vpc' = "answer" /\ vidx' = vidx
        \/ i # NIL /\ vidx' = i /\ vpc' = "lock" /\ retry' = retry
    BY <1>6 DEF UpdateFind, i
  <2> QED
    BY <1>1, <1>6, <2>1, <2>2 DEF UpdateFind, VacTypes
<1>7. CASE UpdateLock
  <2>1. retry' \in BOOLEAN /\ vpc' = "apply" /\ UNCHANGED <<todo, doomed, vidx, vacuums>>
    BY <1>7 DEF UpdateLock, UpdateCheck
  <2> QED
    BY <1>1, <2>1 DEF VacTypes
<1>8. CASE UpdateApply \/ UpdateDrop
  BY <1>1, <1>8 DEF UpdateApply, UpdateMask, UpdateDrop, VacTypes
<1>9. CASE UpdateDropCheck
  BY <1>1, <1>9, Constants DEF UpdateDropCheck, VacTypes
<1> QED
  BY <1>2, <1>3, <1>4, <1>5, <1>6, <1>7, <1>8, <1>9, Frames DEF Vac, Vacuum

\* Every variable keeps its type.
LEMMA TypeStep ==
    ASSUME Inv, Next, insert_idx <= insert_idx'
    PROVE  TypeOK'
  BY PoolType, FilesType, HeapType, RegType, MergeType, SearchType, VacType
     DEF TypeOK, SearchTypes, VacTypes

-----------------------------------------------------------------------------
(* Slots in hand.                                                          *)

\* What comes into the list.
LEMMA NewUsed ==
    ASSUME Inv, Next, insert_idx <= insert_idx', NEW i \in Linked'
    PROVE  Used(i)'
<1>0. TypeOK /\ Reserving /\ Linked \subseteq Idx
  BY PinnedFacts DEF Inv, PoolInv
<1>a. insert_idx \in Nat /\ insert_idx' \in Nat
  BY <1>0, PoolType, Constants DEF TypeOK
<1>1. CASE i \in Linked
  BY <1>1, UsedStays, PinnedFacts
<1>2. CASE i \notin Linked
  <2>1. ~(Marks \/ Reserves \/ Fills \/ (\E j : Cleans(j)))
    BY <1>2, LinkedStays
  <2>2. CASE RegularRegister
    <3>1. rpc = "register" /\ rpc' = "idle" /\ UNCHANGED mergeVars /\ insert_idx' = insert_idx
      BY <2>2 DEF RegularRegister
    <3>2. i = ridx
      BY <1>2, <2>2, RegisterAppends DEF Appends
    <3>3. i \in Idx /\ i < insert_idx
      BY <1>0, <3>1, <3>2 DEF Reserving, Coming
    <3>4. \A t \in Merger : mpc[t] = "replace" => task[t].new # ridx
      BY <1>0, <3>1 DEF Reserving
    <3> QED
      BY <3>1, <3>2, <3>3, <3>4 DEF Used, Coming
  <2>3. ASSUME NEW u \in upgrades, Upgrade(u)
        PROVE  Used(i)'
    <3>1. i = insert_idx /\ insert_idx' = insert_idx + 1 /\ insert_idx \in Idx
      BY <1>2, <2>1, <2>3, UpgradeReplaces DEF Replaces
    <3>2. UNCHANGED <<regVars, mergeVars>>
      BY <2>3 DEF Upgrade
    <3>3. ~Coming(i)
      BY <1>0, <1>a, <3>1 DEF Reserving
    <3>4. ~Coming(i)'
      BY <3>2, <3>3 DEF Coming
    <3> QED
      BY <1>a, <3>1, <3>4 DEF Used
  <2>4. ASSUME NEW t \in Merger, MergeReplace(t)
        PROVE  Used(i)'
    <3>1. i = task[t].new /\ insert_idx' = insert_idx /\ i < insert_idx /\ i \in Idx
      BY <1>2, <2>4, MergeReplaces DEF Replaces
    <3>2. mpc[t] = "replace" /\ mpc'[t] = "unlock" /\ Others(t) /\ UNCHANGED regVars
      BY <2>4, EndTask DEF MergeReplace
    <3>3. /\ ~(rpc \in {"load", "register"} /\ ridx = i)
          /\ \A u \in Merger \ {t} : ~(mpc[u] = "replace" /\ task[u].new = i)
      BY <1>0, <3>1, <3>2 DEF Reserving
    <3>4. ~Coming(i)'
      BY <3>2, <3>3 DEF Coming, Others
    <3> QED
      BY <3>1, <3>4 DEF Used
  <2>5. Reg \/ Upg \/ Mrg \/ Sch \/ Del \/ Vac
    BY Parties
  <2>6. CASE Reg
    BY <2>1, <2>2, <2>6, RegKinds
  <2>7. CASE Upg
    BY <2>3, <2>7 DEF Upg
  <2>8. CASE Mrg
    BY <2>1, <2>4, <2>8, MrgKinds DEF Mrg
  <2>9. CASE Sch \/ Del \/ Vac
    BY <1>0, <2>1, <2>9, SchKinds, VacKinds, DelFrame, UntouchedMarks DEF Sch
  <2> QED
    BY <2>5, <2>6, <2>7, <2>8, <2>9
<1> QED
  BY <1>1, <1>2

\* Slots in hand have been in the list.
LEMMA InHandStep ==
    ASSUME Inv, Next, insert_idx <= insert_idx'
    PROVE  InHand'
<1>0. TypeOK /\ InHand
  BY DEF Inv, PoolInv
<1> DEFINE U == {i \in Idx : Used(i)}
           U2 == {i \in Idx : Used(i)'}
<1>1. U \subseteq U2
  BY UsedStays
<1>2. \A i \in Linked' : i \in U2
  BY NewUsed DEF Used
<1>3. Linked \subseteq U
  BY <1>0 DEF InHand, Used
<1>4. \A x \in Searcher : \A p \in pins'[x] : p[1] \in U2
  <2>1. \A x \in Searcher : \A p \in pins[x] : p[1] \in U
    BY <1>0 DEF InHand, Used
  <2>2. CASE UNCHANGED pins
    BY <1>1, <2>1, <2>2
  <2>3. ASSUME NEW y \in Searcher, SearchPin(y)
        PROVE  \A x \in Searcher : \A p \in pins'[x] : p[1] \in U2
    <3>1. pins' = [pins EXCEPT ![y] = {Ident(i) : i \in {j \in Linked : seg(j).in_used}}]
      BY <2>3 DEF SearchPin, PinAll
    <3>2. \A p \in pins'[y] : \E i \in Linked : p = Ident(i)
      BY <1>0, <3>1 DEF TypeOK
    <3>3. \A p \in pins'[y] : p[1] \in Linked
      BY <3>2 DEF Ident
    <3>4. \A x \in Searcher \ {y} : pins'[x] = pins[x]
      BY <1>0, <3>1 DEF TypeOK
    <3> QED
      BY <1>1, <1>3, <2>1, <3>3, <3>4
  <2>4. ASSUME NEW y \in Searcher, SearchDrop(y)
        PROVE  \A x \in Searcher : \A p \in pins'[x] : p[1] \in U2
    <3>1. \A x \in Searcher : pins'[x] \subseteq pins[x]
      BY <1>0, <2>4 DEF SearchDrop, TypeOK
    <3> QED
      BY <1>1, <2>1, <3>1
  <2>5. CASE \E y \in Searcher : SearchBegin(y) \/ SearchSegments(y) \/ SearchCheck(y) \/ SearchEnd(y)
    BY <2>2, <2>5 DEF SearchBegin, SearchSegments, SearchCheck, SearchEnd
  <2> QED
    BY <2>2, <2>3, <2>4, <2>5, Frames DEF Sch, Search
<1>5. \A x \in Searcher : drop'[x] # NIL => drop'[x] \in U2
  <2>1. \A x \in Searcher : drop[x] # NIL => drop[x] \in U
    BY <1>0 DEF InHand, Used
  <2>2. CASE UNCHANGED drop
    BY <1>1, <2>1, <2>2
  <2>3. ASSUME NEW y \in Searcher, SearchDrop(y)
        PROVE  \A x \in Searcher : drop'[x] # NIL => drop'[x] \in U2
    <3>1. PICK p \in pins[y] : drop' = [drop EXCEPT ![y] = p[1]]
      BY <2>3 DEF SearchDrop
    <3>2. p[1] \in U
      BY <1>0 DEF InHand, Used
    <3> HIDE DEF U, U2
    <3> QED
      BY <1>0, <1>1, <2>1, <3>1, <3>2 DEF TypeOK
  <2>4. ASSUME NEW y \in Searcher, SearchCheck(y)
        PROVE  \A x \in Searcher : drop'[x] # NIL => drop'[x] \in U2
    <3>1. drop' = [drop EXCEPT ![y] = NIL]
      BY <2>4 DEF SearchCheck
    <3> HIDE DEF U, U2
    <3> QED
      BY <1>0, <1>1, <2>1, <3>1 DEF TypeOK
  <2>5. CASE \E y \in Searcher : SearchBegin(y) \/ SearchSegments(y) \/ SearchPin(y) \/ SearchEnd(y)
    BY <2>2, <2>5 DEF SearchBegin, SearchSegments, SearchPin, PinAll, SearchEnd
  <2> QED
    BY <2>2, <2>3, <2>4, <2>5, Frames DEF Sch, Search
<1>6. vpc' \in {"lock", "apply", "unpin", "check"} => vidx' \in U2
  <2>1. vpc \in {"lock", "apply", "unpin", "check"} => vidx \in U
    BY <1>0 DEF InHand, Used
  <2>2. CASE UNCHANGED vacVars
    BY <1>1, <2>1, <2>2
  <2>3. CASE VacuumBegin \/ VacuumSegment \/ VacuumAnswer \/ VacuumEnd
    BY <2>3 DEF VacuumBegin, VacuumSegment, VacuumAnswer, VacuumEnd, VacuumAt
  <2>4. CASE UpdateFind
    <3> DEFINE i == FindBySids(Current.start, Current.end)
    <3>1. i # NIL => i \in Linked
      BY FindIs
    <3> HIDE DEF i
    <3>2. vpc' = "answer" \/ (i # NIL /\ vidx' = i)
      BY <2>4 DEF UpdateFind, i
    <3> QED
      BY <1>1, <1>3, <3>1, <3>2
  <2>5. CASE UpdateLock \/ UpdateApply \/ UpdateDrop
    <3>1. vidx' = vidx /\ vpc \in {"lock", "apply", "unpin"}
      BY <2>5 DEF UpdateLock, UpdateCheck, UpdateApply, UpdateMask, UpdateDrop, VacuumAt
    <3> QED
      BY <1>1, <2>1, <3>1
  <2>6. CASE UpdateDropCheck
    BY <2>6 DEF UpdateDropCheck
  <2> QED
    BY <2>2, <2>3, <2>4, <2>5, <2>6, Frames DEF Vac, Vacuum
<1>7. \A t \in Merger : mpc'[t] # "idle" => task'[t].lo \in U2 /\ task'[t].hi \in U2
  <2>1. \A t \in Merger : mpc[t] # "idle" => task[t].lo \in U /\ task[t].hi \in U
    BY <1>0 DEF InHand, Used
  <2>2. CASE UNCHANGED mergeVars
    BY <1>1, <2>1, <2>2
  <2>3. ASSUME NEW t \in Merger, Merge(t)
        PROVE  \A u \in Merger : mpc'[u] # "idle" => task'[u].lo \in U2 /\ task'[u].hi \in U2
    <3>1. Others(t)
      BY <2>3, MergeTable
    <3>2. mpc'[t] # "idle" => \/ task'[t].lo \in Linked /\ task'[t].hi \in Linked
                              \/ /\ task'[t].lo = task[t].lo /\ task'[t].hi = task[t].hi
                                 /\ mpc[t] # "idle"
      BY <2>3, MergeTable, ScanTask, ClaimTask DEF SameTask
    <3> HIDE DEF U, U2
    <3> QED
      BY <1>1, <1>3, <2>1, <3>1, <3>2 DEF Others
  <2> QED
    BY <2>2, <2>3, Frames DEF Mrg
<1>8. \A i \in U2 : Used(i)'
  OBVIOUS
<1> HIDE DEF U, U2
<1>9. \A i \in U2 : i \in Idx /\ i < insert_idx' /\ ~Coming(i)'
  BY <1>8 DEF Used
<1>10. \A i \in U2 : /\ ~(rpc' \in {"load", "register"} /\ ridx' = i)
                     /\ ~\E t \in Merger : mpc'[t] = "replace" /\ task'[t].new = i
  BY <1>9 DEF Coming
<1>11. /\ \A i \in Linked' : Used(i)'
       /\ \A i \in U2 : i \in Idx /\ i < insert_idx'
  BY <1>2, <1>8, <1>9
<1> QED
  BY <1>4, <1>5, <1>6, <1>7, <1>10, <1>11 DEF InHand, Used, Coming

-----------------------------------------------------------------------------
(* Marks of merges and bitmaps.                                            *)

\* Neither in a slot.
BitsKept(i) ==
    /\ flushed_segments'[i].is_compacting = seg(i).is_compacting
    /\ flushed_segments'[i].mask = seg(i).mask

\* A reference or a mutex.
LEMMA OneBits ==
    ASSUME flushed_segments \in [Idx -> SegmentType], NEW i \in Idx, NEW j, NEW r,
           \/ flushed_segments' = [flushed_segments EXCEPT ![j].ref_count = r]
           \/ flushed_segments' = [flushed_segments EXCEPT ![j].mutex = r]
    PROVE  BitsKept(i)
<1>1. seg(i) \in SegmentType
  OBVIOUS
<1>2. \A g \in SegmentType :
        /\ [g EXCEPT !.ref_count = r].is_compacting = g.is_compacting
        /\ [g EXCEPT !.ref_count = r].mask = g.mask
        /\ [g EXCEPT !.mutex = r].is_compacting = g.is_compacting
        /\ [g EXCEPT !.mutex = r].mask = g.mask
  BY DEF SegmentType
<1>3. \/ flushed_segments'[i] = seg(i)
      \/ flushed_segments'[i] = [seg(i) EXCEPT !.ref_count = r]
      \/ flushed_segments'[i] = [seg(i) EXCEPT !.mutex = r]
  BY DEF SegmentType
<1> QED
  BY <1>1, <1>2, <1>3 DEF BitsKept

\* Merge threads mark slots only by claiming them and by giving up.
LEMMA MergeBits ==
    ASSUME Inv, NEW t \in Merger, Merge(t), Marks, NEW i \in Idx
    PROVE  /\ flushed_segments'[i].mask = seg(i).mask
           /\ \/ BitsKept(i)
              \/ /\ MergeClaim(t) /\ mpc'[t] = "load" /\ i \in {task[t].lo, task[t].hi}
                 /\ flushed_segments'[i].is_compacting
              \/ MergeGiveUp(t) /\ i \in {task[t].lo, task[t].hi}
<1>1. flushed_segments \in [Idx -> SegmentType] /\ seg(i) \in SegmentType
  BY DEF Inv, PoolInv, TypeOK
<1>2. CASE MergeScan(t) \/ MergeLoad(t) \/ MergeReload(t) \/ MergeWrite(t)
  <2>1. UNCHANGED poolVars
    BY <1>2 DEF MergeScan, MergeLoad, MergeBuild, MergeReload, MergeMask, MergeWrite
  <2> QED
    BY <2>1, Zenon DEF BitsKept
<1>3. CASE MergeLock(t) \/ MergeLock2(t)
  <2>1. BitsKept(i)
    BY <1>1, <1>3, OneBits DEF MergeLock, MergeLock2
  <2> QED
    BY <2>1 DEF BitsKept
<1>4. CASE MergeClaim(t)
  <2>1. CASE UNCHANGED flushed_segments
    BY <2>1 DEF BitsKept
  <2>2. CASE /\ mpc'[t] = "load"
             /\ flushed_segments' =
                      [j \in Idx |-> IF j \in {task[t].lo, task[t].hi}
                                     THEN [seg(j) EXCEPT !.is_compacting = TRUE]
                                     ELSE seg(j)]
    <3>1. /\ [seg(i) EXCEPT !.is_compacting = TRUE].mask = seg(i).mask
          /\ [seg(i) EXCEPT !.is_compacting = TRUE].is_compacting
      BY <1>1 DEF SegmentType
    <3>2. flushed_segments'[i] = IF i \in {task[t].lo, task[t].hi}
                                 THEN [seg(i) EXCEPT !.is_compacting = TRUE]
                                 ELSE seg(i)
      BY <2>2
    <3> QED
      BY <1>4, <2>2, <3>1, <3>2 DEF BitsKept
  <2> QED
    BY <1>4, <2>1, <2>2, ClaimTask
<1>5. CASE MergeGiveUp(t) \/ MergeUnlock(t)
  <2>1. PICK c \in BOOLEAN : flushed_segments' = Unlocked(task[t], c) /\ (MergeGiveUp(t) \/ c = TRUE)
    BY <1>5, EndTask
  <2>2. /\ [seg(i) EXCEPT !.mutex = NoThread, !.is_compacting = @ /\ c].mask = seg(i).mask
        /\ c = TRUE => [seg(i) EXCEPT !.mutex = NoThread, !.is_compacting = @ /\ c].is_compacting
                         = seg(i).is_compacting
    BY <1>1 DEF SegmentType
  <2>3. flushed_segments'[i] = IF i \in {task[t].lo, task[t].hi}
                   THEN [seg(i) EXCEPT !.mutex = NoThread,
                            !.is_compacting = @ /\ c]
                   ELSE seg(i)
    BY <2>1 DEF Unlocked
  <2> QED
    BY <2>1, <2>2, <2>3 DEF BitsKept
<1>6. CASE MergeReserve(t)
  <2>1. insert_idx' = insert_idx /\ insert_idx \in Nat
    BY Constants DEF Marks, Inv, PoolInv, TypeOK
  <2>2. UNCHANGED poolVars
    BY <1>6, <2>1, ReserveTask DEF Reserves
  <2> QED
    BY <2>2 DEF BitsKept
<1>7. CASE MergeReplace(t)
  <2>1. Linked' = Linked
    BY LinkedStays
  <2> QED
    BY <1>7, <2>1, MergeReplaces DEF Replaces
<1> QED
  BY <1>2, <1>3, <1>4, <1>5, <1>6, <1>7 DEF Merge, Compact

\* SEGMENT_UPDATE_VACUUM ors the bitmap of a file of the segment into its slot.
LEMMA ApplyBits ==
    ASSUME Inv, UpdateApply, NEW i \in Idx
    PROVE  /\ flushed_segments'[i].is_compacting = seg(i).is_compacting
           /\ flushed_segments'[i].ref_count = seg(i).ref_count
           /\ i # vidx => flushed_segments'[i].mask = seg(i).mask
           /\ i = vidx => \/ flushed_segments'[i].mask = seg(i).mask
                          \/ \E f \in files :
                               /\ f.start = seg(i).start /\ f.end = seg(i).end
                               /\ flushed_segments'[i].mask = seg(i).mask \cup f.mask
<1>1. TypeOK /\ FilesInv /\ SegmentsInv
  BY DEF Inv, PoolInv, RowsInv
<1>2. vpc = "apply"
  BY DEF UpdateApply, UpdateMask, VacuumAt
<1>3. vidx \in Idx /\ seg(vidx).ref_count > 0 /\ seg(vidx) \in SegmentType
  BY <1>2, PinnedFacts
<1> DEFINE g == seg(vidx)
           f == Load(g.start, g.end, LatestVersion(g.start, g.end))
           m == IF retry THEN g.mask ELSE g.mask \cup f.mask
<1>4. f \in files /\ f.start = g.start /\ f.end = g.end
  <2>1. Filed(g.start, g.end, g.version, g.rows)
    BY <1>1, <1>3 DEF SegmentsInv
  <2>2. LatestVersion(g.start, g.end) \in Versions(g.start, g.end)
    BY <1>1, <2>1, FiledIs
  <2> QED
    BY <1>1, <2>2, LoadIs
<1>5. flushed_segments' =
        [flushed_segments EXCEPT ![vidx] = [g EXCEPT !.mutex = NoThread, !.mask = m]]
  BY <1>1, <1>3 DEF UpdateApply, UpdateMask, TypeOK
<1>6. m = g.mask \/ m = g.mask \cup f.mask
  OBVIOUS
<1> HIDE DEF f, m
<1>7. /\ [g EXCEPT !.mutex = NoThread, !.mask = m].is_compacting = g.is_compacting
      /\ [g EXCEPT !.mutex = NoThread, !.mask = m].ref_count = g.ref_count
      /\ [g EXCEPT !.mutex = NoThread, !.mask = m].mask = m
  BY <1>3 DEF SegmentType
<1>8. i # vidx => flushed_segments'[i] = seg(i)
  BY <1>1, <1>5 DEF TypeOK
<1>9. i = vidx => flushed_segments'[i] = [g EXCEPT !.mutex = NoThread, !.mask = m]
  BY <1>1, <1>5 DEF TypeOK
<1> QED
  BY <1>4, <1>6, <1>7, <1>8, <1>9

\* Who changes is_compacting and the bitmap of a slot.
LEMMA Bits ==
    ASSUME Inv, Next, insert_idx <= insert_idx', Marks, ~\E j : Cleans(j), NEW i \in Idx
    PROVE  \/ BitsKept(i)
           \/ \E t \in Merger :
                /\ MergeClaim(t) /\ mpc'[t] = "load" /\ i \in {task[t].lo, task[t].hi}
                /\ flushed_segments'[i].is_compacting
                /\ flushed_segments'[i].mask = seg(i).mask
           \/ \E t \in Merger :
                /\ MergeGiveUp(t) /\ i \in {task[t].lo, task[t].hi}
                /\ flushed_segments'[i].mask = seg(i).mask
           \/ UpdateApply /\ i = vidx /\ flushed_segments'[i].is_compacting = seg(i).is_compacting
<1>1. flushed_segments \in [Idx -> SegmentType] /\ seg(i) \in SegmentType
  BY DEF Inv, PoolInv, TypeOK
<1>a. insert_idx' = insert_idx /\ insert_idx \in Nat /\ Linked' = Linked
  BY LinkedStays, Constants, SMTT(40) DEF Marks, Inv, PoolInv, TypeOK
<1>2. CASE UNCHANGED poolVars
  BY <1>2 DEF BitsKept
<1>3. CASE Reg
  <2>1. CASE UNCHANGED poolVars
    BY <2>1 DEF BitsKept
  <2>2. CASE Appends(ridx)
    BY <1>a, <2>2 DEF Appends
  <2>3. CASE Reserves
    BY <1>a, <2>3 DEF Reserves
  <2>4. CASE Fills
    <3>1. i # ridx => BitsKept(i)
      BY <2>4, FillsFacts DEF BitsKept
    <3>2. ~Used(ridx) /\ ridx \in Idx
      BY <2>4 DEF Fills, Used
    <3>3. flushed_segments'[ridx] = seg(ridx)
      BY <3>2 DEF Marks
    <3> QED
      BY <3>1, <3>3 DEF BitsKept
  <2> QED
    BY <1>3, <2>1, <2>2, <2>3, <2>4, RegKinds
<1>4. CASE Upg
  BY <1>a, <1>2, <1>4, UpgradeReplaces DEF Upg, Replaces
<1>5. CASE Mrg
  BY <1>5, MergeBits DEF Mrg
<1>6. CASE Sch
  <2>1. PICK x \in Searcher : SearchBegin(x) \/ Search(x)
    BY <1>6 DEF Sch
  <2>2. CASE SearchBegin(x) \/ SearchSegments(x) \/ SearchEnd(x)
    BY <1>2, <2>2 DEF SearchBegin, SearchSegments, SearchEnd
  <2>3. CASE SearchPin(x)
    <3> DEFINE walk == {j \in Linked : seg(j).in_used}
    <3>1. flushed_segments'[i] = IF i \in walk THEN [seg(i) EXCEPT !.ref_count = @ + 1]
                                 ELSE seg(i)
      BY <2>3 DEF SearchPin, PinAll
    <3> HIDE DEF walk
    <3> QED
      BY <1>1, <3>1 DEF BitsKept, SegmentType
  <2>4. CASE SearchDrop(x)
    BY <1>1, <2>4, OneBits DEF SearchDrop
  <2>5. CASE SearchCheck(x)
    <3> DEFINE d == drop[x]
    <3>1. /\ d # NIL /\ CheckDropped(d) /\ head_idx' = head_idx /\ tail_idx' = tail_idx
          /\ Used(d) /\ TypeOK
      BY <2>5 DEF SearchCheck, Inv, PoolInv, InHand
    <3> HIDE DEF d
    <3>2. UNCHANGED flushed_segments
      BY <3>1, CheckCleans
    <3> QED
      BY <3>2 DEF BitsKept
  <2> QED
    BY <2>1, <2>2, <2>3, <2>4, <2>5 DEF Search
<1>7. CASE Del
  BY <1>2, <1>7, DelFrame
<1>8. CASE Vac
  <2>1. CASE VacuumBegin \/ VacuumSegment \/ VacuumAnswer \/ VacuumEnd
    BY <1>2, <2>1 DEF VacuumBegin, VacuumSegment, VacuumAnswer, VacuumEnd
  <2>2. CASE UpdateFind
    BY <1>1, <1>2, <2>2, OneBits DEF UpdateFind, BitsKept
  <2>3. CASE UpdateLock \/ UpdateDrop
    BY <1>1, <2>3, OneBits, ZenonT(40) DEF UpdateLock, UpdateCheck, UpdateDrop
  <2>4. CASE UpdateApply
    BY <2>4, ApplyBits DEF BitsKept
  <2>5. CASE UpdateDropCheck
    <3>1. /\ CheckDropped(vidx) /\ head_idx' = head_idx /\ tail_idx' = tail_idx
          /\ Used(vidx) /\ TypeOK
      BY <2>5 DEF UpdateDropCheck, VacuumAt, Inv, PoolInv, InHand
    <3>2. UNCHANGED flushed_segments
      BY <3>1, CheckCleans
    <3> QED
      BY <3>2 DEF BitsKept
  <2> QED
    BY <1>8, <2>1, <2>2, <2>3, <2>4, <2>5 DEF Vac, Vacuum
<1> QED
  BY <1>3, <1>4, <1>5, <1>6, <1>7, <1>8, Parties

-----------------------------------------------------------------------------
(* What leaves the list, and what a merge has chosen.                      *)

\* A slot is used from when it comes into the list.
LEMMA UsedFrom ==
    ASSUME Inv, Next, insert_idx <= insert_idx', NEW i, Used(i)'
    PROVE  Used(i) \/ i \in Linked'
<1>0. TypeOK /\ Reserving
  BY DEF Inv, PoolInv
<1>1. i \in Idx /\ i < insert_idx' /\ ~Coming(i)'
  BY DEF Used
<1>2. insert_idx \in Nat /\ insert_idx' \in Nat /\ i \in Nat
  BY <1>0, <1>1, PoolType, Constants DEF TypeOK
<1>3. SUFFICES ASSUME Coming(i) \/ i >= insert_idx
               PROVE  i \in Linked'
  BY <1>1, <1>2 DEF Used
<1>4. CASE Coming(i)
  <2>1. CASE Reg
    <3>1. UNCHANGED mergeVars
      BY <2>1, RegFrame
    <3>2. rpc \in {"load", "register"} /\ ridx = i
      BY <1>1, <1>4, <3>1 DEF Coming
    <3>3. CASE RegularRegister /\ Appends(ridx)
      BY <3>2, <3>3 DEF Appends
    <3>4. CASE RegularLoad
      BY <1>1, <3>2, <3>4 DEF RegularLoad, Coming
    <3>5. ~RegularReserve
      BY <3>2 DEF RegularReserve
    <3> QED
      BY <2>1, <3>2, <3>3, <3>4, <3>5, RegKinds
  <2>2. CASE Mrg
    <3>1. PICK t \in Merger : Merge(t)
      BY <2>2 DEF Mrg
    <3>2. UNCHANGED regVars /\ Others(t)
      BY <3>1, MrgFrame, MergeTable
    <3>3. mpc[t] = "replace" /\ task[t].new = i
      BY <1>1, <1>4, <3>2 DEF Coming, Others
    <3>4. MergeReplace(t)
      BY <3>1, <3>3, MergeTable
    <3> QED
      BY <3>3, <3>4, MergeReplaces DEF Replaces
  <2>3. CASE UNCHANGED <<regVars, mergeVars>>
    BY <1>1, <1>4, <2>3 DEF Coming
  <2> QED
    BY <2>1, <2>2, <2>3, Frames
<1>5. CASE i >= insert_idx
  <2>1. insert_idx' # insert_idx
    BY <1>1, <1>2, <1>5
  <2>2. CASE Reg
    <3>1. CASE RegularReserve /\ Reserves /\ ridx' = insert_idx /\ rpc' = "load"
      BY <1>1, <1>2, <1>5, <3>1 DEF Reserves, Coming
    <3> QED
      BY <2>1, <2>2, <3>1, RegKinds DEF Appends, Fills
  <2>3. CASE Upg
    BY <1>1, <1>2, <1>5, <2>1, <2>3, UpgradeReplaces DEF Upg, Replaces
  <2>4. CASE Mrg
    <3>1. PICK t \in Merger : Merge(t)
      BY <2>4 DEF Mrg
    <3>2. MergeReserve(t) /\ Reserves /\ task'[t].new = insert_idx
      BY <2>1, <3>1, MrgKinds, MergeReplaces DEF Marks
    <3>3. mpc'[t] = "replace"
      BY <2>1, <3>2, ReserveTask
    <3> QED
      BY <1>1, <1>2, <1>5, <3>2, <3>3 DEF Reserves, Coming
  <2>5. CASE Sch \/ Del \/ Vac
    BY <2>1, <2>5, SchKinds, VacKinds, DelFrame DEF Sch, Marks, Cleans
  <2> QED
    BY <2>2, <2>3, <2>4, <2>5, Parties
<1> QED
  BY <1>3, <1>4, <1>5

\* Of a slot that is used.
LEMMA MarkStays ==
    ASSUME Inv, Next, insert_idx <= insert_idx', NEW i, Used(i)
    PROVE  /\ flushed_segments'[i].in_used => seg(i).in_used
           /\ \/ flushed_segments'[i].is_compacting = seg(i).is_compacting
              \/ \E t \in Merger :
                /\ MergeClaim(t) /\ mpc'[t] = "load" /\ i \in {task[t].lo, task[t].hi}
                /\ flushed_segments'[i].is_compacting
              \/ \E t \in Merger : MergeGiveUp(t) /\ i \in {task[t].lo, task[t].hi}
<1>0. i \in Idx /\ i < insert_idx /\ ~Coming(i) /\ seg(i) \in SegmentType
  BY PinnedFacts DEF Used
<1>1. CASE Marks /\ ~\E j : Cleans(j)
  BY <1>0, <1>1, Bits DEF Marks, Kept, BitsKept
<1>2. CASE Reserves
  <2>1. i # insert_idx
    BY <1>0, Constants
  <2> QED
    BY <1>0, <1>2, <2>1, ReservesFacts
<1>3. CASE \E j : Cleans(j)
  BY <1>0, <1>3, CleansFacts, CleanedIs
<1>4. CASE Fills
  BY <1>0, <1>4, FillsFacts DEF Fills
<1>5. CASE Appends(ridx)
  BY <1>0, <1>5 DEF Appends, Steady, Holds
<1>6. CASE Swaps
  <2>1. PICK a, b, j, new : Replaces(a, b, j, new) /\ (Coming(j) \/ j >= insert_idx)
    BY <1>6 DEF Swaps
  <2>2. i # j
    <3>1. j \in Nat /\ insert_idx \in Nat /\ i \in Nat
      BY <1>0, <2>1, Constants DEF Replaces, Inv, PoolInv, TypeOK
    <3> QED
      BY <1>0, <2>1, <3>1
  <2>3. CASE i \in {a, b}
    <3>1. flushed_segments'[i] = Dropped(seg(i)) /\ i \in Linked
      BY <2>1, <2>3 DEF Replaces
    <3>2. seg(i).ref_count > 0 /\ seg(i).in_used
      BY <3>1, PinnedFacts
    <3> QED
      BY <1>0, <3>1, <3>2, DroppedIs
  <2>4. CASE i \notin {a, b}
    BY <1>0, <2>1, <2>2, <2>4 DEF Replaces, Steady
  <2> QED
    BY <2>3, <2>4
<1> QED
  BY <1>1, <1>2, <1>3, <1>4, <1>5, <1>6, Kinds

\* Only upgrades and merges take segments out of the list.
LEMMA Leaves ==
    ASSUME Inv, Next, insert_idx <= insert_idx', NEW i \in Linked
    PROVE  \/ i \in Linked'
           \/ \E u \in upgrades : Upgrade(u) /\ i = u.idx
           \/ \E t \in Merger : MergeReplace(t) /\ i \in {task[t].lo, task[t].hi}
<1>0. TypeOK
  BY DEF Inv, PoolInv
<1>1. CASE Marks \/ Reserves \/ Fills \/ (\E j : Cleans(j))
  BY <1>1, LinkedStays
<1>2. CASE Appends(ridx)
  BY <1>2 DEF Appends
<1>3. CASE Upg
  BY <1>1, <1>3, UpgradeReplaces DEF Upg, Replaces
<1>4. CASE Mrg
  BY <1>1, <1>4, MrgKinds, MergeReplaces DEF Mrg, Replaces
<1> QED
  BY <1>0, <1>1, <1>2, <1>3, <1>4, Parties, RegKinds, SchKinds, VacKinds, DelFrame,
     UntouchedMarks DEF Sch

\* Neighbours that stay in the list stay neighbours.
LEMMA NextStays ==
    ASSUME Inv, Next, insert_idx <= insert_idx', NEW i \in Linked, NEW n \in Linked,
           seg(i).next_idx = n, i \in Linked', n \in Linked'
    PROVE  flushed_segments'[i].next_idx = n
<1>0. NIL \notin Linked
  BY PinnedFacts, Constants
<1>1. CASE Marks \/ Reserves \/ Fills \/ (\E j : Cleans(j))
  BY <1>1, LinkedStays
<1>2. CASE Appends(ridx)
  BY <1>0, <1>2 DEF Appends
<1>3. CASE Swaps
  <2>1. PICK a, b, j, new : Replaces(a, b, j, new)
    BY <1>3 DEF Swaps
  <2> QED
    BY <2>1 DEF Replaces
<1> QED
  BY <1>1, <1>2, <1>3, Kinds

\* What has left the list stays ineligible.
LEMMA RetiredStep ==
    ASSUME Inv, Next, insert_idx <= insert_idx'
    PROVE  Retired'
<1>0. Retired /\ Claims /\ Upgrading
  BY DEF Inv, PoolInv
<1>1. SUFFICES ASSUME NEW i \in Idx, Used(i)', i \notin Linked'
               PROVE  \/ ~flushed_segments'[i].in_used
                      \/ flushed_segments'[i].is_compacting
                      \/ flushed_segments'[i].load_state = "mmap"
  BY DEF Retired
<1>2. Used(i)
  BY <1>1, UsedFrom
<1>3. Same(i)
  BY <1>2, SlotsStay
<1>4. CASE i \notin Linked
  <2>1. ~seg(i).in_used \/ seg(i).is_compacting \/ seg(i).load_state = "mmap"
    BY <1>0, <1>2, <1>4 DEF Retired
  <2>2. \A t \in Merger : MergeGiveUp(t) => i \notin {task[t].lo, task[t].hi}
    <3>1. \A t \in Merger : MergeGiveUp(t) => mpc[t] \in Claiming
      BY EndTask DEF Claiming
    <3> QED
      BY <1>0, <1>4, <3>1 DEF Claims
  <2> QED
    BY <1>2, <1>3, <2>1, <2>2, MarkStays DEF Same
<1>5. CASE i \in Linked
  <2>1. ASSUME NEW u \in upgrades, Upgrade(u), i = u.idx
        PROVE  flushed_segments'[i].load_state = "mmap"
    BY <1>0, <1>3, <2>1 DEF Upgrading, Same
  <2>2. ASSUME NEW t \in Merger, MergeReplace(t), i \in {task[t].lo, task[t].hi}
        PROVE  flushed_segments'[i].is_compacting
    <3>1. mpc[t] = "replace" /\ mpc'[t] = "unlock" /\ Others(t)
      BY <2>2, EndTask
    <3>2. seg(i).is_compacting
      BY <1>0, <2>2, <3>1 DEF Claims, Claiming
    <3>3. \A u \in Merger : ~MergeGiveUp(u)
      BY <3>1, EndTask DEF Others
    <3> QED
      BY <1>2, <3>2, <3>3, MarkStays
  <2> QED
    BY <1>1, <1>5, <2>1, <2>2, Leaves
<1> QED
  BY <1>4, <1>5

\* A segment waits for its upgrade in the list.
LEMMA UpgradingStep ==
    ASSUME Inv, Next, insert_idx <= insert_idx'
    PROVE  Upgrading'
<1>0. TypeOK /\ Upgrading /\ Claims
  BY DEF Inv, PoolInv
<1>1. upgrades' \subseteq upgrades
  BY Frames DEF Upg, Upgrade
<1>2. ASSUME NEW u \in upgrades'
      PROVE  /\ u.idx \in Linked' /\ u.sid = u.idx + 1
             /\ flushed_segments'[u.idx].load_state = "mmap"
  <2>1. u \in upgrades /\ u.idx \in Linked /\ u.sid = u.idx + 1
        /\ seg(u.idx).load_state = "mmap"
    BY <1>0, <1>1 DEF Upgrading
  <2>2. Used(u.idx)
    BY <2>1, PinnedFacts
  <2>3. flushed_segments'[u.idx].load_state = "mmap"
    BY <2>1, <2>2, SlotsStay DEF Same
  <2>4. \A v \in upgrades : v.idx = u.idx => v = u
    <3>1. upgrades \subseteq [idx : Idx, sid : Sid]
      BY <1>0 DEF TypeOK
    <3>2. \A v \in upgrades : v.sid = v.idx + 1
      BY <1>0 DEF Upgrading
    <3> QED
      BY <2>1, <3>1, <3>2
  <2>5. \A v \in upgrades : Upgrade(v) => v # u
    BY <1>2 DEF Upgrade
  <2>6. \A t \in Merger : MergeReplace(t) => u.idx \notin {task[t].lo, task[t].hi}
    <3>1. \A t \in Merger : MergeReplace(t) => mpc[t] \in Claiming
      BY EndTask DEF Claiming
    <3> QED
      BY <1>0, <2>1, <3>1 DEF Claims
  <2>7. u.idx \in Linked'
    BY <2>1, <2>4, <2>5, <2>6, Leaves
  <2> QED
    BY <2>1, <2>3, <2>7
<1> QED
  BY <1>2 DEF Upgrading

-----------------------------------------------------------------------------
(* The claims of the merge threads.                                        *)

\* One thread's, and what it has to do with the others'.
Claimed(t) ==
    LET k == task[t] IN
    /\ k.lo \in Linked /\ k.hi \in Linked
    /\ k.lo = k.hi \/ seg(k.lo).next_idx = k.hi
    /\ \A i \in {k.lo, k.hi} : seg(i).is_compacting /\ seg(i).load_state = "full"
    /\ k.start = seg(k.lo).start /\ k.end = seg(k.hi).end

Chosen(t) ==
    LET k == task[t] IN
    k.lo \in Linked /\ k.hi \in Linked => k.lo = k.hi \/ seg(k.lo).next_idx = k.hi

Disjoint(t, u) == {task[u].lo, task[u].hi} \cap {task[t].lo, task[t].hi} = {}

\* Claims, thread by thread and pair by pair.
LEMMA ClaimsAre ==
    Claims <=> /\ \A t \in Merger : mpc[t] = "claim" => Chosen(t)
               /\ \A t \in Merger : mpc[t] \in Claiming => Claimed(t)
               /\ \A t \in Merger : \A u \in Merger :
                    u # t /\ mpc[t] \in Claiming /\ mpc[u] \in Claiming => Disjoint(t, u)
  BY DEF Claims, Chosen, Claimed, Disjoint, Adjoining

\* What is in the list after a step and was in use before was in the list.
LEMMA StillLinked ==
    ASSUME Inv, Next, insert_idx <= insert_idx', NEW i \in Linked', Used(i)
    PROVE  i \in Linked
<1>0. TypeOK
  BY DEF Inv, PoolInv
<1>1. CASE Marks \/ Reserves \/ Fills \/ (\E j : Cleans(j))
  BY <1>1, LinkedStays
<1>2. CASE RegularRegister /\ Appends(ridx)
  <2>1. Coming(ridx)
    BY <1>2 DEF RegularRegister, Coming
  <2> QED
    BY <1>2, <2>1 DEF Appends, Used
<1>3. CASE Swaps
  <2>1. PICK a, b, j, new : Replaces(a, b, j, new) /\ (Coming(j) \/ j >= insert_idx)
    BY <1>3 DEF Swaps
  <2>2. ~Used(j) /\ j \in Idx
    BY <2>1, ComingFacts DEF Replaces
  <2> QED
    BY <2>1, <2>2 DEF Replaces
<1> QED
  BY <1>1, <1>2, <1>3, Kinds

\* As long as its thread goes on.
LEMMA ChosenStays ==
    ASSUME Inv, Next, insert_idx <= insert_idx', NEW t \in Merger,
           mpc[t] = "claim", task'[t] = task[t]
    PROVE  Chosen(t)'
<1>0. InHand /\ Chosen(t)
  BY ClaimsAre DEF Inv, PoolInv
<1> DEFINE a == task[t].lo
           b == task[t].hi
<1>1. Used(a) /\ Used(b)
  BY <1>0 DEF InHand
<1>2. SUFFICES ASSUME a \in Linked', b \in Linked', a # b
               PROVE  flushed_segments'[a].next_idx = b
  BY DEF Chosen
<1>3. a \in Linked /\ b \in Linked
  BY <1>1, <1>2, StillLinked
<1>4. seg(a).next_idx = b
  BY <1>0, <1>2, <1>3 DEF Chosen
<1> HIDE DEF a, b
<1> QED
  BY <1>2, <1>3, <1>4, NextStays

\* What a thread has claimed stays claimed as long as it works on it.
LEMMA ClaimedStays ==
    ASSUME Inv, Next, insert_idx <= insert_idx', NEW t \in Merger,
           mpc[t] \in Claiming, mpc'[t] \in Claiming,
           task'[t].lo = task[t].lo, task'[t].hi = task[t].hi,
           task'[t].start = task[t].start, task'[t].end = task[t].end
    PROVE  Claimed(t)'
<1>0. Claimed(t) /\ Upgrading
  BY ClaimsAre DEF Inv, PoolInv
<1>1. \A u \in Merger \ {t} : mpc[u] \in Claiming => Disjoint(t, u)
  BY ClaimsAre DEF Inv, PoolInv
<1>2. ASSUME NEW i \in {task[t].lo, task[t].hi}
      PROVE  /\ i \in Linked' /\ Same(i)
             /\ flushed_segments'[i].is_compacting
  <2>1. i \in Linked /\ Used(i) /\ seg(i).is_compacting /\ seg(i).load_state = "full"
    BY <1>0, PinnedFacts DEF Claimed
  <2>2. Same(i)
    BY <2>1, SlotsStay
  <2>3. \A u \in Merger : MergeReplace(u) => i \notin {task[u].lo, task[u].hi}
    <3>1. SUFFICES ASSUME NEW u \in Merger, MergeReplace(u)
                   PROVE  i \notin {task[u].lo, task[u].hi}
      OBVIOUS
    <3>2. mpc[u] \in Claiming /\ mpc'[u] \notin Claiming
      BY <3>1, EndTask DEF Claiming
    <3> QED
      BY <1>1, <1>2, <3>2 DEF Disjoint
  <2>4. \A u \in Merger : MergeGiveUp(u) => i \notin {task[u].lo, task[u].hi}
    <3>1. SUFFICES ASSUME NEW u \in Merger, MergeGiveUp(u)
                   PROVE  i \notin {task[u].lo, task[u].hi}
      OBVIOUS
    <3>2. mpc[u] \in Claiming /\ mpc'[u] \notin Claiming
      BY <3>1, EndTask DEF Claiming
    <3> QED
      BY <1>1, <1>2, <3>2 DEF Disjoint
  <2>5. \A u \in upgrades : u.idx # i
    BY <1>0, <2>1 DEF Upgrading
  <2>6. i \in Linked'
    BY <2>1, <2>3, <2>5, Leaves
  <2>7. flushed_segments'[i].is_compacting
    BY <2>1, <2>4, MarkStays
  <2> QED
    BY <2>2, <2>6, <2>7
<1> DEFINE a == task[t].lo
           b == task[t].hi
<1>3. /\ a \in Linked /\ b \in Linked /\ a \in Linked' /\ b \in Linked'
      /\ a = b \/ seg(a).next_idx = b
  BY <1>0, <1>2 DEF Claimed
<1>4. a = b \/ flushed_segments'[a].next_idx = b
  <2> HIDE DEF a, b
  <2> QED
    BY <1>3, NextStays
<1>5. /\ seg(a).load_state = "full" /\ seg(b).load_state = "full"
      /\ task[t].start = seg(a).start /\ task[t].end = seg(b).end
  BY <1>0 DEF Claimed
<1>6. /\ Same(a) /\ Same(b)
      /\ flushed_segments'[a].is_compacting /\ flushed_segments'[b].is_compacting
  BY <1>2
<1>7. /\ flushed_segments'[a].load_state = "full" /\ flushed_segments'[b].load_state = "full"
      /\ task'[t].start = flushed_segments'[a].start /\ task'[t].end = flushed_segments'[b].end
  BY <1>5, <1>6 DEF Same
<1> QED
  BY <1>3, <1>4, <1>6, <1>7 DEF Claimed

\* claim_merge_task_pool.
LEMMA ClaimClaims ==
    ASSUME Inv, Next, insert_idx <= insert_idx', NEW t \in Merger,
           MergeClaim(t), mpc'[t] = "load"
    PROVE  /\ Claimed(t)'
           /\ \A u \in Merger : u # t /\ mpc[u] \in Claiming => Disjoint(t, u)
           /\ task'[t].lo = task[t].lo /\ task'[t].hi = task[t].hi
<1>0. InHand /\ Retired /\ Chosen(t) /\ mpc[t] = "claim"
  BY ClaimsAre, ClaimTask DEF Inv, PoolInv
<1> DEFINE a == task[t].lo
           b == task[t].hi
<1>1. /\ Eligible(a) /\ Eligible(b)
      /\ task'[t].lo = a /\ task'[t].hi = b
      /\ task'[t].start = seg(a).start /\ task'[t].end = seg(b).end
      /\ flushed_segments' = [i \in Idx |-> IF i \in {a, b}
                                            THEN [seg(i) EXCEPT !.is_compacting = TRUE]
                                            ELSE seg(i)]
  BY ClaimTask
<1>2. Used(a) /\ Used(b)
  BY <1>0 DEF InHand
<1>3. a \in Linked /\ b \in Linked
  BY <1>0, <1>1, <1>2 DEF Retired, Eligible, Used
<1>4. a = b \/ seg(a).next_idx = b
  BY <1>0, <1>3 DEF Chosen
<1>5. Marks
  BY MergeMarks
<1>6. /\ Linked' = Linked /\ flushed_segments'[a].next_idx = seg(a).next_idx
  BY <1>3, <1>5, LinkedStays
<1>7. seg(a) \in SegmentType /\ seg(b) \in SegmentType /\ a \in Idx /\ b \in Idx
  BY <1>3, PinnedFacts
<1>8. flushed_segments'[a].is_compacting /\ flushed_segments'[b].is_compacting
  BY <1>1, <1>7 DEF SegmentType
<1>9. Same(a) /\ Same(b)
  BY <1>2, SlotsStay, Zenon
<1>10. /\ flushed_segments'[a].load_state = "full" /\ flushed_segments'[b].load_state = "full"
       /\ task'[t].start = flushed_segments'[a].start /\ task'[t].end = flushed_segments'[b].end
  BY <1>1, <1>9 DEF Same, Eligible
<1>11. \A u \in Merger : u # t /\ mpc[u] \in Claiming => Disjoint(t, u)
  <2>1. \A u \in Merger : mpc[u] \in Claiming =>
           seg(task[u].lo).is_compacting /\ seg(task[u].hi).is_compacting
    BY ClaimsAre DEF Inv, PoolInv, Claimed
  <2>2. ~seg(a).is_compacting /\ ~seg(b).is_compacting
    BY <1>1 DEF Eligible
  <2> QED
    BY <2>1, <2>2 DEF Disjoint
<1>12. Claimed(t)'
  <2> HIDE DEF a, b
  <2> QED
    BY <1>1, <1>3, <1>4, <1>6, <1>8, <1>10 DEF Claimed
<1> QED
  BY <1>1, <1>11, <1>12

\* Claims stay exclusive.
LEMMA ClaimsStep ==
    ASSUME Inv, Next, insert_idx <= insert_idx'
    PROVE  Claims'
<1>0. /\ \A t \in Merger : \A u \in Merger :
           u # t /\ mpc[t] \in Claiming /\ mpc[u] \in Claiming => Disjoint(t, u)
  BY ClaimsAre DEF Inv, PoolInv
<1>1. /\ \A t \in Merger : mpc'[t] = "claim" => Chosen(t)'
      /\ \A t \in Merger : mpc'[t] \in Claiming => Claimed(t)'
      /\ \A t \in Merger : \A u \in Merger :
           u # t /\ mpc'[t] \in Claiming /\ mpc'[u] \in Claiming => Disjoint(t, u)'
  <2>1. CASE UNCHANGED mergeVars
    BY <1>0, <2>1, ChosenStays, ClaimedStays DEF Disjoint
  <2>2. ASSUME NEW t \in Merger, Merge(t)
        PROVE  /\ \A v \in Merger : mpc'[v] = "claim" => Chosen(v)'
               /\ \A v \in Merger : mpc'[v] \in Claiming => Claimed(v)'
               /\ \A v \in Merger : \A u \in Merger :
                     u # v /\ mpc'[v] \in Claiming /\ mpc'[u] \in Claiming => Disjoint(v, u)'
    <3>1. Others(t)
      BY <2>2, MergeTable
    <3>2. \A v \in Merger \ {t} : mpc'[v] = "claim" => Chosen(v)'
      BY <3>1, ChosenStays DEF Others
    <3>3. \A v \in Merger \ {t} : mpc'[v] \in Claiming => Claimed(v)'
      BY <3>1, ClaimedStays DEF Others
    <3>4. mpc'[t] = "claim" => Chosen(t)'
      <4>1. SUFFICES ASSUME MergeScan(t) PROVE Chosen(t)'
        BY <2>2, MergeTable
      <4>2. /\ task'[t].lo \in Linked /\ task'[t].hi \in Linked
            /\ task'[t].lo = task'[t].hi \/ seg(task'[t].lo).next_idx = task'[t].hi
        BY <4>1, ScanTask
      <4>3. UNCHANGED poolVars
        BY <4>1 DEF MergeScan
      <4> QED
        BY <4>2, <4>3 DEF Chosen
    <3>5. mpc'[t] \in Claiming =>
            \/ MergeClaim(t) /\ mpc'[t] = "load"
            \/ mpc[t] \in Claiming /\ SameTask(t)
      BY <2>2, MergeTable DEF Claiming
    <3>6. mpc'[t] \in Claiming => Claimed(t)'
      BY <3>5, ClaimClaims, ClaimedStays DEF SameTask
    <3>7. ASSUME mpc'[t] \in Claiming, NEW u \in Merger, u # t, mpc'[u] \in Claiming
          PROVE  Disjoint(t, u)' /\ Disjoint(u, t)'
      <4>1. Disjoint(t, u) /\ task'[t].lo = task[t].lo /\ task'[t].hi = task[t].hi
        BY <1>0, <3>1, <3>5, <3>7, ClaimClaims DEF SameTask, Others
      <4> QED
        BY <3>1, <4>1 DEF Others, Disjoint
    <3>8. \A v \in Merger \ {t} : \A u \in Merger \ {t} :
            u # v /\ mpc'[v] \in Claiming /\ mpc'[u] \in Claiming => Disjoint(v, u)'
      BY <1>0, <3>1 DEF Others, Disjoint
    <3> QED
      BY <3>2, <3>3, <3>4, <3>6, <3>7, <3>8
  <2> QED
    BY <2>1, <2>2, Frames DEF Mrg
<1> QED
  <2>1. /\ \A t \in Merger : mpc'[t] = "claim" =>
             (task'[t].lo \in Linked' /\ task'[t].hi \in Linked' =>
                task'[t].lo = task'[t].hi
                \/ flushed_segments'[task'[t].lo].next_idx = task'[t].hi)
    BY <1>1 DEF Chosen
  <2>2. \A t \in Merger : mpc'[t] \in Claiming => 
         /\ task'[t].lo \in Linked' /\ task'[t].hi \in Linked'
         /\ task'[t].lo = task'[t].hi \/ flushed_segments'[task'[t].lo].next_idx = task'[t].hi
         /\ \A i \in {task'[t].lo, task'[t].hi} :
              flushed_segments'[i].is_compacting /\ flushed_segments'[i].load_state = "full"
         /\ task'[t].start = flushed_segments'[task'[t].lo].start
         /\ task'[t].end = flushed_segments'[task'[t].hi].end
    BY <1>1 DEF Claimed
  <2>3. \A t \in Merger : \A u \in Merger :
           u # t /\ mpc'[t] \in Claiming /\ mpc'[u] \in Claiming =>
             {task'[u].lo, task'[u].hi} \cap {task'[t].lo, task'[t].hi} = {}
    BY <1>1 DEF Disjoint
  <2> QED
    BY <2>1, <2>2, <2>3 DEF Claims, Adjoining, Claiming

-----------------------------------------------------------------------------
(* Pins.                                                                   *)

\* Pins stay those of what is in the slot.
LEMMA PinsStep ==
    ASSUME Inv, Next, insert_idx <= insert_idx'
    PROVE  PinsInv'
<1>0. TypeOK /\ PinsInv
  BY DEF Inv, PoolInv
<1>1. \A x \in Searcher : spc'[x] \in {"idle", "sent"} => pins'[x] = {} /\ drop'[x] = NIL
  <2>1. CASE UNCHANGED searchVars
    BY <1>0, <2>1 DEF PinsInv
  <2>2. ASSUME NEW y \in Searcher, SearchBegin(y) \/ Search(y)
        PROVE  \A x \in Searcher : spc'[x] \in {"idle", "sent"} => pins'[x] = {} /\ drop'[x] = NIL
    <3>1. CASE SearchBegin(y)
      BY <1>0, <3>1 DEF SearchBegin, SearchAt, PinsInv, TypeOK
    <3>2. CASE SearchPin(y)
      BY <1>0, <3>2 DEF SearchPin, PinAll, PinsInv, TypeOK
    <3>3. CASE SearchSegments(y)
      BY <1>0, <3>3 DEF SearchSegments, PinsInv, TypeOK
    <3>4. CASE SearchDrop(y)
      BY <1>0, <3>4 DEF SearchDrop, SearchAt, PinsInv, TypeOK
    <3>5. CASE SearchCheck(y)
      BY <1>0, <3>5 DEF SearchCheck, PinsInv, TypeOK
    <3>6. CASE SearchEnd(y)
      BY <1>0, <3>6 DEF SearchEnd, PinsInv, TypeOK
    <3> QED
      BY <2>2, <3>1, <3>2, <3>3, <3>4, <3>5, <3>6 DEF Search
  <2> QED
    BY <2>1, <2>2, Frames DEF Sch
<1> DEFINE New(i) == <<i, flushed_segments'[i].start, flushed_segments'[i].end,
                       flushed_segments'[i].version>>
<1>2. \A x \in Searcher : \A p \in pins'[x] : New(p[1]) = p
  <2>1. ASSUME NEW i, Used(i) PROVE New(i) = Ident(i)
    BY <2>1, SlotsStay DEF Same, Ident
  <2>2. \A x \in Searcher : \A p \in pins[x] : New(p[1]) = p
    <3> HIDE DEF New
    <3> QED
      BY <1>0, <2>1, PinnedFacts DEF PinsInv
  <2>3. CASE UNCHANGED pins
    BY <2>2, <2>3
  <2>4. ASSUME NEW y \in Searcher, SearchPin(y)
        PROVE  \A x \in Searcher : \A p \in pins'[x] : New(p[1]) = p
    <3>1. pins' = [pins EXCEPT ![y] = {Ident(i) : i \in {j \in Linked : seg(j).in_used}}]
      BY <2>4 DEF SearchPin, PinAll
    <3>2. \A p \in pins'[y] : \E i \in Linked : p = Ident(i)
      BY <1>0, <3>1 DEF TypeOK
    <3>3. \A i \in Linked : New(Ident(i)[1]) = Ident(i)
      <4>1. \A i \in Linked : Ident(i)[1] = i
        BY DEF Ident
      <4> HIDE DEF New
      <4> QED
        BY <2>1, <4>1, PinnedFacts
    <3>4. \A x \in Searcher \ {y} : pins'[x] = pins[x]
      BY <1>0, <3>1 DEF TypeOK
    <3> HIDE DEF New
    <3> QED
      BY <2>2, <3>2, <3>3, <3>4
  <2>5. ASSUME NEW y \in Searcher, SearchDrop(y)
        PROVE  \A x \in Searcher : \A p \in pins'[x] : New(p[1]) = p
    <3>1. \A x \in Searcher : pins'[x] \subseteq pins[x]
      BY <1>0, <2>5 DEF SearchDrop, TypeOK
    <3> HIDE DEF New
    <3> QED
      BY <2>2, <3>1
  <2>6. CASE \E y \in Searcher : SearchBegin(y) \/ SearchSegments(y) \/ SearchCheck(y) \/ SearchEnd(y)
    BY <2>3, <2>6 DEF SearchBegin, SearchSegments, SearchCheck, SearchEnd
  <2> HIDE DEF New
  <2> QED
    BY <2>3, <2>4, <2>5, <2>6, Frames DEF Sch, Search
<1>3. vpc' \in {"lock", "apply", "unpin"} =>
        /\ flushed_segments'[vidx'].start = Current'.start
        /\ flushed_segments'[vidx'].end = Current'.end
  <2>1. vpc \in {"lock", "apply", "unpin"} =>
          /\ seg(vidx).start = Current.start /\ seg(vidx).end = Current.end
          /\ Used(vidx)
    BY <1>0, PinnedFacts DEF PinsInv
  <2>2. ASSUME UNCHANGED <<todo, vidx>>, vpc \in {"lock", "apply", "unpin"}
        PROVE  /\ flushed_segments'[vidx'].start = Current'.start
               /\ flushed_segments'[vidx'].end = Current'.end
    <3>1. Current' = Current
      BY <2>2 DEF Current
    <3>2. Same(vidx)
      BY <2>1, <2>2, SlotsStay
    <3> QED
      BY <2>1, <2>2, <3>1, <3>2 DEF Same
  <2>3. CASE UNCHANGED vacVars
    BY <2>2, <2>3
  <2>4. CASE VacuumBegin \/ VacuumSegment \/ VacuumAnswer \/ VacuumEnd
    BY <2>4 DEF VacuumBegin, VacuumSegment, VacuumAnswer, VacuumEnd, VacuumAt
  <2>5. CASE UpdateFind
    <3> DEFINE i == FindBySids(Current.start, Current.end)
    <3>1. i # NIL => /\ i \in Linked /\ seg(i).start = Current.start
                     /\ seg(i).end = Current.end
      BY FindIs
    <3> HIDE DEF i
    <3>2. vpc' = "answer" \/ (i # NIL /\ vidx' = i)
      BY <2>5 DEF UpdateFind, i
    <3>3. i \in Linked => Same(i)
      BY SlotsStay, PinnedFacts, Zenon
    <3>4. Current' = Current
      BY <2>5 DEF UpdateFind, Current
    <3> QED
      BY <3>1, <3>2, <3>3, <3>4 DEF Same
  <2>6. CASE UpdateLock \/ UpdateApply \/ UpdateDrop
    <3>1. UNCHANGED <<todo, vidx>> /\ vpc \in {"lock", "apply", "unpin"}
      BY <2>6 DEF UpdateLock, UpdateCheck, UpdateApply, UpdateMask, UpdateDrop, VacuumAt
    <3> QED
      BY <2>2, <3>1
  <2>7. CASE UpdateDropCheck
    BY <2>7 DEF UpdateDropCheck
  <2> QED
    BY <2>3, <2>4, <2>5, <2>6, <2>7, Frames DEF Vac, Vacuum
<1> QED
  BY <1>1, <1>2, <1>3 DEF PinsInv, Ident

-----------------------------------------------------------------------------
(* Reference counts.                                                       *)

\* SEGMENT_UPDATE_VACUUM has slot i.
Held(i) == vidx = i /\ vpc \in {"lock", "apply", "unpin"}

RefAt(i) ==
    seg(i).ref_count = One(i \in Linked) + Cardinality(Pinning(i)) + One(Held(i))

\* RefExact, slot by slot.
LEMMA RefExactIs == RefExact <=> \A i \in Idx : RefAt(i)
  BY DEF RefExact, RefAt, Held

\* The counts before a step.
LEMMA Counts ==
    ASSUME Inv, NEW i \in Idx
    PROVE  /\ seg(i).ref_count = One(i \in Linked) + Cardinality(Pinning(i)) + One(Held(i))
           /\ IsFiniteSet(Pinning(i)) /\ Cardinality(Pinning(i)) \in Nat
           /\ seg(i).ref_count \in Nat
  BY PinningFinite, RefExactIs, PinnedFacts, SegmentFields DEF RefAt, Inv, PoolInv

\* Nobody comes or goes.
LEMMA RefKept ==
    ASSUME Inv, NEW i \in Idx, flushed_segments'[i].ref_count = seg(i).ref_count,
           i \in Linked' <=> i \in Linked, Pinning(i)' = Pinning(i),
           Held(i)' <=> Held(i)
    PROVE  RefAt(i)'
<1>1. One(i \in Linked') = One(i \in Linked)
  BY DEF One
<1>2. One(Held(i)') = One(Held(i))
  BY DEF One
<1> QED
  BY <1>1, <1>2, Counts DEF RefAt, One

\* The list takes a slot that nobody has.
LEMMA RefListed ==
    ASSUME Inv, NEW i \in Idx, ~Used(i), flushed_segments'[i].ref_count = 1,
           i \in Linked', UNCHANGED <<pins, vidx, vpc>>
    PROVE  RefAt(i)'
<1>1. Pinning(i) = {}
  BY PinnedFacts DEF Pinning
<1>2. ~Held(i)
  BY PinnedFacts DEF Held
<1>3. Pinning(i)' = {} /\ ~Held(i)'
  BY <1>1, <1>2 DEF Pinning, Held
<1>4. One(i \in Linked') = 1 /\ One(Held(i)') = 0
  BY <1>3 DEF One
<1>5. Cardinality(Pinning(i)') = 0
  BY <1>3, FS_EmptySet
<1> QED
  BY <1>4, <1>5 DEF RefAt, One

\* The list gives a slot up.
LEMMA RefUnlisted ==
    ASSUME Inv, NEW i \in Idx, i \in Linked,
           flushed_segments'[i].ref_count = seg(i).ref_count - 1,
           i \notin Linked', UNCHANGED <<pins, vidx, vpc>>
    PROVE  RefAt(i)'
<1>1. Pinning(i)' = Pinning(i) /\ (Held(i)' <=> Held(i))
  BY DEF Pinning, Held
<1>2. /\ One(i \in Linked) = 1 /\ One(i \in Linked') = 0
      /\ One(Held(i)') = One(Held(i)) /\ One(Held(i)) \in {0, 1}
  BY <1>1 DEF One
<1>3. flushed_segments'[i].ref_count = 0 + Cardinality(Pinning(i)) + One(Held(i))
  BY <1>2, Counts
<1> QED
  BY <1>1, <1>2, <1>3 DEF RefAt, One

\* A search comes: vector_search pins what it walks over.
LEMMA RefPin ==
    ASSUME Inv, NEW x \in Searcher, SearchPin(x), NEW i \in Idx
    PROVE  RefAt(i)'
<1>0. TypeOK /\ PinsInv
  BY DEF Inv, PoolInv
<1> DEFINE walk == {j \in Linked : seg(j).in_used}
<1>1. walk = Linked
  BY PinnedFacts
<1>2. /\ flushed_segments' = [j \in Idx |-> IF j \in walk THEN [seg(j) EXCEPT !.ref_count = @ + 1]
                                            ELSE seg(j)]
      /\ pins' = [pins EXCEPT ![x] = {Ident(j) : j \in walk}]
      /\ UNCHANGED <<vidx, vpc>> /\ spc[x] = "sent"
  BY DEF SearchPin, PinAll, SearchAt, vacVars
<1> HIDE DEF walk
<1>3. pins[x] = {}
  BY <1>0, <1>2 DEF PinsInv
<1>4. \A y \in Searcher \ {x} : pins'[y] = pins[y]
  BY <1>0, <1>2 DEF TypeOK
<1>5. \A j : Ident(j)[1] = j
  BY DEF Ident
<1>6. pins'[x] = {Ident(j) : j \in Linked}
  BY <1>0, <1>1, <1>2 DEF TypeOK
<1>7. (\E p \in pins'[x] : p[1] = i) <=> i \in Linked
  BY <1>5, <1>6
<1>8. Linked' = Linked
  BY <1>2, SearchMarks, LinkedStays
<1>9. Held(i)' <=> Held(i)
  BY <1>2 DEF Held
<1>10. CASE i \notin Linked
  <2>1. flushed_segments'[i].ref_count = seg(i).ref_count
    BY <1>1, <1>2, <1>10
  <2>2. Pinning(i)' = Pinning(i)
    BY <1>3, <1>4, <1>7, <1>10 DEF Pinning
  <2> QED
    BY <1>8, <1>9, <2>1, <2>2, RefKept
<1>11. CASE i \in Linked
  <2>1. flushed_segments'[i].ref_count = seg(i).ref_count + 1
    <3>1. seg(i) \in SegmentType /\ flushed_segments'[i] = [seg(i) EXCEPT !.ref_count = @ + 1]
      BY <1>1, <1>2, <1>11, PinnedFacts
    <3> QED
      BY <3>1 DEF SegmentType
  <2>2. Pinning(i)' = Pinning(i) \cup {x} /\ x \notin Pinning(i)
    BY <1>3, <1>4, <1>7, <1>11 DEF Pinning
  <2>3. Cardinality(Pinning(i)') = Cardinality(Pinning(i)) + 1
    BY <2>2, Counts, FS_AddElement
  <2>4. One(Held(i)') = One(Held(i)) /\ One(i \in Linked') = One(i \in Linked)
        /\ One(Held(i)) \in {0, 1} /\ One(i \in Linked) \in {0, 1}
    BY <1>8, <1>9 DEF One
  <2>5. flushed_segments'[i].ref_count = One(i \in Linked) + (Cardinality(Pinning(i)) + 1) + One(Held(i))
    BY <2>1, <2>4, Counts
  <2> QED
    BY <2>3, <2>4, <2>5 DEF RefAt
<1> QED
  BY <1>10, <1>11

\* A search drops a segment.
LEMMA RefDrop ==
    ASSUME Inv, NEW x \in Searcher, SearchDrop(x), NEW i \in Idx
    PROVE  RefAt(i)'
<1>0. TypeOK /\ PinsInv
  BY DEF Inv, PoolInv
<1>1. PICK p \in pins[x] :
          /\ flushed_segments' = [flushed_segments EXCEPT ![p[1]].ref_count = @ - 1]
          /\ pins' = [pins EXCEPT ![x] = @ \ {p}]
  BY DEF SearchDrop
<1>2. UNCHANGED <<vidx, vpc>>
  BY DEF SearchDrop, vacVars
<1>3. p[1] \in Idx /\ seg(p[1]) \in SegmentType
  BY PinnedFacts
<1>4. \A q \in pins[x] : q[1] = p[1] => q = p
  BY <1>0 DEF PinsInv
<1>5. /\ pins'[x] = pins[x] \ {p}
      /\ \A y \in Searcher \ {x} : pins'[y] = pins[y]
  BY <1>0, <1>1 DEF TypeOK
<1>6. Linked' = Linked
  BY SearchMarks, LinkedStays
<1>7. Held(i)' <=> Held(i)
  BY <1>2 DEF Held
<1>8. CASE i # p[1]
  <2>1. flushed_segments'[i].ref_count = seg(i).ref_count
    BY <1>0, <1>1, <1>8 DEF TypeOK
  <2>2. Pinning(i)' = Pinning(i)
    BY <1>5, <1>8 DEF Pinning
  <2> QED
    BY <1>6, <1>7, <2>1, <2>2, RefKept
<1>9. CASE i = p[1]
  <2>1. flushed_segments'[i].ref_count = seg(i).ref_count - 1
    BY <1>0, <1>1, <1>3, <1>9 DEF TypeOK, SegmentType
  <2>2. Pinning(i)' = Pinning(i) \ {x} /\ x \in Pinning(i)
    BY <1>4, <1>5, <1>9 DEF Pinning
  <2>3. Cardinality(Pinning(i)') = Cardinality(Pinning(i)) - 1
    BY <2>2, Counts, FS_RemoveElement, ZenonT(40)
  <2>4. One(Held(i)') = One(Held(i)) /\ One(i \in Linked') = One(i \in Linked)
        /\ One(Held(i)) \in {0, 1} /\ One(i \in Linked) \in {0, 1}
    BY <1>6, <1>7 DEF One
  <2>5. flushed_segments'[i].ref_count = One(i \in Linked) + (Cardinality(Pinning(i)) - 1) + One(Held(i))
    BY <2>1, <2>4, Counts
  <2> QED
    BY <2>3, <2>4, <2>5 DEF RefAt
<1> QED
  BY <1>8, <1>9

\* SEGMENT_UPDATE_VACUUM takes a reference.
LEMMA RefFind ==
    ASSUME Inv, UpdateFind, NEW i \in Idx
    PROVE  RefAt(i)'
<1>0. TypeOK
  BY DEF Inv, PoolInv
<1> DEFINE j == FindBySids(Current.start, Current.end)
<1>1. j # NIL => j \in Linked /\ j \in Idx
  BY FindIs, PinnedFacts
<1>2. /\ vpc = "sent"
      /\ \/ vpc' = "answer" /\ UNCHANGED flushed_segments
         \/ /\ j # NIL /\ vpc' = "lock" /\ vidx' = j
            /\ flushed_segments' = [flushed_segments EXCEPT ![j].ref_count = @ + 1]
      /\ UNCHANGED pins
  BY DEF UpdateFind, VacuumAt, searchVars
<1> HIDE DEF j
<1>3. Linked' = Linked /\ Pinning(i)' = Pinning(i)
  BY <1>2, VacuumMarks, LinkedStays DEF Pinning
<1>4. ~Held(i)
  BY <1>2 DEF Held
<1>5. CASE vpc' = "answer" /\ UNCHANGED flushed_segments
  BY <1>3, <1>4, <1>5, RefKept DEF Held
<1>6. CASE /\ j # NIL /\ vpc' = "lock" /\ vidx' = j
           /\ flushed_segments' = [flushed_segments EXCEPT ![j].ref_count = @ + 1]
  <2>1. CASE i # j
    <3>1. flushed_segments'[i].ref_count = seg(i).ref_count
      BY <1>0, <1>6, <2>1 DEF TypeOK
    <3> QED
      BY <1>3, <1>4, <1>6, <2>1, <3>1, RefKept DEF Held
  <2>2. CASE i = j
    <3>1. seg(i) \in SegmentType
      BY PinnedFacts
    <3>2. flushed_segments'[i].ref_count = seg(i).ref_count + 1
      BY <1>0, <1>6, <2>2, <3>1 DEF TypeOK, SegmentType
    <3>3. Held(i)'
      BY <1>6, <2>2 DEF Held
    <3>4. /\ One(Held(i)) = 0 /\ One(Held(i)') = 1
          /\ One(i \in Linked') = One(i \in Linked) /\ One(i \in Linked) \in {0, 1}
      BY <1>3, <1>4, <3>3 DEF One
    <3>5. flushed_segments'[i].ref_count = One(i \in Linked) + Cardinality(Pinning(i)) + 1
      BY <3>2, <3>4, Counts
    <3> QED
      BY <1>3, <3>4, <3>5 DEF RefAt
  <2> QED
    BY <2>1, <2>2
<1> QED
  BY <1>2, <1>5, <1>6

\* It gives it back.
LEMMA RefBack ==
    ASSUME Inv, UpdateDrop, NEW i \in Idx
    PROVE  RefAt(i)'
<1>0. TypeOK
  BY DEF Inv, PoolInv
<1>1. /\ vpc = "unpin" /\ vpc' = "check" /\ vidx' = vidx /\ UNCHANGED pins
      /\ flushed_segments' = [flushed_segments EXCEPT ![vidx].ref_count = @ - 1]
  BY DEF UpdateDrop, VacuumAt, searchVars
<1>2. Linked' = Linked /\ Pinning(i)' = Pinning(i)
  BY <1>1, VacuumMarks, LinkedStays DEF Pinning
<1>3. ~Held(i)'
  BY <1>1 DEF Held
<1>4. CASE i # vidx
  <2>1. flushed_segments'[i].ref_count = seg(i).ref_count
    BY <1>0, <1>1, <1>4 DEF TypeOK
  <2>2. ~Held(i)
    BY <1>4 DEF Held
  <2> QED
    BY <1>2, <1>3, <2>1, <2>2, RefKept
<1>5. CASE i = vidx
  <2>1. seg(i) \in SegmentType
    BY PinnedFacts
  <2>2. flushed_segments'[i].ref_count = seg(i).ref_count - 1
    BY <1>0, <1>1, <1>5, <2>1 DEF TypeOK, SegmentType
  <2>3. Held(i)
    BY <1>1, <1>5 DEF Held
  <2>4. /\ One(Held(i)) = 1 /\ One(Held(i)') = 0
        /\ One(i \in Linked') = One(i \in Linked) /\ One(i \in Linked) \in {0, 1}
    BY <1>2, <1>3, <2>3 DEF One
  <2>5. flushed_segments'[i].ref_count = One(i \in Linked) + Cardinality(Pinning(i)) + 0
    BY <2>2, <2>4, Counts
  <2> QED
    BY <1>2, <2>4, <2>5 DEF RefAt
<1> QED
  BY <1>4, <1>5

\* Merge threads count nothing but in the list.
LEMMA MergeRefs ==
    ASSUME Inv, NEW t \in Merger, Merge(t), Marks, NEW i \in Idx
    PROVE  flushed_segments'[i].ref_count = seg(i).ref_count
<1>1. flushed_segments \in [Idx -> SegmentType] /\ seg(i) \in SegmentType
  BY DEF Inv, PoolInv, TypeOK
<1>2. CASE MergeScan(t) \/ MergeLoad(t) \/ MergeReload(t) \/ MergeWrite(t)
  BY <1>2 DEF MergeScan, MergeLoad, MergeBuild, MergeReload, MergeMask, MergeWrite, poolVars
<1>3. CASE MergeLock(t) \/ MergeLock2(t)
  <2>1. [seg(i) EXCEPT !.mutex = t].ref_count = seg(i).ref_count
    BY <1>1 DEF SegmentType
  <2>2. \/ flushed_segments'[i] = seg(i)
        \/ flushed_segments'[i] = [seg(i) EXCEPT !.mutex = t]
    BY <1>1, <1>3 DEF MergeLock, MergeLock2
  <2> QED
    BY <2>1, <2>2
<1>4. CASE MergeClaim(t)
  <2>1. [seg(i) EXCEPT !.is_compacting = TRUE].ref_count = seg(i).ref_count
    BY <1>1 DEF SegmentType
  <2>2. \/ flushed_segments'[i] = seg(i)
        \/ flushed_segments'[i] = [seg(i) EXCEPT !.is_compacting = TRUE]
    BY <1>4, ClaimTask, ZenonT(40)
  <2> QED
    BY <2>1, <2>2
<1>5. CASE MergeGiveUp(t) \/ MergeUnlock(t)
  <2>1. PICK c \in BOOLEAN : flushed_segments' = Unlocked(task[t], c)
    BY <1>5, EndTask
  <2>2. [seg(i) EXCEPT !.mutex = NoThread, !.is_compacting = @ /\ c].ref_count = seg(i).ref_count
    BY <1>1 DEF SegmentType
  <2>3. \/ flushed_segments'[i] = seg(i)
        \/ flushed_segments'[i] = [seg(i) EXCEPT !.mutex = NoThread, !.is_compacting = @ /\ c]
    BY <2>1 DEF Unlocked
  <2> QED
    BY <2>2, <2>3
<1>6. CASE MergeReserve(t)
  <2>1. insert_idx' = insert_idx /\ insert_idx \in Nat
    BY Constants DEF Marks, Inv, PoolInv, TypeOK
  <2>2. UNCHANGED poolVars
    BY <1>6, <2>1, ReserveTask DEF Reserves
  <2> QED
    BY <2>2 DEF poolVars
<1>7. CASE MergeReplace(t)
  <2>1. Linked' = Linked
    BY LinkedStays
  <2> QED
    BY <1>7, <2>1, MergeReplaces DEF Replaces
<1> QED
  BY <1>2, <1>3, <1>4, <1>5, <1>6, <1>7, Zenon DEF Merge, Compact

\* Under the mutex of its segment SEGMENT_UPDATE_VACUUM counts nothing.
LEMMA UpdateRefs ==
    ASSUME Inv, UpdateLock \/ UpdateApply, NEW i \in Idx
    PROVE  flushed_segments'[i].ref_count = seg(i).ref_count
<1>1. flushed_segments \in [Idx -> SegmentType] /\ seg(i) \in SegmentType
  BY DEF Inv, PoolInv, TypeOK
<1>2. CASE UpdateLock
  <2>1. [seg(i) EXCEPT !.mutex = "vacuum"].ref_count = seg(i).ref_count
    BY <1>1 DEF SegmentType
  <2>2. \/ flushed_segments'[i] = seg(i)
        \/ flushed_segments'[i] = [seg(i) EXCEPT !.mutex = "vacuum"]
    BY <1>1, <1>2 DEF UpdateLock, UpdateCheck
  <2> QED
    BY <2>1, <2>2
<1> QED
  BY <1>2, ApplyBits

\* The list's count of what comes and goes in it.
LEMMA RefList ==
    ASSUME Inv, UNCHANGED <<pins, vidx, vpc>>, NEW i \in Idx,
           Reserves \/ Fills \/ (Appends(ridx) /\ ~Used(ridx)) \/ Swaps
    PROVE  RefAt(i)'
<1>1. Pinning(i)' = Pinning(i) /\ (Held(i)' <=> Held(i))
  BY DEF Pinning, Held
<1>2. CASE Reserves
  <2>1. flushed_segments'[i].ref_count = seg(i).ref_count
    BY <1>2, ReservesFacts, EmptyType DEF Reserves
  <2> QED
    BY <1>1, <1>2, <2>1, LinkedStays, RefKept
<1>3. CASE Fills
  <2>1. flushed_segments'[i].ref_count = seg(i).ref_count
    BY <1>3, FillsFacts
  <2> QED
    BY <1>1, <1>3, <2>1, LinkedStays, RefKept
<1>4. CASE Appends(ridx) /\ ~Used(ridx)
  <2>1. CASE i = ridx
    BY <1>4, <2>1, RefListed DEF Appends, Holds
  <2>2. CASE i # ridx
    BY <1>1, <1>4, <2>2, RefKept DEF Appends, Steady
  <2> QED
    BY <2>1, <2>2
<1>5. CASE Swaps
  <2>1. PICK a, b, j, new : Replaces(a, b, j, new) /\ (Coming(j) \/ j >= insert_idx)
    BY <1>5 DEF Swaps
  <2>2. j \in Idx /\ ~Used(j) /\ a \in Linked /\ b \in Linked /\ j \notin Linked
    BY <2>1, ComingFacts DEF Replaces
  <2>3. CASE i = j
    BY <2>1, <2>2, <2>3, RefListed DEF Replaces, Holds
  <2>4. CASE i \in {a, b}
    <3>1. flushed_segments'[i] = Dropped(seg(i)) /\ i \notin Linked' /\ i \in Linked
      BY <2>1, <2>2, <2>4 DEF Replaces
    <3>2. flushed_segments'[i].ref_count = seg(i).ref_count - 1
      BY <3>1, PinnedFacts, DroppedIs
    <3> QED
      BY <3>1, <3>2, RefUnlisted
  <2>5. CASE i \notin {a, b, j}
    BY <1>1, <2>1, <2>5, RefKept DEF Replaces, Steady
  <2> QED
    BY <2>3, <2>4, <2>5
<1> QED
  BY <1>2, <1>3, <1>4, <1>5

\* A slot that is cleaned up has no reference.
LEMMA RefCleaned ==
    ASSUME Inv, NEW j, Cleans(j), NEW i \in Idx, UNCHANGED pins, Held(i)' <=> Held(i)
    PROVE  RefAt(i)'
<1>1. flushed_segments'[i].ref_count = seg(i).ref_count
  BY CleansFacts, CleanedIs, PinnedFacts DEF Cleans
<1>2. Pinning(i)' = Pinning(i)
  BY DEF Pinning
<1> QED
  BY <1>1, <1>2, LinkedStays, RefKept

\* The counts are exact after a step of a search.
LEMMA RefSearch ==
    ASSUME Inv, insert_idx <= insert_idx', NEW x \in Searcher, SearchBegin(x) \/ Search(x),
           NEW i \in Idx
    PROVE  RefAt(i)'
<1>0. TypeOK /\ InHand
  BY DEF Inv, PoolInv
<1>1. CASE SearchBegin(x) \/ SearchSegments(x) \/ SearchEnd(x)
  <2>1. UNCHANGED <<poolVars, pins, vidx, vpc>>
    BY <1>1 DEF SearchBegin, SearchSegments, SearchEnd, vacVars
  <2> QED
    BY <2>1, RefKept DEF poolVars, listVars, Linked, Pinning, Held
<1>2. CASE SearchPin(x)
  BY <1>2, RefPin
<1>3. CASE SearchDrop(x)
  BY <1>3, RefDrop
<1>4. CASE SearchCheck(x)
  <2> DEFINE d == drop[x]
  <2>1. /\ d # NIL /\ CheckDropped(d) /\ head_idx' = head_idx /\ tail_idx' = tail_idx
        /\ UNCHANGED <<pins, vidx, vpc>>
    BY <1>4 DEF SearchCheck, vacVars
  <2>2. Used(d)
    BY <1>0, <2>1 DEF InHand
  <2> HIDE DEF d
  <2>3. (Marks /\ UNCHANGED flushed_segments) \/ Cleans(d)
    BY <1>0, <2>1, <2>2, CheckCleans
  <2>4. CASE Cleans(d)
    BY <2>1, <2>4, RefCleaned DEF Held
  <2>5. CASE Marks /\ UNCHANGED flushed_segments
    BY <2>1, <2>5, LinkedStays, RefKept DEF Held, Pinning
  <2> QED
    BY <2>3, <2>4, <2>5
<1> QED
  BY <1>1, <1>2, <1>3, <1>4 DEF Search

\* The counts are exact after a step of VACUUM.
LEMMA RefVacuum ==
    ASSUME Inv, insert_idx <= insert_idx', Vac, NEW i \in Idx
    PROVE  RefAt(i)'
<1>0. TypeOK /\ InHand /\ UNCHANGED pins
  BY VacFrame DEF Inv, PoolInv, searchVars
<1>a. Pinning(i)' = Pinning(i)
  BY <1>0 DEF Pinning
<1>1. CASE VacuumBegin \/ VacuumSegment \/ VacuumAnswer \/ VacuumEnd
  <2>1. UNCHANGED poolVars /\ ~Held(i) /\ ~Held(i)'
    BY <1>1 DEF VacuumBegin, VacuumSegment, VacuumAnswer, VacuumEnd, Held, VacuumAt
  <2> QED
    BY <1>a, <2>1, RefKept DEF poolVars, listVars, Linked
<1>2. CASE UpdateFind
  BY <1>2, RefFind
<1>3. CASE UpdateLock \/ UpdateApply
  <2>1. Held(i)' <=> Held(i)
    BY <1>3 DEF UpdateLock, UpdateCheck, UpdateApply, UpdateMask, VacuumAt, Held
  <2> QED
    BY <1>a, <1>3, <2>1, VacuumMarks, LinkedStays, UpdateRefs, RefKept
<1>4. CASE UpdateDrop
  BY <1>4, RefBack
<1>5. CASE UpdateDropCheck
  <2>1. /\ vpc = "check" /\ vpc' = "answer" /\ CheckDropped(vidx)
        /\ head_idx' = head_idx /\ tail_idx' = tail_idx
    BY <1>5 DEF UpdateDropCheck, VacuumAt
  <2>2. Used(vidx) /\ ~Held(i) /\ ~Held(i)'
    BY <1>0, <2>1 DEF InHand, Held
  <2>3. (Marks /\ UNCHANGED flushed_segments) \/ Cleans(vidx)
    BY <1>0, <2>1, <2>2, CheckCleans
  <2>4. CASE Cleans(vidx)
    BY <1>0, <2>2, <2>4, RefCleaned
  <2>5. CASE Marks /\ UNCHANGED flushed_segments
    BY <1>a, <2>2, <2>5, LinkedStays, RefKept
  <2> QED
    BY <2>3, <2>4, <2>5
<1> QED
  BY <1>1, <1>2, <1>3, <1>4, <1>5 DEF Vac, Vacuum

\* Reference counts stay exact.
LEMMA RefStep ==
    ASSUME Inv, Next, insert_idx <= insert_idx'
    PROVE  RefExact'
<1> SUFFICES ASSUME NEW i \in Idx
             PROVE  RefAt(i)'
  BY DEF RefExact, RefAt, Held
<1>1. ASSUME Marks, flushed_segments'[i].ref_count = seg(i).ref_count,
             UNCHANGED <<pins, vidx, vpc>>
      PROVE  RefAt(i)'
  BY <1>1, LinkedStays, RefKept DEF Pinning, Held
<1>2. CASE Reg
  <2>1. UNCHANGED <<pins, vidx, vpc>>
    BY <1>2, RegFrame DEF searchVars, vacVars
  <2>2. CASE RegularRegister /\ Appends(ridx)
    <3>1. ridx \in Idx /\ Coming(ridx)
      BY <2>2 DEF RegularRegister, Appends, Coming
    <3> QED
      BY <2>1, <2>2, <3>1, ComingFacts, RefList
  <2>3. CASE Fills \/ Reserves
    BY <2>1, <2>3, RefList
  <2>4. CASE UNCHANGED poolVars /\ Marks
    BY <1>1, <2>1, <2>4 DEF poolVars
  <2> QED
    BY <1>2, <2>2, <2>3, <2>4, RegKinds
<1>3. CASE Upg
  <2>1. UNCHANGED <<pins, vidx, vpc>>
    BY <1>3, UpgFrame DEF searchVars, vacVars
  <2>2. (Marks /\ UNCHANGED poolVars) \/ Swaps
    <3>1. PICK u \in upgrades : Upgrade(u)
      BY <1>3 DEF Upg
    <3>2. (Marks /\ UNCHANGED poolVars) \/ insert_idx' = insert_idx + 1
      BY <3>1, UpgradeReplaces
    <3>3. insert_idx' = insert_idx + 1 => ~Marks
      BY Constants DEF Marks, listVars, Inv, PoolInv, TypeOK
    <3> QED
      BY <3>1, <3>2, <3>3, SwapKinds
  <2> QED
    BY <1>1, <2>1, <2>2, RefList DEF poolVars
<1>4. CASE Mrg
  <2>1. PICK t \in Merger : Merge(t)
    BY <1>4 DEF Mrg
  <2>2. UNCHANGED <<pins, vidx, vpc>>
    BY <2>1, MrgFrame DEF searchVars, vacVars
  <2>3. Marks \/ Reserves \/ Swaps
    BY <2>1, MrgKinds, SwapKinds
  <2> QED
    BY <1>1, <2>1, <2>2, <2>3, MergeRefs, RefList
<1>5. CASE Sch
  BY <1>5, RefSearch DEF Sch
<1>6. CASE Del
  BY <1>1, <1>6, DelFrame, UntouchedMarks DEF Inv, PoolInv, poolVars, searchVars, vacVars
<1>7. CASE Vac
  BY <1>7, RefVacuum
<1> QED
  BY <1>2, <1>3, <1>4, <1>5, <1>6, <1>7, Parties

-----------------------------------------------------------------------------
(* Segment files after a step.                                             *)

\* The files fs, d being deleted, when n memtables have been flushed.
FilesOf(fs, d, n) ==
    /\ IsFiniteSet(fs)
    /\ \A f \in fs :
         /\ f.start \in Sid /\ f.end \in Sid /\ f.start <= f.end /\ f.end <= n
         /\ f.version <= Cardinality(fs)
         /\ RowsOf(f.start .. f.end) \ d \subseteq f.rows
         /\ f.mask \subseteq d
    /\ \A f, g \in fs :
         f.start = g.start /\ f.end = g.end /\ f.version = g.version => f = g

\* Flushing and merging add files under a new name.
LEMMA FileAdded ==
    ASSUME NEW fs \in SUBSET FileType, NEW d, NEW n \in Nat, NEW m \in Nat, n <= m,
           FilesOf(fs, d, n), NEW g \in FileType,
           g.start \in Sid, g.end \in Sid, g.start <= g.end, g.end <= m,
           RowsOf(g.start .. g.end) \ d \subseteq g.rows, g.mask \subseteq d,
           g.version <= Cardinality(fs) + 1,
           \A f \in fs : ~(f.start = g.start /\ f.end = g.end /\ f.version = g.version)
    PROVE  FilesOf(fs \cup {g}, d, m)
<1>1. IsFiniteSet(fs) /\ Cardinality(fs) \in Nat
  BY FS_CardinalityType DEF FilesOf
<1>2. g \notin fs
  OBVIOUS
<1>3. IsFiniteSet(fs \cup {g}) /\ Cardinality(fs \cup {g}) = Cardinality(fs) + 1
  BY <1>1, <1>2, FS_AddElement
<1>4. \A f \in fs : f.end \in Nat /\ f.version \in Nat
  BY Constants DEF FileType
<1>5. \A f \in fs : f.end <= m /\ f.version <= Cardinality(fs) + 1
  BY <1>1, <1>4 DEF FilesOf
<1> QED
  BY <1>3, <1>5 DEF FilesOf

\* VACUUM adds to a bitmap.
LEMMA FileMarked ==
    ASSUME NEW fs \in SUBSET FileType, NEW d, NEW n \in Nat, FilesOf(fs, d, n),
           NEW f \in fs, NEW g \in FileType,
           g.start = f.start, g.end = f.end, g.version = f.version, g.rows = f.rows,
           g.mask \subseteq f.mask \cup d
    PROVE  FilesOf((fs \ {f}) \cup {g}, d, n)
<1>1. IsFiniteSet(fs) /\ Cardinality(fs) \in Nat
  BY FS_CardinalityType DEF FilesOf
<1>2. IsFiniteSet(fs \ {f}) /\ Cardinality(fs \ {f}) = Cardinality(fs) - 1
  BY <1>1, FS_RemoveElement
<1>3. g \notin fs \ {f}
  BY DEF FilesOf
<1>4. IsFiniteSet((fs \ {f}) \cup {g}) /\ Cardinality((fs \ {f}) \cup {g}) = Cardinality(fs)
  <2> DEFINE S == fs \ {f}
  <2>1. IsFiniteSet(S) /\ Cardinality(S) = Cardinality(fs) - 1 /\ g \notin S
    BY <1>2, <1>3
  <2> HIDE DEF S
  <2>2. IsFiniteSet(S \cup {g}) /\ Cardinality(S \cup {g}) = Cardinality(S) + 1
    BY <2>1, FS_AddElement
  <2>3. Cardinality(S \cup {g}) = Cardinality(fs)
    BY <1>1, <2>1, <2>2
  <2> QED
    BY <2>2, <2>3 DEF S
<1>5. g.mask \subseteq d
  BY DEF FilesOf
<1>6. \A h \in (fs \ {f}) \cup {g} :
         /\ h.start \in Sid /\ h.end \in Sid /\ h.start <= h.end /\ h.end <= n
         /\ h.version <= Cardinality(fs)
         /\ RowsOf(h.start .. h.end) \ d \subseteq h.rows
         /\ h.mask \subseteq d
  BY <1>5 DEF FilesOf
<1>7. \A h, k \in (fs \ {f}) \cup {g} :
         h.start = k.start /\ h.end = k.end /\ h.version = k.version => h = k
  BY DEF FilesOf
<1> HIDE DEF FilesOf
<1> QED
  BY <1>4, <1>6, <1>7 DEF FilesOf

\* More rows are deleted.
LEMMA FilesLater ==
    ASSUME NEW fs, NEW d, NEW d2, d \subseteq d2, NEW n, FilesOf(fs, d, n)
    PROVE  FilesOf(fs, d2, n)
  BY DEF FilesOf

\* The files before a step.
LEMMA FilesAre ==
    ASSUME Inv
    PROVE  /\ FilesOf(files, dead, rsid) /\ files \in SUBSET FileType
           /\ rsid \in Nat /\ rsid \in AnySid
           /\ rpc \in {"find", "reserve", "load"} => Versions(rsid, rsid) # {}
           /\ registered = 1 .. (IF rpc = "idle" THEN rsid ELSE rsid - 1)
  BY Constants DEF Inv, PoolInv, RowsInv, FilesInv, FilesOf, TypeOK

\* The sids of a segment of the list have been flushed.
LEMMA ListedSids ==
    ASSUME Inv, NEW i \in Linked
    PROVE  /\ seg(i).start \in Sid /\ seg(i).end \in Sid /\ seg(i).start <= seg(i).end
           /\ seg(i).end <= (IF rpc = "idle" THEN rsid ELSE rsid - 1)
           /\ seg(i).end <= rsid
           /\ Filed(seg(i).start, seg(i).end, seg(i).version, seg(i).rows)
           /\ Whole(seg(i).start, seg(i).end, seg(i).rows, seg(i).mask)
<1>1. /\ seg(i).start \in Sid /\ seg(i).end \in Sid /\ seg(i).start <= seg(i).end
      /\ Filed(seg(i).start, seg(i).end, seg(i).version, seg(i).rows)
      /\ Whole(seg(i).start, seg(i).end, seg(i).rows, seg(i).mask)
  BY PinnedFacts DEF Inv, RowsInv, SegmentsInv
<1>2. seg(i).end \in seg(i).start .. seg(i).end
  BY <1>1, Constants
<1>3. UNION {seg(j).start .. seg(j).end : j \in Linked} = registered
  BY DEF Inv, PoolInv, ListInv
<1>4. seg(i).end \in registered
  BY <1>2, <1>3
<1>5. registered = 1 .. (IF rpc = "idle" THEN rsid ELSE rsid - 1) /\ rsid \in Nat
  BY FilesAre
<1> QED
  BY <1>1, <1>4, <1>5

\* What a merge thread has claimed.
LEMMA ClaimedSids ==
    ASSUME Inv, NEW t \in Merger, mpc[t] \in Claiming
    PROVE  /\ task[t].lo \in Linked /\ task[t].hi \in Linked
           /\ task[t].start \in Sid /\ task[t].end \in Sid
           /\ task[t].start <= task[t].end /\ task[t].end <= rsid
           /\ task[t].start = seg(task[t].lo).start /\ task[t].end = seg(task[t].hi).end
           /\ task[t].lo # task[t].hi =>
                seg(task[t].hi).start = seg(task[t].lo).end + 1
<1>1. /\ task[t].lo \in Linked /\ task[t].hi \in Linked
      /\ task[t].start = seg(task[t].lo).start /\ task[t].end = seg(task[t].hi).end
      /\ task[t].lo = task[t].hi \/ seg(task[t].lo).next_idx = task[t].hi
  BY DEF Inv, PoolInv, Claims, Adjoining
<1> DEFINE a == task[t].lo
           b == task[t].hi
<1>2. /\ seg(a).start \in Sid /\ seg(a).end \in Sid /\ seg(a).start <= seg(a).end
      /\ seg(b).start \in Sid /\ seg(b).end \in Sid /\ seg(b).start <= seg(b).end
      /\ seg(b).end <= rsid
  BY <1>1, ListedSids
<1>3. Chain(flushed_segments, head_idx, tail_idx, Linked)
  BY DEF Inv, PoolInv, ListInv
<1>4. a # b => seg(b).start = seg(a).end + 1
  <2> HIDE DEF a, b
  <2>1. ASSUME a # b PROVE a # tail_idx
    BY <1>1, <1>3, <2>1, PinnedFacts, Constants DEF Chain, a, b
  <2> QED
    BY <1>1, <1>3, <2>1 DEF Chain, a, b
<1>5. seg(a).start <= seg(b).end
  <2> HIDE DEF a, b
  <2> QED
    BY <1>2, <1>4, Constants, SMTT(40)
<1> QED
  BY <1>1, <1>2, <1>4, <1>5

\* No file goes away, and its rows stay.
FilesGrow ==
    \A f \in files : \E g \in files' :
        g.start = f.start /\ g.end = f.end /\ g.version = f.version /\ g.rows = f.rows

\* The flusher's file.
LEMMA FlushedFile ==
    ASSUME Inv, FlushSegment
    PROVE  /\ FilesOf(files', dead', rsid') /\ FilesGrow
           /\ \E g \in files' : g.start = rsid' /\ g.end = rsid'
<1> DEFINE s == rsid + 1
           g == File(s, s, 1, RowsOf({s}), {})
<1>1. /\ rsid < LastSid /\ rsid' = s /\ dead' = dead
      /\ files' = files \cup {g}
  BY DEF FlushSegment, heapVars
<1>2. FilesOf(files, dead, rsid) /\ files \in SUBSET FileType /\ rsid \in Nat
  BY FilesAre
<1>3. s \in Sid /\ s \in Nat /\ s \in AnySid /\ rsid <= s /\ s <= s /\ ~(s <= rsid)
  BY <1>1, <1>2, Constants
<1>4. s .. s = {s}
  BY <1>3
<1>5. Cardinality(files) \in Nat /\ 1 <= Cardinality(files) + 1
  BY <1>2, FS_CardinalityType DEF FilesOf
<1> HIDE DEF s
<1>6. /\ g \in FileType /\ g.start = s /\ g.end = s /\ g.version = 1
      /\ g.rows = RowsOf({s}) /\ g.mask = {}
  BY <1>3, RowFacts, FileIs
<1> HIDE DEF g
<1>7. \A f \in files : f.end # s
  BY <1>2, <1>3 DEF FilesOf
<1>8. RowsOf(g.start .. g.end) \ dead \subseteq g.rows /\ g.mask \subseteq dead
  BY <1>4, <1>6
<1>9. FilesOf(files \cup {g}, dead, s)
  BY <1>2, <1>3, <1>5, <1>6, <1>7, <1>8, FileAdded
<1> QED
  BY <1>1, <1>6, <1>9 DEF FilesGrow

\* The file that a merge thread writes.
LEMMA WrittenFile ==
    ASSUME Inv, NEW t \in Merger, MergeWrite(t)
    PROVE  /\ FilesOf(files', dead, rsid) /\ FilesGrow
           /\ \E g \in files' : /\ g.start = task[t].start /\ g.end = task[t].end
                                /\ g.version = task'[t].version /\ g.rows = task[t].rows
<1> DEFINE s == task[t].start
           e == task[t].end
           v == LatestVersion(s, e) + 1
           g == File(s, e, v, task[t].rows, task[t].mask)
<1>0. TypeOK /\ FilesInv /\ TasksInv
  BY DEF Inv, PoolInv, RowsInv
<1>1. mpc[t] = "write" /\ files' = files \cup {g}
  BY DEF MergeWrite, MergeAt
<1>2. FilesOf(files, dead, rsid) /\ files \in SUBSET FileType /\ rsid \in Nat /\ rsid <= rsid
  BY FilesAre
<1>3. /\ s \in Sid /\ e \in Sid /\ s <= e /\ e <= rsid
  BY <1>1, ClaimedSids DEF Claiming
<1>4. s \in AnySid /\ e \in AnySid
  BY <1>3, Constants
<1>5. /\ LatestVersion(s, e) \in Nat /\ LatestVersion(s, e) <= Cardinality(files)
      /\ Cardinality(files) \in Nat
      /\ \A w \in Versions(s, e) : w <= LatestVersion(s, e)
  BY <1>0, LatestIs
<1>6. v \in Nat /\ v <= Cardinality(files) + 1 /\ v \notin Versions(s, e)
  BY <1>5
<1>7. \A f \in files : ~(f.start = s /\ f.end = e /\ f.version = v)
  BY <1>0, <1>6, VersionFacts
<1>8. Whole(s, e, task[t].rows, task[t].mask) /\ task[t].mask \subseteq dead
  BY <1>0, <1>1 DEF TasksInv
<1>a. task[t].rows \in SUBSET Row /\ task[t].mask \in SUBSET Row
  BY <1>0, TaskFields
<1>b. task'[t].version = v
  BY WriteTask
<1> HIDE DEF s, e, v
<1>9. /\ g \in FileType /\ g.start = s /\ g.end = e /\ g.version = v
      /\ g.rows = task[t].rows /\ g.mask = task[t].mask
  BY <1>4, <1>6, <1>a, FileIs
<1> HIDE DEF g
<1>10. RowsOf(g.start .. g.end) \ dead \subseteq g.rows /\ g.mask \subseteq dead
  BY <1>8, <1>9 DEF Whole
<1>11. FilesOf(files \cup {g}, dead, rsid)
  BY <1>2, <1>3, <1>6, <1>7, <1>9, <1>10, FileAdded
<1> QED
  BY <1>1, <1>9, <1>11, <1>b DEF FilesGrow, s, e

\* VACUUM's bitmap.
LEMMA MarkedFile ==
    ASSUME Inv, VacuumSegment
    PROVE  FilesOf(files', dead, rsid) /\ FilesGrow
<1>1. FilesOf(files, dead, rsid) /\ files \in SUBSET FileType /\ rsid \in Nat
  BY FilesAre
<1>2. doomed \subseteq dead
  BY DEF Inv, RowsInv, VacuumInv
<1>3. CASE files' = files
  BY <1>1, <1>3 DEF FilesGrow
<1>4. ASSUME NEW f \in files, NEW g \in FileType, files' = (files \ {f}) \cup {g},
             g.start = f.start, g.end = f.end, g.version = f.version,
             g.rows = f.rows, g.mask \subseteq f.mask \cup doomed
      PROVE  FilesOf(files', dead, rsid) /\ FilesGrow
  <2>1. g.mask \subseteq f.mask \cup dead
    BY <1>2, <1>4
  <2>2. FilesOf((files \ {f}) \cup {g}, dead, rsid)
    BY <1>1, <1>4, <2>1, FileMarked
  <2>3. FilesGrow
    BY <1>4 DEF FilesGrow
  <2> QED
    BY <1>4, <2>2, <2>3
<1> QED
  BY <1>3, <1>4, SegmentVacuumed

\* The files after a step: none is gone, and there is one of each name.
LEMMA FilesAfter ==
    ASSUME Inv, Next
    PROVE  FilesOf(files', dead', rsid') /\ FilesGrow
<1>1. FilesOf(files, dead, rsid) /\ dead \subseteq dead'
  BY FilesAre, Frames
<1>2. CASE UNCHANGED files /\ rsid' = rsid
  BY <1>1, <1>2, FilesLater DEF FilesGrow
<1>3. CASE FlushSegment
  BY <1>3, FlushedFile
<1>4. ASSUME NEW t \in Merger, MergeWrite(t)
      PROVE  FilesOf(files', dead', rsid') /\ FilesGrow
  <2>1. rsid' = rsid /\ dead' = dead
    BY <1>4 DEF MergeWrite, regVars, heapVars
  <2> QED
    BY <1>4, <2>1, WrittenFile
<1>5. CASE VacuumSegment
  <2>1. rsid' = rsid /\ dead' = dead
    BY <1>5 DEF VacuumSegment, regVars, heapVars
  <2> QED
    BY <1>5, <2>1, MarkedFile
<1>6. rsid' = rsid \/ FlushSegment
  BY Frames DEF Reg, Regular, RegularFind, RegularReserve, RegularLoad, RegularRegister, regVars
<1> QED
  BY <1>2, <1>3, <1>4, <1>5, <1>6, Frames

\* So no version goes away.
LEMMA VersionsGrow ==
    ASSUME Inv, Next, NEW s, NEW e
    PROVE  Versions(s, e) \subseteq Versions(s, e)'
<1>1. FilesGrow
  BY FilesAfter
<1>2. \A v \in Versions(s, e) :
        \E f \in files : f.start = s /\ f.end = e /\ f.version = v
  BY DEF Versions
<1>3. \A v \in Versions(s, e) :
        \E f \in files' : f.start = s /\ f.end = e /\ f.version = v
  BY <1>1, <1>2 DEF FilesGrow
<1> QED
  BY <1>3 DEF Versions

\* The directory stays in order.
LEMMA FilesStep ==
    ASSUME Inv, Next, insert_idx <= insert_idx'
    PROVE  FilesInv'
<1>1. FilesOf(files', dead', rsid')
  BY FilesAfter
<1>2. /\ rsid \in Nat
      /\ rpc \in {"find", "reserve", "load"} => Versions(rsid, rsid) # {}
      /\ registered = 1 .. (IF rpc = "idle" THEN rsid ELSE rsid - 1)
  BY FilesAre
<1> DEFINE VersionsOf(s) == {f.version : f \in {g \in files' : g.start = s /\ g.end = s}}
<1>3. /\ rpc' \in {"find", "reserve", "load"} => VersionsOf(rsid') # {}
      /\ registered' = 1 .. (IF rpc' = "idle" THEN rsid' ELSE rsid' - 1)
  <2>1. ASSUME rpc' \in {"find", "reserve", "load"} => rpc \in {"find", "reserve", "load"},
               rpc' = "idle" <=> rpc = "idle", rsid' = rsid, registered' = registered
        PROVE  /\ rpc' \in {"find", "reserve", "load"} => VersionsOf(rsid') # {}
               /\ registered' = 1 .. (IF rpc' = "idle" THEN rsid' ELSE rsid' - 1)
    <3>1. Versions(rsid, rsid) \subseteq VersionsOf(rsid)
      <4> DEFINE s == rsid
      <4>1. \A v \in Versions(s, s) :
              \E f \in files : f.start = s /\ f.end = s /\ f.version = v
        BY DEF Versions
      <4>2. \A v \in Versions(s, s) :
              \E f \in files' : f.start = s /\ f.end = s /\ f.version = v
        BY <4>1, FilesAfter DEF FilesGrow
      <4> QED
        BY <4>2
    <3> QED
      BY <1>2, <2>1, <3>1
  <2>2. CASE UNCHANGED regVars
    <3> HIDE DEF VersionsOf
    <3> QED
      BY <2>1, <2>2 DEF regVars
  <2>3. CASE FlushSegment
    <3>1. rpc = "idle" /\ rpc' = "find" /\ rsid' = rsid + 1 /\ registered' = registered
      BY <2>3 DEF FlushSegment
    <3>2. VersionsOf(rsid') # {}
      BY <2>3, FlushedFile
    <3>3. rsid' - 1 = rsid
      BY <1>2, <3>1
    <3> QED
      BY <1>2, <3>1, <3>2, <3>3
  <2>4. CASE RegularFind
    <3>1. FindBySids(rsid, rsid) = NIL
      <4>1. ASSUME FindBySids(rsid, rsid) # NIL PROVE FALSE
        <5> DEFINE i == FindBySids(rsid, rsid)
        <5>1. i \in Linked /\ seg(i).end = rsid
          BY <4>1, FindIs
        <5> HIDE DEF i
        <5>2. seg(i).end <= rsid - 1
          BY <2>4, <5>1, ListedSids DEF RegularFind
        <5> QED
          BY <1>2, <5>1, <5>2
      <4> QED
        BY <4>1
    <3>2. rpc = "find" /\ rpc' = "reserve" /\ rsid' = rsid /\ registered' = registered
      BY <2>4, <3>1 DEF RegularFind
    <3> HIDE DEF VersionsOf
    <3> QED
      BY <2>1, <3>2
  <2>5. CASE RegularReserve
    <3>1. rpc = "reserve" /\ rpc' \in {"load", "crash"} /\ rsid' = rsid /\ registered' = registered
      BY <2>5 DEF RegularReserve
    <3> HIDE DEF VersionsOf
    <3> QED
      BY <2>1, <3>1
  <2>6. CASE RegularLoad
    <3>1. rpc = "load" /\ rpc' = "register" /\ rsid' = rsid /\ registered' = registered
      BY <2>6 DEF RegularLoad
    <3> HIDE DEF VersionsOf
    <3> QED
      BY <2>1, <3>1
  <2>7. CASE RegularRegister
    <3>1. rpc = "register" /\ rpc' = "idle" /\ rsid' = rsid /\ registered' = registered \cup {rsid}
      BY <2>7 DEF RegularRegister
    <3>2. rsid >= 1
      <4>1. seg(ridx).start = rsid /\ seg(ridx).start \in Sid
        BY <2>7 DEF RegularRegister, Inv, RowsInv, TasksInv, SegmentsInv, PoolInv, Reserving
      <4> QED
        BY <4>1, Constants
    <3>3. (1 .. rsid - 1) \cup {rsid} = 1 .. rsid
      BY <1>2, <3>2
    <3> QED
      BY <1>2, <3>1, <3>3
  <2> QED
    BY <2>2, <2>3, <2>4, <2>5, <2>6, <2>7, Frames DEF Reg, Regular
<1>4. rpc' \in {"find", "reserve", "load"} =>
        {f.version : f \in {g \in files' : g.start = rsid' /\ g.end = rsid'}} # {}
  BY <1>3
<1> HIDE DEF VersionsOf
<1> QED
  BY <1>1, <1>3, <1>4 DEF FilesInv, FilesOf, Versions

-----------------------------------------------------------------------------
(* What is in the slots.                                                   *)

\* References are only taken to what has one.
LEMMA RefFrom ==
    ASSUME Inv, Next, insert_idx <= insert_idx', Marks, NEW i \in Idx,
           flushed_segments'[i].ref_count > 0
    PROVE  seg(i).ref_count > 0
<1>0. TypeOK /\ InHand /\ seg(i) \in SegmentType /\ seg(i).ref_count \in Nat
  BY PinnedFacts, SegmentFields DEF Inv, PoolInv
<1>1. CASE flushed_segments'[i].ref_count = seg(i).ref_count
  BY <1>1
<1>2. CASE i \in Linked
  BY <1>2, PinnedFacts
<1>3. insert_idx' = insert_idx /\ insert_idx \in Nat /\ Linked' = Linked
  BY LinkedStays, Constants, SMTT(40) DEF Marks, listVars, Inv, PoolInv, TypeOK
<1>4. CASE UNCHANGED poolVars
  BY <1>1, <1>4 DEF poolVars
<1>5. CASE Reg
  <2>1. CASE Appends(ridx)
    BY <1>3, <2>1 DEF Appends
  <2>2. CASE Reserves
    BY <1>3, <2>2 DEF Reserves
  <2>3. CASE Fills
    BY <1>1, <2>3, FillsFacts
  <2> QED
    BY <1>4, <1>5, <2>1, <2>2, <2>3, RegKinds
<1>6. CASE Upg
  BY <1>3, <1>4, <1>6, UpgradeReplaces DEF Upg, Replaces
<1>7. CASE Mrg
  BY <1>1, <1>7, MergeRefs DEF Mrg
<1>8. CASE Sch
  <2>1. PICK x \in Searcher : SearchBegin(x) \/ Search(x)
    BY <1>8 DEF Sch
  <2>2. CASE SearchBegin(x) \/ SearchSegments(x) \/ SearchEnd(x)
    BY <1>4, <2>2 DEF SearchBegin, SearchSegments, SearchEnd
  <2>3. CASE SearchPin(x)
    BY <1>1, <1>2, <2>3 DEF SearchPin, PinAll
  <2>4. CASE SearchDrop(x)
    <3>1. PICK p \in pins[x] :
             flushed_segments' = [flushed_segments EXCEPT ![p[1]].ref_count = @ - 1]
      BY <2>4, Zenon DEF SearchDrop
    <3>2. p[1] \in Idx /\ seg(p[1]).ref_count > 0
      BY PinnedFacts, Zenon
    <3>3. \A j \in Idx : flushed_segments'[j] =
             IF j = p[1] THEN [seg(j) EXCEPT !.ref_count = @ - 1] ELSE seg(j)
      BY <1>0, <3>1, Zenon DEF TypeOK
    <3> QED
      BY <1>0, <1>1, <3>2, <3>3
  <2>5. CASE SearchCheck(x)
    <3> DEFINE d == drop[x]
    <3>1. /\ d # NIL /\ CheckDropped(d) /\ head_idx' = head_idx /\ tail_idx' = tail_idx
      BY <2>5 DEF SearchCheck
    <3>2. Used(d)
      BY <1>0, <3>1 DEF InHand
    <3> HIDE DEF d
    <3>3. UNCHANGED flushed_segments \/ Cleans(d)
      BY <1>0, <3>1, <3>2, CheckCleans
    <3> QED
      BY <1>1, <3>3, CleansFacts, CleanedIs, PinnedFacts DEF Cleans
  <2> QED
    BY <2>1, <2>2, <2>3, <2>4, <2>5 DEF Search
<1>9. CASE Del
  BY <1>4, <1>9, DelFrame
<1>10. CASE Vac
  <2>1. CASE VacuumBegin \/ VacuumSegment \/ VacuumAnswer \/ VacuumEnd
    BY <1>4, <2>1 DEF VacuumBegin, VacuumSegment, VacuumAnswer, VacuumEnd
  <2>2. CASE UpdateFind
    <3> DEFINE j == FindBySids(Current.start, Current.end)
    <3>1. j # NIL => j \in Linked
      BY FindIs
    <3> HIDE DEF j
    <3>2. \/ UNCHANGED flushed_segments
          \/ j # NIL /\ flushed_segments' = [flushed_segments EXCEPT ![j].ref_count = @ + 1]
      BY <2>2 DEF UpdateFind, j
    <3> QED
      BY <1>0, <1>1, <1>2, <3>1, <3>2 DEF TypeOK
  <2>3. CASE UpdateLock \/ UpdateApply
    BY <1>1, <2>3, UpdateRefs
  <2>4. CASE UpdateDrop
    <3>1. /\ flushed_segments' = [flushed_segments EXCEPT ![vidx].ref_count = @ - 1]
          /\ vpc = "unpin"
      BY <2>4 DEF UpdateDrop, VacuumAt
    <3> QED
      BY <1>0, <1>1, <3>1, PinnedFacts DEF TypeOK
  <2>5. CASE UpdateDropCheck
    <3>1. /\ vpc = "check" /\ CheckDropped(vidx) /\ head_idx' = head_idx /\ tail_idx' = tail_idx
      BY <2>5 DEF UpdateDropCheck, VacuumAt
    <3>2. Used(vidx)
      BY <1>0, <3>1 DEF InHand
    <3>3. UNCHANGED flushed_segments \/ Cleans(vidx)
      BY <1>0, <3>1, <3>2, CheckCleans
    <3> QED
      BY <1>1, <3>3, CleansFacts, CleanedIs, PinnedFacts DEF Cleans
  <2> QED
    BY <1>10, <2>1, <2>2, <2>3, <2>4, <2>5 DEF Vac, Vacuum
<1> QED
  BY <1>5, <1>6, <1>7, <1>8, <1>9, <1>10, Parties

\* The files fs have segment s-e, and all that lives, d being deleted, is there.
Backed(fs, d, s, e, v, rows, mask) ==
    /\ s \in Sid /\ e \in Sid /\ s <= e
    /\ \E f \in fs : f.start = s /\ f.end = e /\ f.version = v /\ f.rows = rows
    /\ RowsOf(s .. e) \ d \subseteq rows \ mask

BackedAt(i) ==
    Backed(files, dead, seg(i).start, seg(i).end, seg(i).version, seg(i).rows, seg(i).mask)

Loading(i) == rpc = "register" /\ ridx = i

\* SegmentsInv, slot by slot.
LEMMA SegmentsAre ==
    SegmentsInv <=> \A i \in Idx : seg(i).ref_count > 0 \/ Loading(i) =>
                                     seg(i).in_used /\ BackedAt(i)
<1>1. \A i \in Idx :
        BackedAt(i) <=>
        /\ seg(i).start \in Sid /\ seg(i).end \in Sid /\ seg(i).start <= seg(i).end
        /\ Filed(seg(i).start, seg(i).end, seg(i).version, seg(i).rows)
        /\ Whole(seg(i).start, seg(i).end, seg(i).rows, seg(i).mask)
  BY DEF BackedAt, Backed, Filed, Whole
<1> QED
  BY <1>1 DEF SegmentsInv, Loading

\* A segment stays good while only bits of deleted rows are set.
LEMMA BackedStays ==
    ASSUME Inv, Next, NEW s, NEW e, NEW v, NEW rows, NEW mask, NEW mask2,
           Backed(files, dead, s, e, v, rows, mask), mask2 \subseteq mask \cup dead'
    PROVE  Backed(files', dead', s, e, v, rows, mask2)
<1>1. FilesGrow /\ dead \subseteq dead'
  BY FilesAfter, Frames
<1>2. \E f \in files' : f.start = s /\ f.end = e /\ f.version = v /\ f.rows = rows
  BY <1>1 DEF Backed, FilesGrow
<1>3. RowsOf(s .. e) \ dead' \subseteq rows \ mask2
  BY <1>1 DEF Backed
<1> QED
  BY <1>2, <1>3 DEF Backed

AfterAt(i) ==
    LET n == flushed_segments'[i] IN
    /\ n.in_used
    /\ Backed(files', dead', n.start, n.end, n.version, n.rows, n.mask)

\* The same for the state after a step.
LEMMA SegmentsAfter ==
    SegmentsInv' <=> \A i \in Idx : flushed_segments'[i].ref_count > 0 \/ Loading(i)' =>
                                      AfterAt(i)
<1>1. \A i \in Idx :
        AfterAt(i) <=>
        LET n == flushed_segments'[i] IN
        /\ n.in_used /\ n.start \in Sid /\ n.end \in Sid /\ n.start <= n.end
        /\ \E f \in files' : /\ f.start = n.start /\ f.end = n.end
                             /\ f.version = n.version /\ f.rows = n.rows
        /\ RowsOf(n.start .. n.end) \ dead' \subseteq n.rows \ n.mask
  BY DEF AfterAt, Backed
<1> QED
  BY <1>1 DEF SegmentsInv, Loading, Filed, Whole

\* The slot is in use before the step and but for its bitmap stays as it is.
LEMMA SegmentSame ==
    ASSUME Inv, Next, NEW i \in Idx, seg(i).ref_count > 0 \/ Loading(i),
           LET g == flushed_segments[i]
               n == flushed_segments'[i]
           IN /\ n.in_used = g.in_used /\ n.start = g.start /\ n.end = g.end
              /\ n.version = g.version /\ n.rows = g.rows
              /\ n.mask \subseteq g.mask \cup dead'
    PROVE  AfterAt(i)
<1>1. seg(i).in_used /\ BackedAt(i)
  BY SegmentsAre DEF Inv, RowsInv
<1> DEFINE g == flushed_segments[i]
           n == flushed_segments'[i]
<1>2. Backed(files', dead', g.start, g.end, g.version, g.rows, n.mask)
  <2>1. Backed(files, dead, g.start, g.end, g.version, g.rows, g.mask)
    BY <1>1 DEF BackedAt
  <2> QED
    BY <2>1, BackedStays
<1>3. n.in_used /\ Backed(files', dead', n.start, n.end, n.version, n.rows, n.mask)
  BY <1>1, <1>2
<1> QED
  BY <1>3 DEF AfterAt

\* Which slot is loaded for registering.
LEMMA LoadingFrom ==
    ASSUME Inv, Next, NEW i, Loading(i)'
    PROVE  Loading(i) \/ (RegularLoad /\ Fills /\ i = ridx)
<1>1. CASE UNCHANGED regVars
  BY <1>1 DEF Loading, regVars
<1>2. CASE Reg
  BY <1>2, RegTable, LoadFills DEF Loading
<1> QED
  BY <1>1, <1>2, Frames

\* Segments are good after a step that only marks slots.
LEMMA SegmentsMarked ==
    ASSUME Inv, Next, insert_idx <= insert_idx', Marks, ~RegularLoad, ~\E j : Cleans(j),
           NEW i \in Idx, flushed_segments'[i].ref_count > 0 \/ Loading(i)'
    PROVE  AfterAt(i)
<1>1. seg(i).ref_count > 0 \/ Loading(i)
  BY RefFrom, LoadingFrom
<1>2. flushed_segments'[i].mask \subseteq seg(i).mask \cup dead'
  <2>1. CASE flushed_segments'[i].mask = seg(i).mask
    BY <2>1
  <2>2. CASE UpdateApply /\ i = vidx
    <3>1. \A f \in files : f.mask \subseteq dead
      BY FilesAre DEF FilesOf
    <3>2. dead \subseteq dead'
      BY Frames
    <3> QED
      BY <2>2, <3>1, <3>2, ApplyBits
  <2> QED
    BY <2>1, <2>2, Bits DEF BitsKept
<1> QED
  BY <1>1, <1>2, SegmentSame DEF Marks, Kept

\* They are after a cleanup, which nobody has the slot of.
LEMMA SegmentsCleaned ==
    ASSUME Inv, Next, NEW j, Cleans(j), ~RegularLoad,
           NEW i \in Idx, flushed_segments'[i].ref_count > 0 \/ Loading(i)'
    PROVE  AfterAt(i)
<1>1. CASE i = j
  <2>1. flushed_segments'[i].ref_count = 0
    BY <1>1, CleansFacts, CleanedIs, PinnedFacts
  <2>2. ~Loading(i)
    BY <1>1 DEF Cleans, Used, Coming, Loading
  <2> QED
    BY <2>1, <2>2, LoadingFrom
<1>2. CASE i # j
  <2>1. flushed_segments'[i] = seg(i)
    BY <1>2, CleansFacts
  <2> QED
    BY <2>1, LoadingFrom, SegmentSame
<1> QED
  BY <1>1, <1>2

\* They are after a reservation, which nobody can see.
LEMMA SegmentsReserved ==
    ASSUME Inv, Next, Reserves, ~RegularLoad,
           NEW i \in Idx, flushed_segments'[i].ref_count > 0 \/ Loading(i)'
    PROVE  AfterAt(i)
<1>1. CASE i = insert_idx
  <2>1. flushed_segments'[i].ref_count = 0
    BY <1>1, ReservesFacts
  <2>2. ~Loading(i)
    <3>1. Loading(i) => i < insert_idx
      BY DEF Loading, Inv, PoolInv, Reserving, Coming
    <3>2. insert_idx \in Nat
      BY Constants DEF Inv, PoolInv, TypeOK
    <3> QED
      BY <1>1, <3>1, <3>2
  <2> QED
    BY <2>1, <2>2, LoadingFrom
<1>2. CASE i # insert_idx
  <2>1. flushed_segments'[i] = seg(i)
    BY <1>2, ReservesFacts
  <2> QED
    BY <2>1, LoadingFrom, SegmentSame
<1> QED
  BY <1>1, <1>2

\* They are after a load from the files.
LEMMA SegmentsFilled ==
    ASSUME Inv, Next, Fills,
           NEW i \in Idx, flushed_segments'[i].ref_count > 0 \/ Loading(i)'
    PROVE  AfterAt(i)
<1>1. CASE i = ridx
  <2> DEFINE n == flushed_segments'[i]
  <2>1. n.in_used /\ \E f \in files :
          /\ f.start = n.start /\ f.end = n.end /\ f.version = n.version
          /\ f.rows = n.rows /\ f.mask = n.mask
    BY <1>1, FillsFacts
  <2> HIDE DEF n
  <2>2. PICK f \in files :
          /\ f.start = n.start /\ f.end = n.end /\ f.version = n.version
          /\ f.rows = n.rows /\ f.mask = n.mask
    BY <2>1
  <2>3. Backed(files, dead, n.start, n.end, n.version, n.rows, n.mask)
    <3>1. /\ f.start \in Sid /\ f.end \in Sid /\ f.start <= f.end
          /\ RowsOf(f.start .. f.end) \ dead \subseteq f.rows /\ f.mask \subseteq dead
      BY FilesAre DEF FilesOf
    <3>2. RowsOf(f.start .. f.end) \ dead \subseteq f.rows \ f.mask
      BY <3>1
    <3> QED
      BY <2>2, <3>1, <3>2 DEF Backed
  <2>4. Backed(files', dead', n.start, n.end, n.version, n.rows, n.mask)
    BY <2>3, BackedStays
  <2> QED
    BY <2>1, <2>4 DEF AfterAt, n
<1>2. CASE i # ridx
  <2>1. flushed_segments'[i] = seg(i)
    BY <1>2, FillsFacts
  <2> QED
    BY <1>2, <2>1, LoadingFrom, SegmentSame
<1> QED
  BY <1>1, <1>2

\* They are after register_flushed_segment.
LEMMA SegmentsAppended ==
    ASSUME Inv, Next, RegularRegister, Appends(ridx),
           NEW i \in Idx, flushed_segments'[i].ref_count > 0 \/ Loading(i)'
    PROVE  AfterAt(i)
<1>1. rpc = "register" /\ rpc' = "idle"
  BY DEF RegularRegister
<1>2. CASE i = ridx
  BY <1>1, <1>2, SegmentSame DEF Appends, Holds, Loading
<1>3. CASE i # ridx
  BY <1>1, <1>3, SegmentSame DEF Appends, Steady, Loading
<1> QED
  BY <1>2, <1>3

\* They are after replace_flushed_segments_n.
LEMMA SegmentsReplaced ==
    ASSUME Inv, Next, UNCHANGED regVars, NEW a, NEW b, NEW j, NEW new,
           Replaces(a, b, j, new), new.in_used,
           Backed(files, dead, new.start, new.end, new.version, new.rows, new.mask),
           NEW i \in Idx, flushed_segments'[i].ref_count > 0 \/ Loading(i)'
    PROVE  AfterAt(i)
<1>1. Loading(i)' <=> Loading(i)
  BY DEF Loading, regVars
<1>2. CASE i = j
  <2> DEFINE n == flushed_segments'[i]
  <2>1. /\ n.in_used /\ n.start = new.start /\ n.end = new.end
        /\ n.version = new.version /\ n.rows = new.rows /\ n.mask = new.mask
    BY <1>2 DEF Replaces, Holds
  <2>2. Backed(files', dead', new.start, new.end, new.version, new.rows, new.mask)
    BY BackedStays
  <2> QED
    BY <2>1, <2>2 DEF AfterAt
<1>3. CASE i \in {a, b} /\ i # j
  <2>1. flushed_segments'[i] = Dropped(seg(i)) /\ i \in Linked /\ seg(i) \in SegmentType
        /\ seg(i).ref_count > 0
    BY <1>3, PinnedFacts DEF Replaces
  <2>2. CASE seg(i).ref_count = 1
    <3>1. flushed_segments'[i].ref_count = 0
      BY <2>1, <2>2, DroppedIs
    <3>2. ~Loading(i)
      BY <2>1, ComingFacts DEF Loading, Coming
    <3> QED
      BY <1>1, <3>1, <3>2
  <2>3. CASE seg(i).ref_count # 1
    BY <2>1, <2>3, DroppedIs, SegmentSame
  <2> QED
    BY <2>2, <2>3
<1>4. CASE i \notin {a, b, j}
  BY <1>1, <1>4, SegmentSame DEF Replaces, Steady
<1> QED
  BY <1>2, <1>3, <1>4

\* Segments in use stay good.
LEMMA SegmentsStep ==
    ASSUME Inv, Next, insert_idx <= insert_idx'
    PROVE  SegmentsInv'
<1> SUFFICES ASSUME NEW i \in Idx, flushed_segments'[i].ref_count > 0 \/ Loading(i)'
             PROVE  AfterAt(i)
  BY SegmentsAfter
<1>1. CASE RegularLoad
  BY <1>1, LoadFills, SegmentsFilled
<1>2. CASE ~RegularLoad /\ (Marks \/ Reserves \/ (\E j : Cleans(j)))
  BY <1>2, SegmentsMarked, SegmentsReserved, SegmentsCleaned
<1>3. CASE Reg
  BY <1>1, <1>2, <1>3, SegmentsAppended, RegKinds
<1>4. ASSUME NEW u \in upgrades, Upgrade(u)
      PROVE  AfterAt(i)
  <2>0. UNCHANGED regVars /\ ~RegularLoad
    BY <1>4 DEF Upgrade, regVars, RegularLoad
  <2> DEFINE a == u.idx
             new == Loaded(EmptySegment, seg(a), "full")
  <2>1. CASE Marks
    BY <1>2, <2>0, <2>1
  <2>2. CASE Replaces(a, a, insert_idx, new)
    <3>1. a \in Linked /\ a \in Idx /\ seg(a) \in SegmentType /\ seg(a).ref_count > 0
      BY <2>2, PinnedFacts DEF Replaces
    <3>2. /\ seg(a).start \in AnySid /\ seg(a).end \in AnySid
          /\ seg(a).version \in Nat
          /\ seg(a).rows \subseteq Row /\ seg(a).mask \subseteq Row
      BY <3>1, SegmentFields
    <3>3. /\ new.in_used /\ new.start = seg(a).start /\ new.end = seg(a).end
          /\ new.version = seg(a).version /\ new.rows = seg(a).rows
          /\ new.mask = seg(a).mask
      BY <3>2, EmptyType, LoadedIs
    <3>4. BackedAt(a)
      BY <3>1, SegmentsAre DEF Inv, RowsInv
    <3> HIDE DEF new
    <3>5. Backed(files, dead, new.start, new.end, new.version, new.rows, new.mask)
      BY <3>3, <3>4 DEF BackedAt
    <3> QED
      BY <2>0, <2>2, <3>3, <3>5, SegmentsReplaced
  <2> QED
    BY <1>4, <2>1, <2>2, UpgradeReplaces
<1>5. ASSUME NEW t \in Merger, MergeReplace(t)
      PROVE  AfterAt(i)
  <2> DEFINE k == task[t]
             f == File(k.start, k.end, k.version, k.rows, k.mask)
             new == Loaded(seg(k.new), f, "full")
  <2>1. Replaces(k.lo, k.hi, k.new, new)
    BY <1>5, MergeReplaces
  <2>2. UNCHANGED regVars /\ mpc[t] = "replace"
    BY <1>5 DEF MergeReplace, MergeAt
  <2>3. seg(k.new) \in SegmentType
    BY <2>1, PinnedFacts DEF Replaces
  <2>4. /\ f.start = k.start /\ f.end = k.end /\ f.version = k.version
        /\ f.rows = k.rows /\ f.mask = k.mask
        /\ f.start \in AnySid /\ f.end \in AnySid /\ f.version \in Nat
        /\ f.rows \subseteq Row /\ f.mask \subseteq Row
    BY DEF Inv, PoolInv, TypeOK, TaskType, File
  <2> HIDE DEF f
  <2>5. /\ new.in_used /\ new.start = k.start /\ new.end = k.end
        /\ new.version = k.version /\ new.rows = k.rows /\ new.mask = k.mask
    <3>1. /\ new.in_used /\ new.start = f.start /\ new.end = f.end
          /\ new.version = f.version /\ new.rows = f.rows /\ new.mask = f.mask
      <4> DEFINE g == seg(k.new)
                 n == Loaded(g, f, "full")
      <4>1. g \in SegmentType
        BY <2>3
      <4> HIDE DEF g
      <4>2. /\ n.in_used /\ n.start = f.start /\ n.end = f.end
            /\ n.version = f.version /\ n.rows = f.rows /\ n.mask = f.mask
        <5>1. "full" \in {"none", "mmap", "full"}
          OBVIOUS
        <5>2. /\ f.start \in AnySid /\ f.end \in AnySid /\ f.version \in Nat
              /\ f.rows \subseteq Row /\ f.mask \subseteq Row
          BY <2>4
        <5> HIDE DEF n
        <5> QED
          BY <4>1, <5>1, <5>2, LoadedIs DEF n
      <4> QED
        BY <4>2 DEF g
    <3> QED
      BY <2>4, <3>1
  <2> HIDE DEF new
  <2>6. /\ Whole(k.start, k.end, k.rows, k.mask)
        /\ Filed(k.start, k.end, k.version, k.rows)
    BY <2>2 DEF Inv, RowsInv, TasksInv
  <2>7. k.start \in Sid /\ k.end \in Sid /\ k.start <= k.end
    BY <2>2, ClaimedSids DEF Claiming
  <2>8. Backed(files, dead, new.start, new.end, new.version, new.rows, new.mask)
    BY <2>5, <2>6, <2>7 DEF Backed, Whole, Filed
  <2> QED
    BY <2>1, <2>2, <2>5, <2>8, SegmentsReplaced
<1>6. CASE Mrg
  <2>1. PICK t \in Merger : Merge(t)
    BY <1>6 DEF Mrg
  <2> QED
    BY <1>1, <1>2, <1>5, <2>1, MrgKinds
<1>7. CASE Sch
  BY <1>1, <1>2, <1>7, SchKinds DEF Sch
<1>8. CASE Del
  BY <1>1, <1>2, <1>8, DelFrame, UntouchedMarks DEF Inv, PoolInv
<1>9. CASE Vac
  BY <1>1, <1>2, <1>9, VacKinds
<1> QED
  BY <1>3, <1>4, <1>6, <1>7, <1>8, <1>9, Parties DEF Upg

-----------------------------------------------------------------------------
(* What merge threads have built.                                          *)

\* Task k at label l goes with the files fs, d being deleted.
Ready(fs, d, l, k) ==
    /\ l \in {"lock", "lock2", "reload"} =>
         /\ RowsOf(k.start .. k.end) \ d \subseteq k.rows
         /\ \A g \in k.src : \E f \in fs :
              f.start = g.start /\ f.end = g.end /\ f.version = g.version
    /\ l \in {"write", "reserve", "replace"} =>
         RowsOf(k.start .. k.end) \ d \subseteq k.rows \ k.mask /\ k.mask \subseteq d
    /\ l \in {"reserve", "replace"} =>
         \E f \in fs : /\ f.start = k.start /\ f.end = k.end
                       /\ f.version = k.version /\ f.rows = k.rows

\* A version of a segment is that of a file.
LEMMA VersionIs ==
    ASSUME NEW s, NEW e, NEW v
    PROVE  v \in Versions(s, e) <=>
             \E f \in files : f.start = s /\ f.end = e /\ f.version = v
  BY DEF Versions

\* TasksInv, thread by thread.
LEMMA TasksAre ==
    TasksInv <=> /\ rpc = "register" => seg(ridx).start = rsid /\ seg(ridx).end = rsid
                 /\ \A t \in Merger : Ready(files, dead, mpc[t], task[t])
<1>1. ASSUME NEW t \in Merger
      PROVE  Ready(files, dead, mpc[t], task[t]) <=>
         LET k == task[t] IN
         /\ mpc[t] \in {"lock", "lock2", "reload"} =>
              /\ Whole(k.start, k.end, k.rows, {})
              /\ \A g \in k.src : g.version \in Versions(g.start, g.end)
         /\ mpc[t] \in {"write", "reserve", "replace"} =>
              Whole(k.start, k.end, k.rows, k.mask) /\ k.mask \subseteq dead
         /\ mpc[t] \in {"reserve", "replace"} => Filed(k.start, k.end, k.version, k.rows)
  <2>1. \A g \in task[t].src : g.version \in Versions(g.start, g.end) <=>
          \E f \in files : f.start = g.start /\ f.end = g.end /\ f.version = g.version
    BY VersionIs
  <2> QED
    BY <2>1 DEF Ready, Whole, Filed
<1> QED
  BY <1>1 DEF TasksInv

\* The same for the state after a step.
LEMMA TasksAfter ==
    ASSUME rpc' = "register" =>
             flushed_segments'[ridx'].start = rsid' /\ flushed_segments'[ridx'].end = rsid',
           \A t \in Merger : Ready(files', dead', mpc'[t], task'[t])
    PROVE  TasksInv'
<1> DEFINE VersionsOf(g) == {f.version : f \in {h \in files' : h.start = g.start /\ h.end = g.end}}
<1>1. ASSUME NEW t \in Merger
      PROVE  LET k == task'[t] IN
         /\ mpc'[t] \in {"lock", "lock2", "reload"} =>
              /\ RowsOf(k.start .. k.end) \ dead' \subseteq k.rows \ {}
              /\ \A g \in k.src : g.version \in VersionsOf(g)
         /\ mpc'[t] \in {"write", "reserve", "replace"} =>
              RowsOf(k.start .. k.end) \ dead' \subseteq k.rows \ k.mask /\ k.mask \subseteq dead'
         /\ mpc'[t] \in {"reserve", "replace"} =>
              \E f \in files' : /\ f.start = k.start /\ f.end = k.end
                                /\ f.version = k.version /\ f.rows = k.rows
  <2> DEFINE k == task'[t]
             l == mpc'[t]
  <2>1. Ready(files', dead', l, k)
    OBVIOUS
  <2> HIDE DEF k, l
  <2>2. l \in {"lock", "lock2", "reload"} => \A g \in k.src : g.version \in VersionsOf(g)
    BY <2>1 DEF Ready
  <2>3. /\ l \in {"lock", "lock2", "reload"} => RowsOf(k.start .. k.end) \ dead' \subseteq k.rows \ {}
        /\ l \in {"write", "reserve", "replace"} =>
              RowsOf(k.start .. k.end) \ dead' \subseteq k.rows \ k.mask /\ k.mask \subseteq dead'
        /\ l \in {"reserve", "replace"} =>
              \E f \in files' : /\ f.start = k.start /\ f.end = k.end
                                /\ f.version = k.version /\ f.rows = k.rows
    BY <2>1 DEF Ready
  <2> QED
    BY <2>2, <2>3 DEF k, l
<1> QED
  BY <1>1 DEF TasksInv, Whole, Filed, Versions

\* What a merge thread has built stays good while other threads step.
LEMMA ReadyStays ==
    ASSUME Inv, Next, NEW l, NEW k, Ready(files, dead, l, k)
    PROVE  Ready(files', dead', l, k)
<1>1. FilesGrow /\ dead \subseteq dead'
  BY FilesAfter, Frames
<1>2. CASE l \in {"lock", "lock2", "reload"}
  <2>1. /\ RowsOf(k.start .. k.end) \ dead' \subseteq k.rows
        /\ \A g \in k.src : \E f \in files' :
              f.start = g.start /\ f.end = g.end /\ f.version = g.version
    BY <1>1, <1>2 DEF Ready, FilesGrow
  <2> QED
    BY <1>2, <2>1 DEF Ready
<1>3. CASE l = "write"
  <2>1. RowsOf(k.start .. k.end) \ dead' \subseteq k.rows \ k.mask /\ k.mask \subseteq dead'
    BY <1>1, <1>3 DEF Ready
  <2> QED
    BY <1>3, <2>1 DEF Ready
<1>4. CASE l \in {"reserve", "replace"}
  <2>1. /\ RowsOf(k.start .. k.end) \ dead' \subseteq k.rows \ k.mask /\ k.mask \subseteq dead'
        /\ \E f \in files' : /\ f.start = k.start /\ f.end = k.end
                             /\ f.version = k.version /\ f.rows = k.rows
    BY <1>1, <1>4 DEF Ready, FilesGrow
  <2> QED
    BY <1>4, <2>1 DEF Ready
<1>5. CASE l \notin {"lock", "lock2", "reload", "write", "reserve", "replace"}
  BY <1>5 DEF Ready
<1> QED
  BY <1>2, <1>3, <1>4, <1>5

\* The rows of the latest files of what a thread has claimed.
LEMMA LoadReady ==
    ASSUME Inv, NEW t \in Merger, MergeLoad(t)
    PROVE  Ready(files, dead, mpc'[t], task'[t])
<1> DEFINE a == task[t].lo
           b == task[t].hi
           k == task'[t]
<1>1. /\ mpc[t] = "load" /\ mpc'[t] = "lock" /\ SameTask(t)
      /\ \A g \in k.src : g.version \in Versions(g.start, g.end)
  BY LoadTask
<1>2. PICK f1, f2 \in files :
        /\ f1.start = seg(a).start /\ f1.end = seg(a).end
        /\ f2.start = seg(b).start /\ f2.end = seg(b).end
        /\ a = b => f1 = f2
        /\ k.rows = IF a = b THEN (f1.rows \cup f2.rows) \ f1.mask
                             ELSE f1.rows \cup f2.rows
  BY LoadTask
<1>3. /\ RowsOf(f1.start .. f1.end) \ dead \subseteq f1.rows /\ f1.mask \subseteq dead
      /\ RowsOf(f2.start .. f2.end) \ dead \subseteq f2.rows /\ f2.mask \subseteq dead
      /\ f1.start \in Nat /\ f1.end \in Nat /\ f1.start <= f1.end
      /\ f2.start \in Nat /\ f2.end \in Nat /\ f2.start <= f2.end
  BY FilesAre, Constants DEF FilesOf
<1>4. /\ k.start = seg(a).start /\ k.end = seg(b).end
      /\ a # b => seg(b).start = seg(a).end + 1
  BY <1>1, ClaimedSids DEF SameTask, Claiming
<1>5. /\ k.start = f1.start /\ k.end = f2.end
      /\ f1 # f2 => f2.start = f1.end + 1
  BY <1>2, <1>4
<1> HIDE DEF a, b, k
<1>6. \A r \in RowsOf(k.start .. k.end) : r[1] \in k.start .. k.end /\ r \in Row /\ r[1] \in Nat
  BY RowFacts, Constants
<1>7. \A r \in RowsOf(k.start .. k.end) :
        r \in RowsOf(f1.start .. f1.end) \/ r \in RowsOf(f2.start .. f2.end)
  <2>1. \A n \in Nat : n \in k.start .. k.end =>
          n \in f1.start .. f1.end \/ n \in f2.start .. f2.end
    BY <1>3, <1>5
  <2> QED
    BY <1>6, <2>1, RowFacts
<1>8. RowsOf(k.start .. k.end) \ dead \subseteq k.rows
  BY <1>2, <1>3, <1>7
<1>9. \A g \in k.src : \E f \in files :
        f.start = g.start /\ f.end = g.end /\ f.version = g.version
  BY <1>1, VersionIs DEF k
<1> QED
  BY <1>1, <1>8, <1>9 DEF Ready, k

\* The bitmaps on disk.
LEMMA ReloadReady ==
    ASSUME Inv, NEW t \in Merger, MergeReload(t)
    PROVE  Ready(files, dead, mpc'[t], task'[t])
<1> DEFINE k == task[t]
           n == task'[t]
<1>0. TypeOK /\ Ready(files, dead, mpc[t], k)
  BY TasksAre DEF Inv, PoolInv, RowsInv
<1>1. /\ mpc[t] = "reload" /\ mpc'[t] = "write" /\ SameTask(t) /\ n.rows = k.rows
      /\ \A r \in n.mask : \E f \in k.src : r \in Load(f.start, f.end, f.version).mask
  BY ReloadTask
<1>2. \A f \in k.src : f.version \in Versions(f.start, f.end)
  BY <1>0, <1>1, VersionIs DEF Ready
<1>3. \A f \in k.src : Load(f.start, f.end, f.version) \in files
  BY <1>0, <1>2, LoadIs
<1>4. \A f \in files : f.mask \subseteq dead
  BY FilesAre DEF FilesOf
<1>5. n.mask \subseteq dead
  <2> HIDE DEF n, k
  <2> QED
    BY <1>1, <1>3, <1>4
<1>6. n.start = k.start /\ n.end = k.end
  BY <1>1 DEF SameTask
<1>7. RowsOf(k.start .. k.end) \ dead \subseteq k.rows
  BY <1>0, <1>1 DEF Ready
<1>8. RowsOf(n.start .. n.end) \ dead \subseteq n.rows \ n.mask
  BY <1>1, <1>5, <1>6, <1>7
<1> QED
  BY <1>1, <1>5, <1>8 DEF Ready

\* A merge thread's step.
LEMMA MergeReady ==
    ASSUME Inv, Next, NEW t \in Merger, Merge(t)
    PROVE  Ready(files', dead', mpc'[t], task'[t])
<1> DEFINE k == task[t]
           n == task'[t]
<1>0. Ready(files, dead, mpc[t], k)
  BY TasksAre DEF Inv, RowsInv
<1>1. CASE MergeLoad(t)
  BY <1>1, LoadReady, ReadyStays
<1>2. CASE MergeReload(t)
  BY <1>2, ReloadReady, ReadyStays
<1>3. CASE MergeLock(t) \/ MergeLock2(t)
  <2>1. mpc[t] \in {"lock", "lock2"} /\ mpc'[t] \in {"lock2", "reload"} /\ n = k
    BY <1>3, LockTask
  <2>2. Ready(files, dead, mpc'[t], n)
    BY <1>0, <2>1 DEF Ready
  <2> QED
    BY <2>2, ReadyStays
<1>4. CASE MergeWrite(t)
  <2>1. /\ mpc[t] = "write" /\ mpc'[t] = "reserve"
        /\ n.rows = k.rows /\ n.mask = k.mask /\ n.start = k.start /\ n.end = k.end
    BY <1>4, WriteTask DEF SameTask
  <2>2. Ready(files', dead', "write", k)
    BY <1>0, <2>1, ReadyStays
  <2>3. \E g \in files' : /\ g.start = k.start /\ g.end = k.end
                          /\ g.version = n.version /\ g.rows = k.rows
    BY <1>4, WrittenFile
  <2> QED
    BY <2>1, <2>2, <2>3 DEF Ready
<1>5. CASE MergeReserve(t)
  <2>1. /\ mpc[t] = "reserve" /\ mpc'[t] \in {"giveup", "replace"}
        /\ n.rows = k.rows /\ n.mask = k.mask /\ n.start = k.start /\ n.end = k.end
        /\ n.version = k.version
    BY <1>5, ReserveTask DEF SameTask
  <2>2. Ready(files', dead', "reserve", k)
    BY <1>0, <2>1, ReadyStays
  <2> QED
    BY <2>1, <2>2 DEF Ready
<1>6. CASE mpc'[t] \in {"claim", "load", "idle", "unlock"}
  BY <1>6 DEF Ready
<1> QED
  BY <1>1, <1>2, <1>3, <1>4, <1>5, <1>6, MergeTable

\* The slot that is loaded for registering is not touched.
LEMMA LoadingStays ==
    ASSUME Inv, Next, insert_idx <= insert_idx', NEW i, Loading(i)'
    PROVE  flushed_segments'[i].start = rsid' /\ flushed_segments'[i].end = rsid'
<1>1. CASE RegularLoad
  <2>1. i = ridx /\ Fills /\ rsid' = rsid
    BY <1>1, LoadFills DEF RegularLoad, Loading
  <2> QED
    BY <2>1, FillsFacts
<1>2. CASE ~RegularLoad
  <2>1. Loading(i) /\ rsid' = rsid
    <3>1. CASE Reg
      BY <1>2, <3>1, RegTable DEF Loading
    <3>2. CASE UNCHANGED regVars
      BY <3>2 DEF Loading, regVars
    <3> QED
      BY <3>1, <3>2, Frames
  <2>2. seg(i).start = rsid /\ seg(i).end = rsid /\ i \in Idx
    BY <2>1 DEF Loading, Inv, PoolInv, RowsInv, TasksInv, Reserving
  <2>3. Coming(i) /\ i \notin Linked /\ ~Used(i) /\ i < insert_idx
    BY <2>1, <2>2, ComingFacts DEF Loading, Coming, Inv, PoolInv, Reserving
  <2>4. CASE Marks
    BY <2>1, <2>2, <2>3, <2>4 DEF Marks
  <2>5. CASE Reserves
    <3>1. i # insert_idx
      BY <2>2, <2>3, <2>5, Constants DEF Reserves
    <3> QED
      BY <2>1, <2>2, <2>5, <3>1, ReservesFacts
  <2>6. CASE \E j : Cleans(j)
    BY <2>1, <2>2, <2>3, <2>6, CleansFacts DEF Cleans
  <2>7. CASE Fills
    BY <2>1, <2>2, <2>7, FillsFacts DEF Loading
  <2>8. CASE RegularRegister
    BY <2>8 DEF RegularRegister, Loading
  <2>9. CASE Swaps
    <3>1. PICK a, b, j, new : Replaces(a, b, j, new)
      BY <2>9 DEF Swaps
    <3>2. j \in Linked'
      BY <3>1 DEF Replaces
    <3>3. Used(j)'
      BY <3>2, NewUsed
    <3>4. i # j
      BY <3>3 DEF Used, Coming, Loading
    <3> QED
      BY <2>1, <2>2, <2>3, <3>1, <3>4 DEF Replaces
  <2> QED
    BY <2>4, <2>5, <2>6, <2>7, <2>8, <2>9, Kinds
<1> QED
  BY <1>1, <1>2

\* What merge threads have built is good.
LEMMA TasksStep ==
    ASSUME Inv, Next, insert_idx <= insert_idx'
    PROVE  TasksInv'
<1>1. rpc' = "register" =>
        flushed_segments'[ridx'].start = rsid' /\ flushed_segments'[ridx'].end = rsid'
  BY LoadingStays DEF Loading
<1>2. \A t \in Merger : Ready(files', dead', mpc'[t], task'[t])
  <2>1. \A t \in Merger : Ready(files, dead, mpc[t], task[t])
    BY TasksAre DEF Inv, RowsInv
  <2>2. CASE UNCHANGED mergeVars
    BY <2>1, <2>2, ReadyStays DEF mergeVars
  <2>3. ASSUME NEW u \in Merger, Merge(u)
        PROVE  \A t \in Merger : Ready(files', dead', mpc'[t], task'[t])
    <3>1. Others(u)
      BY <2>3, MergeTable
    <3>2. Ready(files', dead', mpc'[u], task'[u])
      BY <2>3, MergeReady
    <3> QED
      BY <2>1, <3>1, <3>2, ReadyStays DEF Others
  <2> QED
    BY <2>2, <2>3, Frames DEF Mrg
<1> QED
  BY <1>1, <1>2, TasksAfter

-----------------------------------------------------------------------------
(* What VACUUM has in hand, and what searches owe.                         *)

\* VACUUM masks dead rows, and asks for versions that are there.
LEMMA VacuumStep ==
    ASSUME Inv, Next
    PROVE  VacuumInv'
<1>1. /\ TypeOK /\ doomed \subseteq dead /\ dead \subseteq dead'
      /\ \A g \in todo : g.version \in Versions(g.start, g.end)
  BY Frames DEF Inv, PoolInv, RowsInv, VacuumInv
<1>2. /\ \A g \in ScanFiles : g.version \in Versions(g.start, g.end)
  BY <1>1, ScanIs
<1>3. doomed' \subseteq dead' /\ todo' \subseteq todo \cup ScanFiles
  <2>1. CASE UNCHANGED vacVars
    BY <1>1, <2>1 DEF vacVars
  <2>2. CASE VacuumBegin
    BY <1>1, <2>2 DEF VacuumBegin
  <2>3. CASE VacuumSegment \/ VacuumAnswer \/ VacuumEnd
    BY <1>1, <2>3 DEF VacuumSegment, VacuumAnswer, VacuumEnd
  <2>4. CASE UpdateFind \/ UpdateLock \/ UpdateApply \/ UpdateDrop \/ UpdateDropCheck
    BY <1>1, <2>4 DEF UpdateFind, UpdateLock, UpdateCheck, UpdateApply, UpdateMask,
         UpdateDrop, UpdateDropCheck
  <2> QED
    BY <2>1, <2>2, <2>3, <2>4, Frames DEF Vac, Vacuum
<1>4. ASSUME NEW g, g \in todo'
      PROVE  g.version \in Versions(g.start, g.end)'
  <2>1. g.version \in Versions(g.start, g.end)
    BY <1>1, <1>2, <1>3, <1>4
  <2> QED
    BY <2>1, VersionsGrow
<1> QED
  BY <1>3, <1>4 DEF VacuumInv

\* A search finds the live rows of what it has pinned.
LEMMA PinnedRows ==
    ASSUME Inv, NEW x \in Searcher, NEW p \in pins[x], NEW r \in Row \ dead, r[1] \in p[2] .. p[3]
    PROVE  r \in seg(p[1]).rows \ seg(p[1]).mask
<1>1. p[1] \in Idx /\ seg(p[1]).ref_count > 0
  BY PinnedFacts
<1>2. Whole(seg(p[1]).start, seg(p[1]).end, seg(p[1]).rows, seg(p[1]).mask)
  BY <1>1 DEF Inv, RowsInv, SegmentsInv
<1>3. Ident(p[1]) = p
  BY DEF Inv, PoolInv, PinsInv
<1>4. p[2] = seg(p[1]).start /\ p[3] = seg(p[1]).end
  <2> DEFINE i == p[1]
  <2>1. <<i, seg(i).start, seg(i).end, seg(i).version>> = p
    BY <1>3 DEF Ident
  <2> HIDE DEF i
  <2> QED
    BY <2>1 DEF i
<1>5. r \in RowsOf(seg(p[1]).start .. seg(p[1]).end)
  BY <1>4, RowFacts
<1> QED
  BY <1>2, <1>5 DEF Whole

\* The list has every row that was registered.
LEMMA ListedRow ==
    ASSUME Inv, NEW s \in registered
    PROVE  \E i \in Linked : s \in seg(i).start .. seg(i).end
  BY DEF Inv, PoolInv, ListInv

Owes(x) ==
    /\ spc'[x] \in {"sent", "search"} => \A r \in expect'[x] :
         r[1] \in registered' \ cover'[x]
    /\ spc'[x] = "search" => \A r \in expect'[x] :
         \E p \in pins'[x] : r[1] \in p[2] .. p[3]
    /\ spc'[x] = "drop" => expect'[x] \ dead' \subseteq found'[x]

\* What a search owes after a step of its own.
LEMMA OwesSearch ==
    ASSUME Inv, NEW x \in Searcher, SearchBegin(x) \/ Search(x)
    PROVE  Owes(x)
<1>0. /\ TypeOK /\ Owed(x) /\ (spc[x] = "drop" => expect[x] \ dead \subseteq found[x])
      /\ UNCHANGED <<dead, registered>>
  BY SchFrame DEF Inv, PoolInv, RowsInv, OwedInv, SearchComplete, Sch, heapVars, regVars
<1>1. CASE SearchBegin(x)
  <2>1. PICK n \in 0 .. LastSid :
          /\ 1 .. n \subseteq registered
          /\ cover' = [cover EXCEPT ![x] = (n + 1) .. LastSid]
          /\ expect' = [expect EXCEPT ![x] = RowsOf(1 .. n) \ dead]
    BY <1>1 DEF SearchBegin
  <2>2. /\ spc'[x] = "sent" /\ cover'[x] = (n + 1) .. LastSid
        /\ expect'[x] = RowsOf(1 .. n) \ dead
    BY <1>0, <1>1, <2>1 DEF SearchBegin, TypeOK
  <2>3. \A m \in 1 .. n : m \notin (n + 1) .. LastSid
    BY Constants
  <2>4. \A r \in RowsOf(1 .. n) : r[1] \in 1 .. n
    BY RowFacts
  <2> QED
    BY <1>0, <2>1, <2>2, <2>3, <2>4 DEF Owes
<1>2. CASE SearchPin(x)
  <2> DEFINE walk == {j \in Linked : seg(j).in_used}
  <2>1. /\ spc[x] = "sent" /\ spc' = [spc EXCEPT ![x] = "search"]
        /\ pins' = [pins EXCEPT ![x] = {Ident(j) : j \in walk}]
        /\ UNCHANGED <<cover, expect>>
    BY <1>2 DEF SearchPin, PinAll, SearchAt
  <2>2. walk = Linked
    BY PinnedFacts
  <2> HIDE DEF walk
  <2>3. spc'[x] = "search" /\ pins'[x] = {Ident(j) : j \in Linked}
    BY <1>0, <2>1, <2>2 DEF TypeOK
  <2>4. \A j : Ident(j)[2] = seg(j).start /\ Ident(j)[3] = seg(j).end
    BY DEF Ident
  <2>5. \A r \in expect[x] : r[1] \in registered \ cover[x]
    BY <1>0, <2>1 DEF Owed
  <2>6. ASSUME NEW r \in expect[x]
        PROVE  \E p \in pins'[x] : r[1] \in p[2] .. p[3]
    <3>1. PICK i \in Linked : r[1] \in seg(i).start .. seg(i).end
      BY <2>5, <2>6, ListedRow
    <3> QED
      BY <2>3, <2>4, <3>1
  <2> QED
    BY <1>0, <2>1, <2>3, <2>5, <2>6 DEF Owes
<1>3. CASE SearchSegments(x)
  <2>1. /\ spc[x] = "search" /\ spc'[x] = "drop" /\ UNCHANGED expect
        /\ found'[x] = UNION {seg(p[1]).rows \ seg(p[1]).mask : p \in pins[x]}
    BY <1>0, <1>3 DEF SearchSegments, SearchAt, TypeOK
  <2>2. ASSUME NEW r \in expect[x] \ dead
        PROVE  r \in found'[x]
    <3>1. PICK p \in pins[x] : r[1] \in p[2] .. p[3]
      BY <1>0, <2>1, <2>2 DEF Owed
    <3>2. r \in Row \ dead
      BY <1>0, <2>2 DEF TypeOK
    <3>3. r \in seg(p[1]).rows \ seg(p[1]).mask
      BY <3>1, <3>2, PinnedRows
    <3> QED
      BY <2>1, <3>3
  <2> QED
    BY <1>0, <2>1, <2>2 DEF Owes
<1>4. CASE SearchDrop(x)
  <2>1. PICK p \in pins[x] : /\ spc[x] = "search" => Skipped(x, p)
                             /\ pins' = [pins EXCEPT ![x] = @ \ {p}]
    BY <1>4 DEF SearchDrop
  <2>2. /\ UNCHANGED <<spc, cover, expect, found>> /\ pins'[x] = pins[x] \ {p}
    BY <1>0, <1>4, <2>1 DEF SearchDrop, TypeOK
  <2>3. ASSUME spc[x] = "search", NEW r \in expect[x]
        PROVE  \E q \in pins'[x] : r[1] \in q[2] .. q[3]
    <3>1. PICK q \in pins[x] : r[1] \in q[2] .. q[3]
      BY <1>0, <2>3 DEF Owed
    <3>2. r[1] \notin cover[x]
      BY <1>0, <2>3 DEF Owed
    <3>3. q # p
      BY <2>1, <2>3, <3>1, <3>2 DEF Skipped
    <3> QED
      BY <2>2, <3>1, <3>3
  <2> QED
    BY <1>0, <2>2, <2>3 DEF Owes, Owed
<1>5. CASE SearchCheck(x)
  BY <1>0, <1>5 DEF SearchCheck, Owes, Owed
<1>6. CASE SearchEnd(x)
  <2>1. spc'[x] = "idle"
    BY <1>0, <1>6 DEF SearchEnd, TypeOK
  <2> QED
    BY <2>1 DEF Owes
<1> QED
  BY <1>1, <1>2, <1>3, <1>4, <1>5, <1>6 DEF Search

\* What the others do does not change what a search owes.
LEMMA OwesStays ==
    ASSUME Inv, Next, NEW x \in Searcher, spc'[x] = spc[x], cover'[x] = cover[x],
           expect'[x] = expect[x], pins'[x] = pins[x], found'[x] = found[x]
    PROVE  Owes(x)
<1>1. Owed(x) /\ (spc[x] = "drop" => expect[x] \ dead \subseteq found[x])
  BY DEF Inv, RowsInv, OwedInv, SearchComplete
<1>2. dead \subseteq dead'
  BY Frames
<1>3. registered \subseteq registered'
  BY Frames DEF Reg, Regular, FlushSegment, RegularFind, RegularReserve, RegularLoad,
       RegularRegister, regVars
<1> QED
  BY <1>1, <1>2, <1>3 DEF Owes, Owed

\* What searches owe they return.
LEMMA OwedStep ==
    ASSUME Inv, Next
    PROVE  OwedInv'
<1>0. TypeOK
  BY DEF Inv, PoolInv
<1>1. \A x \in Searcher : Owes(x)
  <2>1. CASE UNCHANGED searchVars
    BY <2>1, OwesStays DEF searchVars
  <2>2. ASSUME NEW y \in Searcher, SearchBegin(y) \/ Search(y)
        PROVE  \A x \in Searcher : Owes(x)
    <3>1. ASSUME NEW x \in Searcher, x # y
          PROVE  /\ spc'[x] = spc[x] /\ cover'[x] = cover[x] /\ expect'[x] = expect[x]
                 /\ pins'[x] = pins[x] /\ found'[x] = found[x]
      <4>1. CASE SearchBegin(y) \/ SearchSegments(y) \/ SearchCheck(y) \/ SearchEnd(y)
        BY <1>0, <3>1, <4>1 DEF SearchBegin, SearchSegments, SearchCheck, SearchEnd, TypeOK
      <4>2. CASE SearchPin(y) \/ SearchDrop(y)
        BY <1>0, <3>1, <4>2 DEF SearchPin, PinAll, SearchDrop, TypeOK
      <4> QED
        BY <2>2, <4>1, <4>2 DEF Search
    <3>2. ASSUME NEW x \in Searcher
          PROVE  Owes(x)
      <4>1. CASE x = y
        BY <2>2, <4>1, OwesSearch
      <4>2. CASE x # y
        BY <3>1, <4>2, OwesStays
      <4> QED
        BY <4>1, <4>2
    <3> QED
      BY <3>2
  <2> QED
    BY <2>1, <2>2, Frames DEF Sch
<1> QED
  BY <1>1 DEF OwedInv, Owed, Owes, SearchComplete

-----------------------------------------------------------------------------
(* Every step.                                                             *)

\* Linked is a function of the pool's variables.
LEMMA LinkedSame ==
    ASSUME UNCHANGED poolVars
    PROVE  Linked' = Linked
  BY DEF Linked

\* A step that leaves the variables alone leaves the invariant alone.
LEMMA Stutter ==
    ASSUME Inv, UNCHANGED vars
    PROVE  Inv'
<1>0. /\ TypeOK /\ ListInv /\ Reserving /\ InHand /\ Retired /\ Claims /\ Upgrading
      /\ RefExact /\ PinsInv
      /\ FilesInv /\ SegmentsInv /\ TasksInv /\ VacuumInv /\ OwedInv
  BY DEF Inv, PoolInv, RowsInv
<1>1. /\ UNCHANGED poolVars /\ UNCHANGED <<files, upgrades>> /\ UNCHANGED heapVars
      /\ UNCHANGED regVars /\ UNCHANGED mergeVars /\ UNCHANGED searchVars
      /\ UNCHANGED vacVars
  BY DEF vars
<1>2. Linked' = Linked
  BY <1>1, LinkedSame
<1>3. Current' = Current
  BY <1>1 DEF Current
<1>4. \A i : Used(i)' <=> Used(i)
  BY <1>1 DEF Used, Coming
<1>5. \A i : Pinning(i)' = Pinning(i)
  BY <1>1 DEF Pinning
<1>6. TypeOK'
  BY <1>0, <1>1 DEF TypeOK
<1>7. ListInv'
  BY <1>0, <1>1, <1>2 DEF ListInv, Chain
<1>8. Reserving'
  BY <1>0, <1>1 DEF Reserving, Coming
<1>9. InHand'
  BY <1>0, <1>1, <1>2, <1>4 DEF InHand
<1>10. Retired'
  BY <1>0, <1>1, <1>2, <1>4 DEF Retired
<1>11. Claims'
  BY <1>0, <1>1, <1>2 DEF Claims, Adjoining
<1>12. Upgrading'
  BY <1>0, <1>1, <1>2 DEF Upgrading
<1>13. RefExact'
  <2>1. \A i \in Idx : One(i \in Linked') = One(i \in Linked)
    BY <1>2
  <2>2. \A i \in Idx :
            seg(i).ref_count = One(i \in Linked) + Cardinality(Pinning(i))
                                  + One(vidx = i /\ vpc \in {"lock", "apply", "unpin"})
    BY <1>0 DEF RefExact
  <2> QED
    BY <1>1, <1>5, <2>1, <2>2 DEF RefExact
<1>14. PinsInv'
  BY <1>0, <1>1, <1>3 DEF PinsInv, Ident
<1>15. FilesInv'
  BY <1>0, <1>1 DEF FilesInv, Versions
<1>16. SegmentsInv'
  BY <1>0, <1>1 DEF SegmentsInv, Filed, Whole
<1>17. TasksInv'
  BY <1>0, <1>1 DEF TasksInv, Filed, Whole, Versions
<1>18. VacuumInv'
  BY <1>0, <1>1 DEF VacuumInv, Versions
<1>19. OwedInv'
  BY <1>0, <1>1 DEF OwedInv, Owed, SearchComplete
<1> QED
  BY <1>6, <1>7, <1>8, <1>9, <1>10, <1>11, <1>12, <1>13, <1>14, <1>15, <1>16, <1>17, <1>18,
     <1>19 DEF Inv, PoolInv, RowsInv

\* PoolInv and RowsInv together are inductive as long as insert_idx is not
\* rewound.
LEMMA InvStep ==
    ASSUME Inv, [Next]_vars, insert_idx <= insert_idx'
    PROVE  Inv'
<1>1. CASE Next
  BY <1>1, TypeStep, ListStep, ReservingStep, InHandStep, RetiredStep, ClaimsStep,
     UpgradingStep, RefStep, PinsStep, FilesStep, SegmentsStep, TasksStep, VacuumStep,
     OwedStep
     DEF Inv, PoolInv, RowsInv
<1>2. CASE UNCHANGED vars
  BY <1>2, Stutter
<1> QED
  BY <1>1, <1>2

-----------------------------------------------------------------------------
(* The initial state.                                                      *)

\* A slot of the list that load_all_segments_from_disk makes.
First(g, i) ==
    /\ g \in SegmentType
    /\ g.in_used /\ g.ref_count = 1 /\ g.prev_idx = i - 1
    /\ g.next_idx = (IF i + 1 = InitialSid THEN NIL ELSE i + 1)
    /\ g.start = i + 1 /\ g.end = i + 1 /\ g.version = 1
    /\ g.rows = RowsOf({i + 1}) /\ g.mask = {} /\ ~g.is_compacting
    /\ g.load_state = (IF ColdStart THEN "mmap" ELSE "full")

Linking(g, p, n) == [g EXCEPT !.ref_count = 1, !.prev_idx = p, !.next_idx = n]

LinkedAs(h, f, state, p, n) ==
    /\ h \in SegmentType
    /\ h.ref_count = 1 /\ h.prev_idx = p /\ h.next_idx = n
    /\ h.in_used /\ h.start = f.start /\ h.end = f.end
    /\ h.version = f.version /\ h.rows = f.rows /\ h.mask = f.mask
    /\ ~h.is_compacting /\ h.load_state = state

\* What load_and_set_segment and the linking make of an empty slot.
LEMMA LinkedFile ==
    ASSUME NEW g \in SegmentType, NEW f, NEW state \in {"none", "mmap", "full"},
           NEW p \in AnyIdx, NEW n \in AnyIdx,
           f.start \in AnySid, f.end \in AnySid, f.version \in Nat,
           f.rows \subseteq Row, f.mask \subseteq Row
    PROVE  LinkedAs(Linking(Loaded(g, f, state), p, n), f, state, p, n)
  BY DEF LinkedAs, Linking, Loaded, SegmentType

\* Slot i of the initial list.
LEMMA LoadedFirst ==
    ASSUME NEW i \in 0 .. InitialSid - 1
    PROVE  First(Linking(Loaded(EmptySegment, File(i + 1, i + 1, 1, RowsOf({i + 1}), {}),
                                IF ColdStart THEN "mmap" ELSE "full"),
                         i - 1, IF i + 1 = InitialSid THEN NIL ELSE i + 1), i)
<1> DEFINE f == File(i + 1, i + 1, 1, RowsOf({i + 1}), {})
           state == IF ColdStart THEN "mmap" ELSE "full"
           n == IF i + 1 = InitialSid THEN NIL ELSE i + 1
           p == i - 1
           h == Linking(Loaded(EmptySegment, f, state), p, n)
<1>1. /\ f.start = i + 1 /\ f.end = i + 1 /\ f.version = 1
      /\ f.rows = RowsOf({i + 1}) /\ f.mask = {}
  BY DEF File
<1>2. i + 1 \in AnySid /\ RowsOf({i + 1}) \subseteq Row /\ 1 \in Nat
  BY Constants, RowFacts
<1>3. state \in {"none", "mmap", "full"}
  OBVIOUS
<1>4. p \in AnyIdx /\ n \in AnyIdx
  BY Constants
<1>5. /\ f.start \in AnySid /\ f.end \in AnySid /\ f.version \in Nat
      /\ f.rows \subseteq Row /\ f.mask \subseteq Row
  BY <1>1, <1>2
<1> HIDE DEF f, state, n, p
<1>6. LinkedAs(h, f, state, p, n)
  BY <1>3, <1>4, <1>5, LinkedFile, EmptyType
<1> HIDE DEF h
<1>7. First(h, i)
  BY <1>1, <1>6 DEF First, LinkedAs, n, state, p
<1> QED
  BY <1>7, Zenon DEF h, f, state, n, p

\* load_all_segments_from_disk has put sid i + 1 into slot i.
LEMMA InitSlots ==
    ASSUME Init
    PROVE  /\ \A i \in 0 .. InitialSid - 1 : i \in Idx /\ First(seg(i), i)
           /\ \A i \in Idx : i >= InitialSid => seg(i) = EmptySegment
           /\ \A i \in Idx : i \in 0 .. InitialSid - 1 \/ i >= InitialSid
<1>1. \A i \in Idx : i \in 0 .. InitialSid - 1 \/ i >= InitialSid
  BY Constants
<1>2. ASSUME NEW i \in 0 .. InitialSid - 1
      PROVE  i \in Idx /\ i < InitialSid
  BY Constants
<1> DEFINE F(i) == Linking(Loaded(EmptySegment,
                                   File(i + 1, i + 1, 1, RowsOf({i + 1}), {}),
                                   IF ColdStart THEN "mmap" ELSE "full"),
                            i - 1, IF i + 1 = InitialSid THEN NIL ELSE i + 1)
<1>3. flushed_segments = [i \in Idx |-> IF i < InitialSid THEN F(i) ELSE EmptySegment]
  BY Zenon DEF Init, Linking
<1>4. \A i \in 0 .. InitialSid - 1 : First(F(i), i)
  BY LoadedFirst, Zenon
<1> HIDE DEF F
<1>5. \A i \in Idx : i >= InitialSid => seg(i) = EmptySegment
  BY <1>3, Constants
<1>6. \A i \in 0 .. InitialSid - 1 : seg(i) = F(i)
  BY <1>2, <1>3
<1> QED
  BY <1>1, <1>2, <1>4, <1>5, <1>6

\* The list is slots 0 .. InitialSid - 1.
LEMMA InitList ==
    ASSUME Init
    PROVE  ListInv /\ Linked = 0 .. InitialSid - 1
<1> DEFINE L == 0 .. InitialSid - 1
<1>0. InitialSid \in Nat \ {0} /\ NIL = -1
  BY Constants
<1>1. /\ head_idx = 0 /\ tail_idx = InitialSid - 1
  BY Zenon DEF Init
<1>2. \A i \in L : /\ i \in Idx /\ seg(i).prev_idx = i - 1
                   /\ seg(i).next_idx = IF i + 1 = InitialSid THEN NIL ELSE i + 1
                   /\ seg(i).start = i + 1 /\ seg(i).end = i + 1
  BY InitSlots DEF First
<1>3. Chain(flushed_segments, 0, InitialSid - 1, L)
  <2>1. L \subseteq Idx /\ 0 \in L /\ InitialSid - 1 \in L
    BY <1>0, <1>2
  <2>2. seg(0).prev_idx = NIL /\ seg(InitialSid - 1).next_idx = NIL
    BY <1>0, <1>2, <2>1
  <2>3. \A i \in L : /\ seg(i).start \in Nat /\ seg(i).end \in Nat
                     /\ seg(i).start <= seg(i).end
    BY <1>0, <1>2
  <2>4. ASSUME NEW i \in L \ {InitialSid - 1}
        PROVE  /\ seg(i).next_idx \in L
               /\ seg(seg(i).next_idx).prev_idx = i
               /\ seg(seg(i).next_idx).start = seg(i).end + 1
    <3>1. i + 1 \in L /\ i + 1 # InitialSid
      BY <1>0
    <3>2. seg(i).next_idx = i + 1
      BY <1>2, <3>1
    <3>3. seg(i + 1).prev_idx = (i + 1) - 1 /\ seg(i + 1).start = (i + 1) + 1
          /\ seg(i).end = i + 1
      BY <1>2, <3>1
    <3> QED
      BY <1>0, <3>1, <3>2, <3>3
  <2>5. ASSUME NEW i \in L \ {0}
        PROVE  /\ seg(i).prev_idx \in L \ {InitialSid - 1}
               /\ seg(seg(i).prev_idx).next_idx = i
    <3>1. i - 1 \in L /\ i - 1 # InitialSid - 1 /\ (i - 1) + 1 # InitialSid
      BY <1>0
    <3>2. seg(i).prev_idx = i - 1
      BY <1>2
    <3>3. seg(i - 1).next_idx = (i - 1) + 1
      BY <1>2, <3>1
    <3> QED
      BY <1>0, <3>1, <3>2, <3>3
  <2> HIDE DEF L
  <2> QED
    BY <2>1, <2>2, <2>3, <2>4, <2>5 DEF Chain
<1>4. Linked = L
  BY <1>1, <1>3, WalkChain DEF Linked
<1>5. registered = 1 .. InitialSid
  BY Zenon DEF Init
<1>6. UNION {seg(i).start .. seg(i).end : i \in L} = 1 .. InitialSid
  <2>1. ASSUME NEW s \in 1 .. InitialSid
        PROVE  \E i \in L : s \in seg(i).start .. seg(i).end
    <3>1. s - 1 \in L /\ (s - 1) + 1 = s
      BY <1>0
    <3>2. s \in seg(s - 1).start .. seg(s - 1).end
      BY <1>0, <1>2, <3>1
    <3> QED
      BY <3>1, <3>2
  <2>2. ASSUME NEW i \in L, NEW s \in seg(i).start .. seg(i).end
        PROVE  s \in 1 .. InitialSid
    BY <1>0, <1>2
  <2> HIDE DEF L
  <2> QED
    BY <2>1, <2>2
<1> HIDE DEF L
<1>7. ListInv
  BY <1>1, <1>3, <1>4, <1>5, <1>6 DEF ListInv
<1> QED
  BY <1>4, <1>7 DEF L

\* The other variables.
LEMMA InitVars ==
    ASSUME Init
    PROVE  /\ head_idx = 0 /\ tail_idx = InitialSid - 1 /\ insert_idx = InitialSid
           /\ dead = {} /\ gone = {}
           /\ rpc = "idle" /\ rsid = InitialSid /\ ridx = NIL
           /\ registered = 1 .. InitialSid
           /\ mpc = [t \in Merger |-> "idle"] /\ task = [t \in Merger |-> NoTask]
           /\ compactions = MaxCompactions /\ searches = MaxSearches
           /\ vacuums = MaxVacuums
           /\ spc = [x \in Searcher |-> "idle"] /\ cover = [x \in Searcher |-> {}]
           /\ pins = [x \in Searcher |-> {}] /\ drop = [x \in Searcher |-> NIL]
           /\ found = [x \in Searcher |-> {}] /\ expect = [x \in Searcher |-> {}]
           /\ vpc = "idle" /\ todo = {} /\ doomed = {} /\ vidx = NIL /\ retry = FALSE
  BY Zenon DEF Init

\* One set of files per sid.
LEMMA InitFiles ==
    ASSUME Init
    PROVE  /\ files \subseteq FileType
           /\ \A f \in files :
                /\ f.start \in 1 .. InitialSid /\ f.end = f.start /\ f.version = 1
                /\ f.rows = RowsOf({f.start}) /\ f.mask = {}
           /\ \A f, g \in files : f.start = g.start => f = g
           /\ \A s \in 1 .. InitialSid : \E f \in files :
                f.start = s /\ f.end = s /\ f.version = 1 /\ f.rows = RowsOf({s})
           /\ IsFiniteSet(files) /\ Cardinality(files) \in Nat /\ 1 <= Cardinality(files)
<1> DEFINE S == 1 .. InitialSid
           fl == [s \in S |-> File(s, s, 1, RowsOf({s}), {})]
<1>0. InitialSid \in Nat \ {0} /\ S \subseteq AnySid /\ 1 \in Nat
  BY Constants
<1>1. files = {fl[s] : s \in S}
  <2>1. files = {File(s, s, 1, RowsOf({s}), {}) : s \in S}
    BY Zenon DEF Init
  <2> QED
    BY <2>1
<1>2. ASSUME NEW s \in S
      PROVE  /\ fl[s] \in FileType
             /\ fl[s].start = s /\ fl[s].end = s /\ fl[s].version = 1
             /\ fl[s].rows = RowsOf({s}) /\ fl[s].mask = {}
  <2>1. fl[s] = [start |-> s, end |-> s, version |-> 1, rows |-> RowsOf({s}), mask |-> {}]
    BY DEF File
  <2>2. s \in AnySid /\ RowsOf({s}) \subseteq Row
    BY <1>0, RowFacts
  <2> HIDE DEF fl
  <2> QED
    BY <1>0, <2>1, <2>2 DEF FileType
<1>3. fl = [s \in S |-> fl[s]]
  OBVIOUS
<1> HIDE DEF fl
<1>4. IsFiniteSet(files)
  <2>1. IsFiniteSet(S)
    BY <1>0, FS_Interval
  <2>2. fl \in Surjection(S, files)
    BY <1>1, <1>3 DEF Surjection
  <2> QED
    BY <2>1, <2>2, FS_Surjection
<1>5. Cardinality(files) \in Nat /\ files # {} => 1 <= Cardinality(files)
  BY <1>4, FS_CardinalityType, FS_EmptySet
<1>6. Cardinality(files) \in Nat
  BY <1>4, FS_CardinalityType
<1>7. files # {}
  BY <1>0, <1>1
<1>8. ASSUME NEW f \in files
      PROVE  \E s \in S : /\ f = fl[s] /\ f \in FileType /\ f.start = s
                          /\ f.end = s /\ f.version = 1
                          /\ f.rows = RowsOf({s}) /\ f.mask = {}
  <2>1. PICK s \in S : f = fl[s]
    BY <1>1
  <2> QED
    BY <1>2, <2>1
<1>9. \A f, g \in files : f.start = g.start => f = g
  BY <1>8, ZenonT(40)
<1>10. \A s \in S : \E f \in files :
          f.start = s /\ f.end = s /\ f.version = 1 /\ f.rows = RowsOf({s})
  BY <1>1, <1>2
<1> HIDE DEF S
<1>11. \A f \in files :
          /\ f \in FileType /\ f.start \in S /\ f.end = f.start /\ f.version = 1
          /\ f.rows = RowsOf({f.start}) /\ f.mask = {}
  BY <1>8
<1>12. files \subseteq FileType
  BY <1>11
<1> QED
  BY <1>4, <1>5, <1>6, <1>7, <1>9, <1>10, <1>11, <1>12 DEF S

\* The initial state has the types.
LEMMA InitType ==
    ASSUME Init
    PROVE  TypeOK
<1>1. flushed_segments \in [Idx -> SegmentType]
  <2>1. flushed_segments = [i \in Idx |-> flushed_segments[i]]
    BY Zenon DEF Init
  <2>2. ASSUME NEW i \in Idx PROVE flushed_segments[i] \in SegmentType
    BY InitSlots, EmptyType DEF First
  <2> QED
    BY <2>1, <2>2
<1>2. 0 \in AnyIdx /\ InitialSid - 1 \in AnyIdx /\ InitialSid \in 0 .. MAX_SEGMENTS_COUNT
  BY Constants
<1>3. InitialSid \in AnySid /\ 1 .. InitialSid \subseteq Sid /\ NIL \in AnyIdx
  BY Constants
<1>4. upgrades \subseteq [idx : Idx, sid : Sid]
  <2>1. upgrades \subseteq {[idx |-> i, sid |-> i + 1] : i \in 0 .. InitialSid - 1}
    BY Zenon DEF Init
  <2>2. \A i \in 0 .. InitialSid - 1 : i \in Idx /\ i + 1 \in Sid
    BY Constants
  <2> QED
    BY <2>1, <2>2
<1>5. MaxCompactions \in Nat /\ MaxSearches \in Nat /\ MaxVacuums \in Nat
  BY PoolSizeAssumption
<1> QED
  BY <1>1, <1>2, <1>3, <1>4, <1>5, InitVars, InitFiles, NoTaskType DEF TypeOK

\* The segments of the list have one reference, the other slots have none.
LEMMA InitRefs ==
    ASSUME Init
    PROVE  RefExact
<1>1. ASSUME NEW i \in Idx
      PROVE  seg(i).ref_count = One(i \in Linked) + Cardinality(Pinning(i))
                                + One(vidx = i /\ vpc \in {"lock", "apply", "unpin"})
  <2>1. Pinning(i) = {}
    BY InitVars DEF Pinning
  <2>2. Cardinality(Pinning(i)) = 0
    BY <2>1, FS_EmptySet
  <2>3. One(vidx = i /\ vpc \in {"lock", "apply", "unpin"}) = 0
    BY InitVars DEF One
  <2>4. CASE i \in Linked
    <3>1. seg(i).ref_count = 1
      BY <2>4, InitList, InitSlots DEF First
    <3> QED
      BY <2>2, <2>3, <2>4, <3>1 DEF One
  <2>5. CASE i \notin Linked
    <3>1. seg(i).ref_count = 0
      BY <2>5, InitList, InitSlots, EmptyType
    <3> QED
      BY <2>2, <2>3, <2>5, <3>1 DEF One
  <2> QED
    BY <2>4, <2>5
<1> QED
  BY <1>1 DEF RefExact

\* The initial state has PoolInv.
LEMMA InitPool ==
    ASSUME Init
    PROVE  PoolInv
<1>0. /\ TypeOK /\ ListInv /\ RefExact /\ Linked = 0 .. InitialSid - 1
      /\ InitialSid \in Nat \ {0}
  BY InitType, InitList, InitRefs, Constants
<1>1. \A i : ~Coming(i)
  BY InitVars DEF Coming
<1>2. Reserving
  BY <1>1, InitVars, InitSlots DEF Reserving
<1>3. \A i \in Linked : Used(i)
  BY <1>0, <1>1, InitVars, InitSlots DEF Used
<1>4. InHand
  BY <1>3, InitVars DEF InHand
<1>5. Retired
  <2>1. \A i \in Idx : Used(i) => i < InitialSid
    BY InitVars DEF Used
  <2> QED
    BY <1>0, <2>1, InitSlots, Constants DEF Retired
<1>6. Claims
  BY InitVars DEF Claims, Claiming
<1>7. Upgrading
  <2>1. upgrades = IF ColdStart
                   THEN {[idx |-> i, sid |-> i + 1] : i \in 0 .. InitialSid - 1}
                   ELSE {}
    BY Zenon DEF Init
  <2>2. ASSUME NEW u \in upgrades
        PROVE  u.idx \in Linked /\ u.sid = u.idx + 1 /\ ColdStart
    BY <1>0, <2>1
  <2>3. ColdStart => \A i \in Linked : seg(i).load_state = "mmap"
    BY <1>0, InitSlots DEF First
  <2> QED
    BY <2>2, <2>3 DEF Upgrading
<1>8. PinsInv
  BY InitVars DEF PinsInv
<1> QED
  BY <1>0, <1>2, <1>4, <1>5, <1>6, <1>7, <1>8 DEF PoolInv

\* The initial state has RowsInv.
LEMMA InitRows ==
    ASSUME Init
    PROVE  RowsInv
<1>0. /\ InitialSid \in Nat \ {0} /\ 1 .. InitialSid \subseteq Sid
      /\ \A s \in 1 .. InitialSid : s .. s = {s}
      /\ \A s \in 1 .. InitialSid : s \in Nat
  BY Constants
<1>1. FilesInv
  <2>1. ASSUME NEW f \in files
        PROVE  /\ f.start \in Sid /\ f.end \in Sid /\ f.start <= f.end /\ f.end <= rsid
               /\ f.version <= Cardinality(files)
               /\ RowsOf(f.start .. f.end) \ dead \subseteq f.rows
               /\ f.mask \subseteq dead
    <3>1. /\ f.start \in 1 .. InitialSid /\ f.end = f.start /\ f.version = 1
          /\ f.rows = RowsOf({f.start}) /\ f.mask = {} /\ 1 <= Cardinality(files)
      BY InitFiles
    <3>2. dead = {} /\ rsid = InitialSid
      BY InitVars
    <3>3. f.start .. f.end = {f.start} /\ f.start \in Nat
      BY <1>0, <3>1
    <3>4. RowsOf(f.start .. f.end) \ dead \subseteq f.rows
      BY <3>1, <3>3
    <3>5. f.start \in Sid /\ f.start <= f.end /\ f.end <= rsid
      BY <1>0, <3>1, <3>2, <3>3
    <3> QED
      BY <3>1, <3>4, <3>5
  <2> QED
    BY <2>1, InitFiles, InitVars DEF FilesInv
<1>2. SegmentsInv
  <2>1. ASSUME NEW i \in Idx, seg(i).ref_count > 0
        PROVE  /\ seg(i).in_used
               /\ seg(i).start \in Sid /\ seg(i).end \in Sid /\ seg(i).start <= seg(i).end
               /\ Filed(seg(i).start, seg(i).end, seg(i).version, seg(i).rows)
               /\ Whole(seg(i).start, seg(i).end, seg(i).rows, seg(i).mask)
    <3>1. i \in 0 .. InitialSid - 1
      BY <2>1, InitSlots, EmptyType
    <3>2. i + 1 \in 1 .. InitialSid
      BY <1>0, <3>1
    <3>3. First(seg(i), i)
      BY <3>1, InitSlots
    <3>4. /\ seg(i).in_used /\ seg(i).start = i + 1 /\ seg(i).end = i + 1
          /\ seg(i).version = 1 /\ seg(i).rows = RowsOf({i + 1}) /\ seg(i).mask = {}
      BY <3>3 DEF First
    <3>5. Filed(i + 1, i + 1, 1, RowsOf({i + 1}))
      BY <3>2, InitFiles DEF Filed
    <3>6. Whole(i + 1, i + 1, RowsOf({i + 1}), {})
      BY <1>0, <3>2 DEF Whole
    <3> QED
      BY <1>0, <3>2, <3>4, <3>5, <3>6
  <2> QED
    BY <2>1, InitVars DEF SegmentsInv
<1>3. TasksInv
  BY InitVars DEF TasksInv
<1>4. VacuumInv
  BY InitVars DEF VacuumInv
<1>5. OwedInv
  BY InitVars DEF OwedInv, Owed, SearchComplete
<1> QED
  BY <1>1, <1>2, <1>3, <1>4, <1>5 DEF RowsInv

\* The initial state has the invariant.
LEMMA InitInv ==
    ASSUME Init
    PROVE  Inv
  BY InitPool, InitRows DEF Inv

-----------------------------------------------------------------------------
(* What follows.                                                           *)

\* PoolInv and RowsInv hold in every behaviour in which no cleanup of a slot
\* rewinds insert_idx.
THEOREM PoolInvariant == Spec /\ NoRewind => [](PoolInv /\ RowsInv)
<1>1. Init => Inv
  BY InitInv
<1>2. Inv /\ [Next]_vars /\ [insert_idx <= insert_idx']_vars => Inv'
  <2>1. CASE UNCHANGED vars
    BY <2>1, Stutter
  <2>2. CASE ~UNCHANGED vars
    BY <2>2, InvStep
  <2> QED
    BY <2>1, <2>2
<1>3. Inv => PoolInv /\ RowsInv
  BY DEF Inv
<1> QED
  BY <1>1, <1>2, <1>3, PTL DEF Spec, NoRewind

\* FlushedSegmentPool and the local variables of its threads keep their types:
\* every index that register_flushed_segment and replace_flushed_segments_n
\* store is a slot or -1, and no reference count goes below 0.
THEOREM PoolTypes == Spec /\ NoRewind => []TypeOK
<1>1. PoolInv /\ RowsInv => TypeOK
  BY DEF PoolInv
<1> QED
  BY <1>1, PoolInvariant, PTL

\* The list that register_flushed_segment and replace_flushed_segments_n edit
\* stays linked both ways, in order and without gap, with the registered sids.
THEOREM ListStaysIntact == Spec /\ NoRewind => []ListIntact
<1>1. ASSUME Inv PROVE ListIntact
  <2>1. /\ Chain(flushed_segments, head_idx, tail_idx, Linked)
        /\ UNION {seg(i).start .. seg(i).end : i \in Linked} = registered
    BY <1>1 DEF Inv, PoolInv, ListInv
  <2>2. \A i \in Linked : seg(i).in_used
    BY <1>1, PinnedFacts
  <2>3. \A i \in Linked \ {tail_idx} : /\ seg(i).next_idx \in Linked
                                       /\ seg(seg(i).next_idx).prev_idx = i
                                       /\ seg(seg(i).next_idx).start = seg(i).end + 1
    BY <2>1 DEF Chain
  <2>4. /\ head_idx \in Linked /\ tail_idx \in Linked
        /\ seg(head_idx).prev_idx = NIL /\ seg(tail_idx).next_idx = NIL
    BY <2>1 DEF Chain
  <2> QED
    BY <2>1, <2>2, <2>3, <2>4 DEF ListIntact
<1>2. PoolInv /\ RowsInv => ListIntact
  BY <1>1 DEF Inv
<1> QED
  BY <1>2, PoolInvariant, PTL

\* increment_flushed_segment_ref_count and decrement_flushed_segment_ref_count
\* are balanced: the count is the list's reference and those of the searches
\* and the SEGMENT_UPDATE_VACUUM that have the segment in hand.
THEOREM ReferencesExact == Spec /\ NoRewind => []RefExact
<1>1. PoolInv /\ RowsInv => RefExact
  BY DEF PoolInv
<1> QED
  BY <1>1, PoolInvariant, PTL

\* A segment that vector_search or the handler of SEGMENT_UPDATE_VACUUM has
\* pinned stays the one it was, with the rows of its file, whatever
\* replace_flushed_segments_n does in the meantime.
THEOREM PinsStayIntact == Spec /\ NoRewind => []PinnedIntact
<1>1. ASSUME Inv PROVE PinnedIntact
  <2>1. TypeOK /\ FilesInv /\ SegmentsInv /\ PinsInv
    BY <1>1 DEF Inv, PoolInv, RowsInv
  <2>2. ASSUME NEW x \in Searcher, NEW p \in pins[x]
        PROVE  /\ seg(p[1]).in_used /\ Ident(p[1]) = p
               /\ seg(p[1]).rows = Load(p[2], p[3], p[4]).rows
    <3> DEFINE i == p[1]
    <3>1. i \in Idx /\ seg(i).ref_count > 0
      BY <1>1, PinnedFacts
    <3>2. /\ seg(i).in_used
          /\ Filed(seg(i).start, seg(i).end, seg(i).version, seg(i).rows)
      BY <2>1, <3>1 DEF SegmentsInv
    <3>3. Load(seg(i).start, seg(i).end, seg(i).version).rows = seg(i).rows
      BY <2>1, <3>2, FiledIs
    <3>4. Ident(i) = p
      BY <2>1 DEF PinsInv
    <3>5. p[2] = seg(i).start /\ p[3] = seg(i).end /\ p[4] = seg(i).version
      BY <3>4 DEF Ident
    <3> QED
      BY <3>2, <3>3, <3>4, <3>5
  <2>3. vpc \in {"lock", "apply", "unpin"} =>
          /\ seg(vidx).in_used
          /\ seg(vidx).start = Current.start /\ seg(vidx).end = Current.end
    BY <1>1, <2>1, PinnedFacts DEF SegmentsInv, PinsInv
  <2> QED
    BY <2>2, <2>3 DEF PinnedIntact
<1>2. PoolInv /\ RowsInv => PinnedIntact
  BY <1>1 DEF Inv
<1> QED
  BY <1>2, PoolInvariant, PTL

\* What merge_worker_thread has claimed stays linked, adjacent and its own until
\* replace_flushed_segments_n takes it out.
THEOREM ClaimsHold == Spec /\ NoRewind => []ClaimHolds
<1>1. ASSUME Inv PROVE ClaimHolds
  <2>1. Claims /\ TypeOK
    BY <1>1 DEF Inv, PoolInv
  <2>2. \A u \in Merger : mpc[u] \notin {"idle", "claim", "unlock"} => mpc[u] \in Claiming
    BY <2>1 DEF TypeOK, Claiming
  <2>3. \A t \in Merger :
          mpc[t] \in {"load", "lock", "lock2", "reload", "write", "reserve", "replace"}
          => mpc[t] \in Claiming
    BY DEF Claiming
  <2> QED
    BY <2>1, <2>2, <2>3 DEF ClaimHolds, Claims, Adjoining
<1>2. PoolInv /\ RowsInv => ClaimHolds
  BY <1>1 DEF Inv
<1> QED
  BY <1>2, PoolInvariant, PTL

\* No rebuild and no merge loses a row: load_and_set_segment, the bitmaps that
\* merge_worker_thread carries over and replace_flushed_segments_n leave every
\* row that has not been deleted in a segment of the list.
THEOREM RowsStay == Spec /\ NoRewind => []NoRowLost
<1>1. ASSUME Inv PROVE NoRowLost
  <2>1. ASSUME NEW r \in RowsOf(registered) \ dead
        PROVE  \E i \in Linked : r \in seg(i).rows \ seg(i).mask
    <3>1. r \in Row /\ r[1] \in registered
      BY DEF RowsOf
    <3>2. PICK i \in Linked : r[1] \in seg(i).start .. seg(i).end
      BY <1>1, <3>1 DEF Inv, PoolInv, ListInv
    <3>3. Whole(seg(i).start, seg(i).end, seg(i).rows, seg(i).mask)
      BY <1>1, ListedSids
    <3>4. r \in RowsOf(seg(i).start .. seg(i).end) \ dead
      BY <3>1, <3>2 DEF RowsOf
    <3> QED
      BY <3>3, <3>4 DEF Whole
  <2> QED
    BY <2>1 DEF NoRowLost
<1>2. PoolInv /\ RowsInv => NoRowLost
  BY <1>1 DEF Inv
<1> QED
  BY <1>2, PoolInvariant, PTL

\* vector_search returns what the backend's snapshot owes it, although the
\* worker walks the list later than the snapshot was taken.
THEOREM SearchesComplete == Spec /\ NoRewind => []SearchComplete
<1>1. PoolInv /\ RowsInv => SearchComplete
  BY DEF RowsInv, OwedInv
<1> QED
  BY <1>1, PoolInvariant, PTL

-----------------------------------------------------------------------------
(* Who rewinds insert_idx.                                                 *)

\* No search and no VACUUM is under way, and none will be.
Quiet ==
    /\ insert_idx \in Nat
    /\ searches = 0 /\ vacuums = 0 /\ vpc = "idle"
    /\ \A x \in Searcher : spc[x] = "idle" /\ drop[x] = NIL

\* In a quiet pool insert_idx only grows.
LEMMA QuietStep ==
    ASSUME Quiet, Next
    PROVE  Quiet' /\ insert_idx <= insert_idx'
<1>a. ~Sch
  <2>1. ASSUME NEW x \in Searcher PROVE ~SearchBegin(x) /\ ~Search(x)
    <3>1. spc[x] = "idle" /\ drop[x] = NIL /\ ~(searches > 0)
      BY DEF Quiet
    <3>2. ~SearchBegin(x)
      BY <3>1 DEF SearchBegin
    <3>3. ~SearchPin(x) /\ ~SearchSegments(x)
      BY <3>1 DEF SearchPin, PinAll, SearchSegments, SearchAt
    <3>4. ~SearchDrop(x) /\ ~SearchCheck(x) /\ ~SearchEnd(x)
      BY <3>1 DEF SearchDrop, SearchCheck, SearchEnd, SearchAt
    <3> QED
      BY <3>2, <3>3, <3>4 DEF Search
  <2> QED
    BY <2>1 DEF Sch
<1>b. ~Vac
  BY DEF Quiet, Vac, VacuumBegin, Vacuum, VacuumSegment, UpdateFind, UpdateLock,
         UpdateCheck, UpdateApply, UpdateMask, UpdateDrop, UpdateDropCheck,
         VacuumAnswer, VacuumEnd, VacuumAt
<1>1. UNCHANGED searchVars /\ UNCHANGED vacVars
  BY <1>a, <1>b, Frames
<1>2. insert_idx' = insert_idx \/ (Reserved # NIL /\ insert_idx' = Reserved + 1)
  <2>1. CASE Reg
    BY <2>1 DEF Reg, FlushSegment, Regular, RegularFind, RegularReserve, RegularLoad,
                RegularRegister, poolVars, listVars
  <2>2. CASE Upg
    <3>1. PICK u \in upgrades : Upgrade(u)
      BY <2>2 DEF Upg
    <3> QED
      BY <3>1 DEF Upgrade, poolVars, listVars
  <2>3. CASE Mrg
    <3>1. PICK t \in Merger : Merge(t)
      BY <2>3, Zenon DEF Mrg
    <3>2. CASE MergeScan(t) \/ MergeClaim(t) \/ MergeLock(t) \/ MergeLock2(t)
      BY <3>2 DEF MergeScan, MergeClaim, MergeLock, MergeLock2, poolVars, listVars
    <3>3. CASE MergeLoad(t) \/ MergeReload(t) \/ MergeWrite(t)
      BY <3>3 DEF MergeLoad, MergeBuild, MergeReload, MergeMask, MergeWrite, poolVars,
                  listVars
    <3>4. CASE MergeReserve(t)
      BY <3>4 DEF MergeReserve
    <3>5. CASE MergeGiveUp(t) \/ MergeReplace(t) \/ MergeUnlock(t)
      BY <3>5 DEF MergeGiveUp, MergeReplace, MergeUnlock, listVars
    <3> QED
      BY <3>1, <3>2, <3>3, <3>4, <3>5 DEF Merge, Compact
  <2>4. CASE Del
    BY <2>4 DEF Del, DeleteRow, poolVars, listVars
  <2> QED
    BY <1>a, <1>b, <2>1, <2>2, <2>3, <2>4, Parties
<1>3. Reserved # NIL => Reserved \in Nat /\ Reserved >= insert_idx
  <2> DEFINE free == ReserveFrom(insert_idx)
  <2>1. free \subseteq Nat /\ \A i \in free : i >= insert_idx
    BY Constants DEF ReserveFrom
  <2>2. ASSUME free # {} PROVE (CHOOSE i \in free : \A j \in free : i <= j) \in free
    <3>1. \E i \in free : \A j \in free : i <= j
      <4> HIDE DEF free
      <4> QED
        BY <2>1, <2>2, Least
    <3> QED
      BY <3>1
  <2> QED
    BY <2>1, <2>2 DEF Reserved
<1> QED
  BY <1>1, <1>2, <1>3 DEF Quiet, searchVars, vacVars

\* Flushing, upgrades and merges clean slots up under the write lock, where
\* cleanup_flushed_segment cannot have it and leaves insert_idx alone: only the
\* last reference of a search or a SEGMENT_UPDATE_VACUUM rewinds it.
THEOREM OnlyReadersRewind ==
    ASSUME MaxSearches = 0, MaxVacuums = 0
    PROVE  Spec => NoRewind
<1>1. Init => Quiet
  BY InitVars, Constants DEF Quiet
<1>2. Quiet /\ [Next]_vars => Quiet' /\ [insert_idx <= insert_idx']_vars
  <2>1. ASSUME Quiet, UNCHANGED vars PROVE Quiet'
    BY <2>1 DEF Quiet, vars, poolVars, listVars, searchVars, vacVars
  <2> QED
    BY <2>1, QuietStep
<1> QED
  BY <1>1, <1>2, PTL DEF Spec, NoRewind

\* So whatever is flushed, upgraded, rebuilt and merged, as long as nobody
\* searches and no VACUUM runs, the list stays intact and no row is lost.
THEOREM MergesLoseNothing ==
    ASSUME MaxSearches = 0, MaxVacuums = 0
    PROVE  Spec => [](ListIntact /\ NoRowLost)
  BY OnlyReadersRewind, ListStaysIntact, RowsStay, PTL
==============================================================================
