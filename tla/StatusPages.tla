---------------------------- MODULE StatusPages -----------------------------
(***************************************************************************)
(* The status pages of one index: which memtables are registered, and the  *)
(* tids of each, for recovery to read.                                     *)
(*                                                                         *)
(* An array of memtable items on a list of pages leads to a chain of pages *)
(* with the tids of each memtable; the chains of released memtables are    *)
(* strung together in a free list.                                         *)
(*                                                                         *)
(* Backends add tids, register the next memtable and release flushed ones  *)
(* concurrently: each action is one WAL record, made with its pages locked *)
(* exclusively.  What was read under a lock that is gone may be stale.     *)
(***************************************************************************)
EXTENDS Integers, Sequences, FiniteSets, SequencesExt

CONSTANTS
    Backend,       \* processes that insert
    Capacity,      \* rows of a memtable
    PageTuples,    \* tids on a page
    PageItems,     \* memtable items on a page of the array
    LastSid,       \* bound: the last memtable
    MaxInserts,    \* bound on the inserts
    MaxRemoves,    \* bound on the tids that VACUUM removes
    MaxCrashes     \* bound on the crashes

ASSUME StatusPagesAssumption ==
    /\ {Capacity, PageTuples, PageItems, LastSid} \subseteq Nat \ {0}
    /\ {MaxInserts, MaxRemoves, MaxCrashes} \subseteq Nat

VARIABLES
    \* StatusPageMetaData
    freePageHead, freePageTail, max_memtable_sid,
    \* the array: for each of its pages the StatusMemtableData items on it
    array,
    \* every other page: nextblkno, and the tids on it; how many there are
    nextblkno, tuples, blocks,
    \* LSMIndexData: the growing memtable (0: none), next_segment_id, the slots of
    \* each memtable that were handed out
    growing, next_segment_id, reserved,
    \* the inserts under way
    adder,
    \* the registration under way: its sid (0: none), the page of the array
    registering, arraypage,
    \* history: the tids added to a memtable and not removed, those in a call
    \* that has returned, and that an update hit the item of another memtable
    kept, published, misdirected,
    inserts, removes, crashes

metaVars  == <<freePageHead, freePageTail>>
pageVars  == <<nextblkno, tuples, blocks>>
lsmVars   == <<growing, next_segment_id, reserved>>
regVars   == <<registering, arraypage>>
history   == <<kept, published, misdirected>>
counters  == <<inserts, removes, crashes>>

vars == <<metaVars, max_memtable_sid, array, pageVars, lsmVars, adder, regVars,
          history, counters>>

FirstSid == 1
Sid == FirstSid .. LastSid
Tid == 1 .. MaxInserts

InvalidBlockNumber == 0
MaxBlocks == LastSid + MaxInserts
Block == 1 .. MaxBlocks

\* Where the items are, and the one of memtable s.
Places == {<<a, o>> : a \in DOMAIN array, o \in 1 .. PageItems}
Items  == {x \in Places : x[2] \in DOMAIN array[x[1]]}
Item(x) == array[x[1]][x[2]]
ItemOf(s) == CHOOSE x \in Items : Item(x).sid = s

\* GetStatusMemtableSids.
GetStatusMemtableSids == {Item(x).sid : x \in Items}

\* The pages from b on: as many steps along the links as there are pages.
Chain(b) ==
    LET Step(S, n) == S \cup {nextblkno[c] : c \in S \ {InvalidBlockNumber}}
    IN  FoldLeft(Step, {b}, [n \in Block |-> n]) \ {InvalidBlockNumber}

\* The last of them.
LastPage(b) == CHOOSE c \in Chain(b) : nextblkno[c] = InvalidBlockNumber

GetStatusMemtableTids(s) ==
    UNION {tuples[b] : b \in Chain(Item(ItemOf(s)).head)}

GetStatusGrowingSid == max_memtable_sid

Idle == [pc |-> "idle", tid |-> 0, sid |-> 0, info |-> <<0, 0>>, original |-> 0, page |-> 0]

-----------------------------------------------------------------------------
(* Free pages.                                                             *)

\* Deviation: the page is handed out as it is.
GetFreePageDirty ==
    /\ freePageHead # InvalidBlockNumber
    /\ freePageHead' = nextblkno[freePageHead]
    /\ freePageTail' = IF nextblkno[freePageHead] = InvalidBlockNumber
                         THEN InvalidBlockNumber ELSE freePageTail
    /\ UNCHANGED <<tuples, blocks>>

\* The head of the free list is popped, and initialised.
GetFreePage ==
    /\ freePageHead # InvalidBlockNumber
    /\ freePageHead' = nextblkno[freePageHead]
    /\ freePageTail' = IF nextblkno[freePageHead] = InvalidBlockNumber
                         THEN InvalidBlockNumber ELSE freePageTail
    /\ tuples' = [tuples EXCEPT ![freePageHead] = {}]
    /\ UNCHANGED blocks

\* No free page: the relation is extended.
StatusNewBuffer ==
    /\ freePageHead = InvalidBlockNumber
    /\ blocks < MaxBlocks
    /\ blocks' = blocks + 1
    /\ UNCHANGED <<metaVars, tuples>>

\* A new page with nothing behind it, linked behind `last` if that is a page.
NewPage(b, last) ==
    /\ GetFreePage \/ StatusNewBuffer
    /\ b = IF freePageHead = InvalidBlockNumber THEN blocks + 1 ELSE freePageHead
    /\ nextblkno' = [c \in Block |-> IF c = last THEN b
                                    ELSE IF c = b THEN InvalidBlockNumber
                                    ELSE nextblkno[c]]

-----------------------------------------------------------------------------
(* AddToStatusMemtable.                                                    *)

\* insert_lsm_index reserves a slot of the growing memtable.
Reserve(p) ==
    /\ adder[p].pc = "idle" /\ inserts < MaxInserts
    /\ growing # 0 /\ reserved[growing] < Capacity
    /\ inserts' = inserts + 1
    /\ reserved' = [reserved EXCEPT ![growing] = @ + 1]
    /\ adder' = [adder EXCEPT ![p] = [Idle EXCEPT !.pc = "find", !.tid = inserts + 1,
                                          !.sid = growing]]
    /\ UNCHANGED <<metaVars, max_memtable_sid, array, pageVars, growing,
                   next_segment_id, regVars, history, removes, crashes>>

\* The item's place and its insert page, read under a shared lock.
FindMemtableInsertPage(p) ==
    /\ adder[p].pc = "find"
    /\ LET x == ItemOf(adder[p].sid)
       IN  adder' = [adder EXCEPT ![p].pc = "walk", ![p].info = x,
                        ![p].page = Item(x).insert, ![p].original = Item(x).insert]
    /\ UNCHANGED <<metaVars, max_memtable_sid, array, pageVars, lsmVars, regVars,
                   history, counters>>

\* A page that was just linked is locked until it has its first tid.
Unlocked(p) == \A q \in Backend \ {p} : ~(adder[q].pc = "fill" /\ adder[q].page = adder[p].page)

Full(b) == Cardinality(tuples[b]) >= PageTuples

\* The page is full, and another one follows.
WalkOn(p) ==
    LET b == adder[p].page
    IN  /\ adder[p].pc = "walk" /\ Unlocked(p)
        /\ Full(b) /\ nextblkno[b] # InvalidBlockNumber
        /\ adder' = [adder EXCEPT ![p].page = nextblkno[b]]
        /\ UNCHANGED <<metaVars, max_memtable_sid, array, pageVars, lsmVars, regVars,
                       history, counters>>

\* The page is full and the last one: a new one is linked.
Extend(p) ==
    LET b == adder[p].page
    IN  /\ adder[p].pc = "walk" /\ Unlocked(p)
        /\ Full(b) /\ nextblkno[b] = InvalidBlockNumber
        /\ \E c \in Block :
             /\ NewPage(c, b)
             /\ adder' = [adder EXCEPT ![p].pc = "fill", ![p].page = c]
        /\ UNCHANGED <<max_memtable_sid, array, lsmVars, regVars, history, counters>>

\* The call is over, and the slot published.
Publish(p) ==
    /\ adder' = [adder EXCEPT ![p] = Idle]
    /\ published' = published \cup {adder[p].tid}

\* The tid goes to the page; if that is not the one it began with, the item is
\* still to be updated.
AddItem(p) ==
    LET b == adder[p].page
    IN  /\ adder[p].pc \in {"walk", "fill"} /\ Unlocked(p)
        /\ ~Full(b)
        /\ tuples' = [tuples EXCEPT ![b] = @ \cup {adder[p].tid}]
        /\ kept' = [kept EXCEPT ![adder[p].sid] = @ \cup {adder[p].tid}]
        /\ IF b = adder[p].original
             THEN Publish(p)
             ELSE adder' = [adder EXCEPT ![p].pc = "update"] /\ UNCHANGED published
        /\ UNCHANGED <<metaVars, max_memtable_sid, array, nextblkno, blocks, lsmVars,
                       regVars, misdirected, counters>>

\* StatusUpdateInsertPage writes to the place found before, whatever item is
\* there by now; beyond the last item it hits an item of the page or none.
StatusUpdateInsertPage(p) ==
    LET x == adder[p].info
        hits == IF x \in Items THEN {x}
                ELSE {<<0, 0>>} \cup {y \in Items : y[1] = x[1]}
    IN  /\ adder[p].pc = "update"
        /\ \E y \in hits :
             /\ array' = IF y \in Items THEN [array EXCEPT ![y[1]][y[2]].insert = adder[p].page]
                                        ELSE array
             /\ misdirected' = (misdirected \/ y \notin Items \/ Item(y).sid # adder[p].sid)
        /\ Publish(p)
        /\ UNCHANGED <<metaVars, max_memtable_sid, pageVars, lsmVars, regVars, kept,
                       counters>>

-----------------------------------------------------------------------------
(* Registering, releasing, removing.                                       *)

\* The growing memtable is full, or recovery left none: the meta page gets the
\* next sid.
UpdateMaxMemtableSid ==
    /\ registering = 0 /\ next_segment_id <= LastSid
    /\ growing # 0 => reserved[growing] = Capacity
    /\ registering' = next_segment_id /\ arraypage' = 1
    /\ next_segment_id' = next_segment_id + 1
    /\ max_memtable_sid' = next_segment_id
    /\ UNCHANGED <<metaVars, array, pageVars, growing, reserved, adder, history,
                   counters>>

NoRoom == Len(array[arraypage]) = PageItems

\* A full page of the array is passed by; after the last one comes a new one.
NextArrayPage ==
    /\ registering # 0 /\ NoRoom
    /\ array' = IF arraypage = Len(array) THEN Append(array, <<>>) ELSE array
    /\ arraypage' = arraypage + 1
    /\ UNCHANGED <<metaVars, max_memtable_sid, pageVars, lsmVars, adder, registering,
                   history, counters>>

\* The item is added, with a first page for its tids, and the rotation ends.
RegisterStatusMemtable ==
    /\ registering # 0 /\ ~NoRoom
    /\ \E b \in Block :
         /\ NewPage(b, InvalidBlockNumber)
         /\ array' = [array EXCEPT ![arraypage] =
                        Append(@, [sid |-> registering, head |-> b, insert |-> b])]
    /\ growing' = registering
    /\ registering' = 0 /\ arraypage' = 0
    /\ UNCHANGED <<max_memtable_sid, next_segment_id, reserved, adder, history,
                   counters>>

\* Deviation: the insert page is taken for the tail.
ReleaseStatusMemtableHint(s) ==
    /\ s \in GetStatusMemtableSids \ {growing}
    /\ \A p \in Backend : adder[p].sid # s
    /\ LET x == ItemOf(s)
           mt == Item(x)
       IN  /\ freePageTail' = mt.insert
           /\ IF freePageHead = InvalidBlockNumber
                THEN freePageHead' = mt.head /\ UNCHANGED nextblkno
                ELSE /\ nextblkno' = [nextblkno EXCEPT ![freePageTail] = mt.head]
                     /\ UNCHANGED freePageHead
           /\ array' = [array EXCEPT ![x[1]] = RemoveAt(@, x[2])]
    /\ UNCHANGED <<max_memtable_sid, tuples, blocks, lsmVars, adder, regVars, history,
                   counters>>

\* A memtable is released once it is flushed, for which it is sealed and all
\* of its slots are published.  Its chain goes to the end of the free list; the
\* items behind its own move up.
ReleaseStatusMemtable(s) ==
    /\ s \in GetStatusMemtableSids \ {growing}
    /\ \A p \in Backend : adder[p].sid # s
    /\ LET x == ItemOf(s)
           mt == Item(x)
       IN  /\ freePageTail' = LastPage(mt.insert)
           /\ IF freePageHead = InvalidBlockNumber
                THEN freePageHead' = mt.head /\ UNCHANGED nextblkno
                ELSE /\ nextblkno' = [nextblkno EXCEPT ![freePageTail] = mt.head]
                     /\ UNCHANGED freePageHead
           /\ array' = [array EXCEPT ![x[1]] = RemoveAt(@, x[2])]
    /\ UNCHANGED <<max_memtable_sid, tuples, blocks, lsmVars, adder, regVars, history,
                   counters>>

\* VACUUM takes a dead tid off the pages of memtable s, under a shared lock of
\* its item.
RemoveFromStatusMemtable(s, t) ==
    /\ removes < MaxRemoves
    /\ s \in GetStatusMemtableSids /\ t \in published
    /\ \E b \in Chain(Item(ItemOf(s)).head) :
         /\ t \in tuples[b]
         /\ tuples' = [tuples EXCEPT ![b] = @ \ {t}]
    /\ kept' = [kept EXCEPT ![s] = @ \ {t}]
    /\ removes' = removes + 1
    /\ UNCHANGED <<metaVars, max_memtable_sid, array, nextblkno, blocks, lsmVars, adder,
                   regVars, published, misdirected, inserts, crashes>>

\* Calls under way end where they are, and recovery fills the memtables from
\* the pages.  The newest one goes on growing if it was registered; otherwise
\* all are sealed, and its sid is given out again.
Crash ==
    /\ crashes < MaxCrashes /\ GetStatusMemtableSids # {}
    /\ crashes' = crashes + 1
    /\ adder' = [p \in Backend |-> Idle]
    /\ growing' = IF GetStatusGrowingSid \in GetStatusMemtableSids
                    THEN GetStatusGrowingSid ELSE 0
    /\ next_segment_id' = Max(GetStatusMemtableSids) + 1
    /\ reserved' = [s \in Sid |-> IF s \in GetStatusMemtableSids
                                  THEN Cardinality(GetStatusMemtableTids(s)) ELSE 0]
    /\ registering' = 0 /\ arraypage' = 0
    /\ UNCHANGED <<metaVars, max_memtable_sid, array, pageVars, history, inserts, removes>>

-----------------------------------------------------------------------------
(* The specification.                                                      *)

\* CREATE INDEX has made the meta page and the array, and registered the first
\* memtable.
Init ==
    /\ freePageHead = InvalidBlockNumber /\ freePageTail = InvalidBlockNumber
    /\ max_memtable_sid = FirstSid
    /\ array = <<<<[sid |-> FirstSid, head |-> 1, insert |-> 1]>>>>
    /\ nextblkno = [b \in Block |-> InvalidBlockNumber]
    /\ tuples = [b \in Block |-> {}] /\ blocks = 1
    /\ adder = [p \in Backend |-> Idle]
    /\ growing = FirstSid /\ next_segment_id = FirstSid + 1
    /\ reserved = [s \in Sid |-> 0]
    /\ registering = 0 /\ arraypage = 0
    /\ kept = [s \in Sid |-> {}] /\ published = {} /\ misdirected = FALSE
    /\ inserts = 0 /\ removes = 0 /\ crashes = 0

Add(p) ==
    \/ Reserve(p) \/ FindMemtableInsertPage(p) \/ WalkOn(p) \/ Extend(p)
    \/ AddItem(p) \/ StatusUpdateInsertPage(p)

Next ==
    \/ \E p \in Backend : Add(p)
    \/ UpdateMaxMemtableSid \/ NextArrayPage \/ RegisterStatusMemtable
    \/ \E s \in Sid : ReleaseStatusMemtable(s)
    \/ \E s \in Sid, t \in Tid : RemoveFromStatusMemtable(s, t)
    \/ Crash

Spec == Init /\ [][Next]_vars

-----------------------------------------------------------------------------
(* Properties.                                                             *)

\* Type correctness of the pages and of the calls under way.
TypeOK ==
    /\ {freePageHead, freePageTail} \subseteq Block \cup {InvalidBlockNumber}
    /\ max_memtable_sid \in Sid
    /\ \A x \in Items : Item(x) \in [sid : Sid, head : Block, insert : Block]
    /\ nextblkno \in [Block -> Block \cup {InvalidBlockNumber}]
    /\ tuples \in [Block -> SUBSET Tid] /\ blocks \in Block
    /\ \A p \in Backend : adder[p].pc \in {"idle", "find", "walk", "fill", "update"}
    /\ growing \in Sid \cup {0} /\ next_segment_id \in 1 .. LastSid + 1
    /\ reserved \in [Sid -> 0 .. Capacity]
    /\ registering \in Sid \cup {0}
    /\ kept \in [Sid -> SUBSET Tid] /\ published \subseteq Tid

\* What recovery would read is what the memtables hold: of every registered
\* memtable the tids added and not removed, with max_memtable_sid the growing
\* one unless the next is being registered; as long as no insert has updated
\* the item of another memtable.
Recorded ==
    ~misdirected =>
    /\ \A s \in GetStatusMemtableSids : s <= GetStatusGrowingSid
    /\ growing = 0 \/ registering # 0 \/ growing = GetStatusGrowingSid
    /\ \A s \in GetStatusMemtableSids : GetStatusMemtableTids(s) = kept[s]

FreePages ==
    IF freePageHead = InvalidBlockNumber THEN {} ELSE Chain(freePageHead)

\* A page belongs to one memtable or to the free list, and none is forgotten;
\* the free list ends at its tail.  Concurrent inserts may leave the insert page
\* of a memtable behind its tail, and pages change hands between memtables.
PagesApart ==
    ~misdirected =>
    LET heads == {Item(x).head : x \in Items}
    IN  /\ \A b \in heads : Chain(b) \cap FreePages = {}
        /\ \A b, c \in heads : b = c \/ Chain(b) \cap Chain(c) = {}
        /\ FreePages \cup UNION {Chain(b) : b \in heads} = 1 .. blocks
        /\ FreePages # {} => nextblkno[freePageTail] = InvalidBlockNumber
                             /\ freePageTail \in FreePages

\* An insert updates the insert page of its own memtable.
Directed == ~misdirected

=============================================================================
