--------------------------- MODULE IndexSlotsProofs ---------------------------
(***************************************************************************)
(* Proofs about IndexSlots, for any number of backends, indexes, slots and *)
(* maintenance threads: LifeInv is inductive, which shows NoDuplicate;     *)
(* OwnInv is inductive relative to it, which shows SlotOwned; and so is    *)
(* ServeInv, which shows Served.                                           *)
(***************************************************************************)
EXTENDS IndexSlots, TLAPS, WellFoundedInduction

USE DEF slotVars, diskVars, clientVars, workerVars, bounds, flushVars, maintVars, Others

-----------------------------------------------------------------------------
(* Slots, sets of slots and states.                                        *)

\* A scan of the slots finds one of those it looks for.
LEMMA FirstSlot ==
    ASSUME NEW S \in SUBSET Slot, S # {}
    PROVE  Min(S) \in S
<1>1. Slot \subseteq Nat
  BY SlotsAssumption DEF Slot
<1>2. PICK x \in S : \A y \in S : ~(<<y, x>> \in OpToRel(<, Nat))
  <2>1. S \subseteq Nat
    BY <1>1
  <2> QED
    BY <2>1, NatLessThanWellFounded, WFMin, Zenon
<1>3. \A y \in S : ~(y < x)
  BY <1>1, <1>2 DEF OpToRel
<1>4. \A y \in S : x <= y
  BY <1>1, <1>3
<1> QED
  BY <1>4 DEF Min

\* Slots are there, and a writable slot is neither free nor being recovered.
LEMMA SlotFacts ==
    /\ 0 \in Slot
    /\ \A v \in State : is_writable(v) <=> v # "FREE" /\ v # "RECOVERING"
  BY SlotsAssumption DEF Slot, State, is_writable

\* The flusher is not a backend, and a task belongs to either.
LEMMA TaskFacts ==
    /\ Flusher \notin Backend
    /\ \A k \in LoadTask : /\ k.type = "load" /\ k.slot \in Slot /\ k.client \in Backend
                           /\ k.rel \in Index /\ k.client # Flusher
    /\ \A k \in RegularTask : /\ k.type = "regular" /\ k.slot \in Slot /\ k.client = Flusher
                              /\ k.seg \in Segment
    /\ NoTask \notin LoadTask /\ NoTask \notin RegularTask
<1>1. Flusher \notin Backend
  BY SlotsAssumption DEF Flusher, Backend
<1>2. \A k \in LoadTask : /\ k.type = "load" /\ k.slot \in Slot /\ k.client \in Backend
                          /\ k.rel \in Index
  BY DEF LoadTask
<1>3. \A k \in RegularTask : /\ k.type = "regular" /\ k.slot \in Slot /\ k.client = Flusher
                             /\ k.seg \in Segment
  BY DEF RegularTask
<1>4. NoTask.type = "none"
  BY DEF NoTask
<1> QED
  BY <1>1, <1>2, <1>3, <1>4

-----------------------------------------------------------------------------
(* Types.                                                                  *)

SlotTypes ==
    /\ lock \in SUBSET Backend
    /\ valid \in [Slot -> State]
    /\ state_error \in [Slot -> {0, 1}]
    /\ indexRelId \in [Slot -> Index \cup {NoIndex}]
    /\ memtables \in [Slot -> SUBSET Segment]
    /\ freed \in BOOLEAN
    /\ files \in [Index -> SUBSET Sid] /\ status_sids \in [Index -> SUBSET Sid]

ClientTypes ==
    /\ pc \in [Backend -> {"idle", "claim", "label", "signal", "wait", "have",
                           "loader", "loading", "waitload", "search"}]
    /\ want \in [Backend -> Index \cup {NoIndex}]
    /\ slot \in [Backend -> Slot]

WorkerTypes ==
    /\ wpc \in {"down", "sleep", "scan", "open", "recover"}
    /\ worker_up \in BOOLEAN
    /\ rslot \in Slot /\ rrel \in Index \cup {NoIndex}

MaintTypes ==
    /\ pool \in [Slot -> [Segment -> Nat]]
    /\ fpc \in {"idle", "send", "wait"}
    /\ fseg \in [slot : Slot, seg : Segment \cup {<<NoIndex, 0>>}]
    /\ queue \in Seq(LoadTask \cup RegularTask)
    /\ tpc \in [Thread -> {"idle", "load", "fill", "regular", "dedup"}]
    /\ ttask \in [Thread -> LoadTask \cup RegularTask \cup {NoTask}]
    /\ tscan \in [Thread -> SUBSET Segment]
    /\ maint_done \in [Client -> BOOLEAN]

\* The type invariant, by component.
LEMMA Types == TypeOK <=> SlotTypes /\ ClientTypes /\ WorkerTypes /\ MaintTypes
  BY DEF TypeOK, SlotTypes, ClientTypes, WorkerTypes, MaintTypes

\* Types after a step of a backend.
LEMMA BackendTypes ==
    ASSUME TypeOK, SlotLife, NEW p \in Backend,
           \/ \E x \in Index : Resolve(p, x)
           \/ BackendStep(p) \/ LoadError(p)
    PROVE  TypeOK'
<1>0. SlotTypes /\ ClientTypes /\ WorkerTypes /\ MaintTypes
  BY Types
<1>a. SlotsOf(want[p]) \in SUBSET Slot /\ FreeSlots \in SUBSET Slot
  BY DEF SlotsOf, FreeSlots
<1>1. CASE \E x \in Index : Resolve(p, x)
  <2>1. PICK x \in Index : Resolve(p, x)
    BY <1>1
  <2>2. CASE SlotsOf(x) = {}
    <3>1. ClientTypes'
      BY <1>0, <2>1, <2>2 DEF Resolve, ClientTypes
    <3> QED
      BY <1>0, <2>1, <3>1 DEF Resolve, TypeOK, SlotTypes, ClientTypes, WorkerTypes, MaintTypes
  <2>3. CASE SlotsOf(x) # {}
    <3>1. PICK i \in Slot : i = Min(SlotsOf(x))
      BY <2>3, FirstSlot DEF SlotsOf
    <3>2. ClientTypes'
      BY <1>0, <2>1, <2>3, <3>1 DEF Resolve, ClientTypes
    <3> QED
      BY <1>0, <2>1, <3>2 DEF Resolve, TypeOK, SlotTypes, ClientTypes, WorkerTypes, MaintTypes
  <2> QED
    BY <2>2, <2>3
<1>2. CASE ClaimFound(p)
  <2>1. PICK i \in Slot : i = Min(SlotsOf(want[p]))
    BY <1>2, <1>a, FirstSlot DEF ClaimFound
  <2>2. ClientTypes'
    BY <1>0, <1>2, <2>1 DEF ClaimFound, ClientTypes
  <2> QED
    BY <1>0, <1>2, <2>2 DEF ClaimFound, TypeOK, SlotTypes, ClientTypes, WorkerTypes, MaintTypes
<1>3. CASE ClaimFree(p)
  <2>1. CASE FreeSlots = {}
    <3>1. ClientTypes'
      BY <1>0, <1>3, <2>1, SlotFacts DEF ClaimFree, Return, ClientTypes
    <3> QED
      BY <1>0, <1>3, <2>1, <3>1 DEF ClaimFree, TypeOK, SlotTypes, ClientTypes, WorkerTypes,
                                    MaintTypes
  <2>2. CASE FreeSlots # {}
    <3>1. PICK i \in Slot : i = Min(FreeSlots)
      BY <1>a, <2>2, FirstSlot
    <3>2. ClientTypes'
      BY <1>0, <1>3, <2>2, <3>1 DEF ClaimFree, ClientTypes
    <3>3. SlotTypes'
      BY <1>0, <1>3, <2>2, <3>1 DEF ClaimFree, SlotTypes, State
    <3> QED
      BY <1>0, <1>3, <3>2, <3>3 DEF ClaimFree, TypeOK, SlotTypes, ClientTypes, WorkerTypes,
                                    MaintTypes
  <2> QED
    BY <2>1, <2>2
<1>4. CASE ClaimLabel(p) \/ ClaimReset(p) \/ WinLoad(p) \/ LoadError(p) \/ LoadPublish(p)
  <2>1. SlotTypes'
    BY <1>0, <1>4 DEF ClaimLabel, ClaimReset, WinLoad, LoadError, LoadPublish, SlotTypes,
                      ClientTypes, State
  <2>2. ClientTypes'
    BY <1>0, <1>4, SlotFacts DEF ClaimLabel, ClaimReset, WinLoad, LoadError, LoadPublish, Goto,
                                 Return, ClientTypes
  <2>3. UNCHANGED <<wpc, worker_up, rslot, rrel, pool, flushVars, maintVars>>
    BY <1>4 DEF ClaimLabel, ClaimReset, WinLoad, LoadError, LoadPublish
  <2> QED
    BY <1>0, <2>1, <2>2, <2>3 DEF TypeOK, SlotTypes, ClientTypes, WorkerTypes, MaintTypes
<1>5. CASE ClaimSignal(p) \/ Waited(p) \/ EnsureLoaded(p) \/ LoadWaited(p) \/ Search(p)
  <2>1. ClientTypes'
    BY <1>0, <1>5, SlotFacts DEF ClaimSignal, Waited, EnsureLoaded, LoadWaited, Search, Goto,
                                 Return, ClientTypes
  <2>2. UNCHANGED <<slotVars, diskVars, wpc, worker_up, rslot, rrel, pool, flushVars, maintVars>>
    BY <1>5 DEF ClaimSignal, Waited, EnsureLoaded, LoadWaited, Search
  <2> QED
    BY <1>0, <2>1, <2>2 DEF TypeOK, SlotTypes, ClientTypes, WorkerTypes, MaintTypes
<1>6. CASE Write(p)
  <2>1. ClientTypes'
    BY <1>0, <1>6, SlotFacts DEF Write, Return, ClientTypes
  <2>2. want[p] \in Index
    BY <1>0, <1>6 DEF Write, SlotLife, ClientTypes
  <2>3. PICK s : IF s \in Sid
                   THEN /\ memtables' = [memtables EXCEPT ![slot[p]] = @ \cup {<<want[p], s>>}]
                        /\ status_sids' = [status_sids EXCEPT ![want[p]] = @ \cup {s}]
                   ELSE UNCHANGED <<memtables, status_sids>>
    BY <1>6 DEF Write
  <2>4. SlotTypes'
    BY <1>0, <1>6, <2>2, <2>3 DEF Write, SlotTypes, ClientTypes, Segment
  <2> QED
    BY <1>0, <1>6, <2>1, <2>4 DEF Write, TypeOK, SlotTypes, ClientTypes, WorkerTypes, MaintTypes
<1>7. CASE LoadSubmit(p)
  <2>1. ClientTypes'
    BY <1>0, <1>7 DEF LoadSubmit, Goto, ClientTypes
  <2>2. PICK k \in LoadTask : queue' = Append(queue, k)
    <3>1. indexRelId[slot[p]] \in Index /\ slot[p] \in Slot
      BY <1>0, <1>7 DEF LoadSubmit, SlotLife, SlotTypes, ClientTypes, Holding
    <3> QED
      BY <1>7, <3>1 DEF LoadSubmit, LoadTask
  <2>3. queue' \in Seq(LoadTask \cup RegularTask)
    BY <1>0, <2>2 DEF MaintTypes
  <2>4. MaintTypes'
    BY <1>0, <1>7, <2>3 DEF LoadSubmit, MaintTypes, Client
  <2> QED
    BY <1>0, <1>7, <2>1, <2>4 DEF LoadSubmit, TypeOK, SlotTypes, ClientTypes, WorkerTypes,
                                  MaintTypes
<1> QED
  BY <1>1, <1>2, <1>3, <1>4, <1>5, <1>6, <1>7 DEF BackendStep

\* Types after a step of the recovery worker.
LEMMA RecoveryTypes ==
    ASSUME TypeOK, Recovering, WorkerStep \/ RecoverStep \/ WorkerDie
    PROVE  TypeOK'
<1>0. SlotTypes /\ ClientTypes /\ WorkerTypes /\ MaintTypes
  BY Types
<1>1. UNCHANGED <<clientVars, pool, flushVars, maintVars, diskVars>>
  BY DEF WorkerStep, RecoverStep, WorkerStart, WorkerWake, WorkerPick, WorkerScanned,
         RecoverPublish, RecoverOpen, RecoverFail, WorkerDie
<1>2. WorkerTypes' /\ SlotTypes'
  <2>1. CASE WorkerPick
    <3>1. PICK i \in Slot : i = Min(Pending)
      BY <2>1, FirstSlot DEF WorkerPick, Pending
    <3> QED
      BY <1>0, <2>1, <3>1 DEF WorkerPick, WorkerTypes, SlotTypes
  <2>2. CASE WorkerStart \/ WorkerWake \/ WorkerScanned \/ WorkerDie
    BY <1>0, <2>2, SlotFacts DEF WorkerStart, WorkerWake, WorkerScanned, WorkerDie, WorkerTypes,
                                 SlotTypes
  <2>3. CASE RecoverOpen \/ RecoverFail
    <3>1. WorkerTypes'
      BY <1>0, <2>3, SlotFacts DEF RecoverOpen, RecoverFail, ScanOn, WorkerTypes
    <3>2. SlotTypes'
      BY <1>0, <2>3 DEF RecoverOpen, RecoverFail, SlotTypes, WorkerTypes, State
    <3> QED
      BY <3>1, <3>2
  <2>4. CASE RecoverPublish
    <3>1. rrel \in Index
      BY <1>0, <2>4 DEF RecoverPublish, Recovering, WorkerTypes
    <3>2. {<<rrel, s>> : s \in {t \in status_sids[rrel] : t > Max(files[rrel])}}
             \in SUBSET Segment
      BY <1>0, <3>1 DEF SlotTypes, Segment
    <3>3. SlotTypes'
      BY <1>0, <2>4, <3>2 DEF RecoverPublish, SlotTypes, WorkerTypes, State
    <3>4. WorkerTypes'
      BY <1>0, <2>4, SlotFacts DEF RecoverPublish, ScanOn, WorkerTypes
    <3> QED
      BY <3>3, <3>4
  <2> QED
    BY <2>1, <2>2, <2>3, <2>4 DEF WorkerStep, RecoverStep
<1> QED
  BY <1>0, <1>1, <1>2 DEF TypeOK, SlotTypes, ClientTypes, WorkerTypes, MaintTypes

\* Types after a step of the flusher.
LEMMA FlushTypes ==
    ASSUME TypeOK, SlotLife, FlushStep
    PROVE  TypeOK'
<1>0. SlotTypes /\ ClientTypes /\ WorkerTypes /\ MaintTypes
  BY Types
<1>1. UNCHANGED <<clientVars, workerVars, lock, valid, state_error, indexRelId, freed>>
  BY DEF FlushStep, FlushWrite, FlushSend, FlushUnlink
<1>2. ASSUME NEW i \in Slot, FlushWrite(i) PROVE TypeOK'
  <2>1. PICK m \in Segment : /\ files' = [files EXCEPT ![m[1]] = @ \cup {m[2]}]
                             /\ fseg' = [slot |-> i, seg |-> m]
    BY <1>0, <1>2 DEF FlushWrite, Sealed, SlotTypes
  <2>2. m[1] \in Index /\ m[2] \in Sid
    BY DEF Segment
  <2>3. SlotTypes' /\ MaintTypes'
    BY <1>0, <1>2, <2>1, <2>2 DEF FlushWrite, SlotTypes, MaintTypes
  <2> QED
    BY <1>0, <1>1, <2>3 DEF TypeOK, SlotTypes, ClientTypes, WorkerTypes, MaintTypes
<1>3. CASE FlushSend
  <2>1. fseg.slot \in Slot /\ fseg.seg \in Segment
    BY <1>0, <1>3 DEF FlushSend, SlotLife, MaintTypes
  <2>2. PICK k \in RegularTask : queue' = Append(queue, k)
    BY <1>3, <2>1 DEF FlushSend, RegularTask
  <2>3. queue' \in Seq(LoadTask \cup RegularTask)
    BY <1>0, <2>2 DEF MaintTypes
  <2>4. MaintTypes'
    BY <1>0, <1>3, <2>3 DEF FlushSend, MaintTypes, Client
  <2> QED
    BY <1>0, <1>1, <1>3, <2>4 DEF FlushSend, TypeOK, SlotTypes, ClientTypes, WorkerTypes,
                                  MaintTypes
<1>4. CASE FlushUnlink
  <2>1. SlotTypes' /\ MaintTypes'
    BY <1>0, <1>4, SlotFacts DEF FlushUnlink, SlotTypes, MaintTypes, NoSegment
  <2> QED
    BY <1>0, <1>1, <2>1 DEF TypeOK, SlotTypes, ClientTypes, WorkerTypes, MaintTypes
<1> QED
  BY <1>2, <1>3, <1>4 DEF FlushStep

\* Types after a step of a maintenance thread.
LEMMA ThreadTypes ==
    ASSUME TypeOK, TasksAwaited, NEW t \in Thread, ThreadStep(t)
    PROVE  TypeOK'
<1>0. SlotTypes /\ ClientTypes /\ WorkerTypes /\ MaintTypes
  BY Types
<1>1. UNCHANGED <<slotVars, diskVars, clientVars, workerVars, flushVars>>
  BY DEF ThreadStep, Take, LoadScan, LoadFill, WaitQueryable, WaitGiveUp, Register
<1>2. MaintTypes'
  <2>1. CASE Take(t)
    <3>1. queue # <<>> /\ queue \in Seq(LoadTask \cup RegularTask)
      BY <1>0, <2>1 DEF Take, MaintTypes
    <3>2. PICK k \in LoadTask \cup RegularTask :
            k = Head(queue) /\ Tail(queue) \in Seq(LoadTask \cup RegularTask)
      BY <3>1
    <3>3. k.type \in {"load", "regular"}
      BY TaskFacts
    <3> QED
      BY <1>0, <2>1, <3>2, <3>3 DEF Take, MaintTypes
  <2>2. CASE LoadScan(t)
    <3>1. ttask[t] \in LoadTask
      BY <2>2 DEF LoadScan, TasksAwaited, Works
    <3>2. PICK i \in Slot, x \in Index : i = ttask[t].slot /\ x = ttask[t].rel
      BY <3>1, TaskFacts
    <3>3. {x} \X files[x] \in SUBSET Segment
      BY <1>0 DEF SlotTypes, Segment
    <3> QED
      BY <1>0, <2>2, <3>2, <3>3 DEF LoadScan, MaintTypes
  <2>3. CASE LoadFill(t)
    <3>1. ttask[t] \in LoadTask
      BY <2>3 DEF LoadFill, TasksAwaited, Works
    <3>2. PICK i \in Slot, c \in Client : i = ttask[t].slot /\ c = ttask[t].client
      BY <3>1, TaskFacts DEF Client
    <3>3. PICK P \in [Segment -> Nat] : pool' = [pool EXCEPT ![i] = P]
      <4>1. pool' = [pool EXCEPT ![i] =
                       [g \in Segment |-> pool[i][g] + (IF g \in tscan[t] THEN 1 ELSE 0)]]
        BY <1>0, <2>3, <3>2 DEF LoadFill, MaintTypes
      <4>2. [g \in Segment |-> pool[i][g] + (IF g \in tscan[t] THEN 1 ELSE 0)]
              \in [Segment -> Nat]
        BY <1>0 DEF MaintTypes
      <4> QED
        BY <4>1, <4>2
    <3> QED
      BY <1>0, <2>3, <3>2, <3>3 DEF LoadFill, Answer, MaintTypes
  <2>4. CASE WaitQueryable(t) \/ WaitGiveUp(t)
    <3>1. ttask[t] \in RegularTask
      BY <2>4 DEF WaitQueryable, WaitGiveUp, TasksAwaited, Works
    <3>2. PICK c \in Client : c = ttask[t].client
      BY <3>1, TaskFacts DEF Client
    <3> QED
      BY <1>0, <2>4, <3>2, ZenonT(40) DEF WaitQueryable, WaitGiveUp, Answer, MaintTypes
  <2>5. CASE Register(t)
    <3>1. ttask[t] \in RegularTask
      BY <2>5 DEF Register, TasksAwaited, Works
    <3>2. PICK i \in Slot, c \in Client, g \in Segment :
            i = ttask[t].slot /\ c = ttask[t].client /\ g = ttask[t].seg
      BY <3>1, TaskFacts DEF Client
    <3>3. PICK P \in [Segment -> Nat] : pool' = [pool EXCEPT ![i] = P]
      <4>1. pool' = [pool EXCEPT ![i] =
                       [pool[i] EXCEPT ![g] = IF pool[i][g] = 0 THEN 1 ELSE pool[i][g]]]
        BY <1>0, <2>5, <3>2 DEF Register, MaintTypes
      <4>2. [pool[i] EXCEPT ![g] = IF pool[i][g] = 0 THEN 1 ELSE pool[i][g]] \in [Segment -> Nat]
        BY <1>0 DEF MaintTypes
      <4> QED
        BY <4>1, <4>2
    <3> QED
      BY <1>0, <2>5, <3>2, <3>3, SMTT(40) DEF Register, Answer, MaintTypes
  <2> QED
    BY <2>1, <2>2, <2>3, <2>4, <2>5 DEF ThreadStep
<1> QED
  BY <1>0, <1>1, <1>2 DEF TypeOK, SlotTypes, ClientTypes, WorkerTypes, MaintTypes

\* Every step keeps the types.
LEMMA TypeStep ==
    ASSUME LifeInv, Next
    PROVE  TypeOK'
<1>1. TypeOK /\ SlotLife /\ Recovering /\ TasksAwaited
  BY DEF LifeInv
<1>2. ASSUME NEW p \in Backend,
             (\E x \in Index : Resolve(p, x)) \/ BackendStep(p) \/ LoadError(p)
      PROVE  TypeOK'
  BY <1>1, <1>2, BackendTypes
<1>3. CASE WorkerStep \/ RecoverStep \/ WorkerDie
  BY <1>1, <1>3, RecoveryTypes
<1>4. CASE FlushStep
  BY <1>1, <1>4, FlushTypes
<1>5. ASSUME NEW t \in Thread, ThreadStep(t) PROVE TypeOK'
  BY <1>1, <1>5, ThreadTypes
<1> QED
  BY <1>2, <1>3, <1>4, <1>5 DEF Next

-----------------------------------------------------------------------------
(* The life of a slot.                                                     *)

\* What a step of a backend may do to the state of a slot.
LEMMA BackendSlots ==
    ASSUME TypeOK, SlotLife, Recovering, NEW p \in Backend,
           \/ \E x \in Index : Resolve(p, x)
           \/ BackendStep(p) \/ LoadError(p)
    PROVE  /\ \A i \in Slot : valid'[i] # valid[i] =>
                \/ valid[i] = "FREE" /\ valid'[i] = "RECOVERING"
                \/ ~worker_up /\ valid[i] = "RECOVERING" /\ valid'[i] = "FREE"
                \/ i = slot[p] /\ pc[p] = "have" /\ valid[i] = "WRITABLE"
                   /\ valid'[i] = "LOADING_INDEX" /\ pc'[p] = "loader"
                \/ i = slot[p] /\ pc[p] = "loader" /\ valid'[i] = "WRITABLE" /\ pc'[p] = "idle"
                \/ i = slot[p] /\ pc[p] = "loading" /\ valid'[i] = "QUERYABLE"
                   /\ pc'[p] = "search"
           /\ \A i \in Slot : indexRelId'[i] # indexRelId[i] =>
                i = slot[p] /\ pc[p] = "label" /\ indexRelId'[i] = want[p]
           /\ \A q \in Backend \ {p} :
                pc'[q] = pc[q] /\ want'[q] = want[q] /\ slot'[q] = slot[q]
           /\ UNCHANGED <<wpc, worker_up, rslot, rrel, fpc, fseg>>
<1>0. SlotTypes /\ ClientTypes
  BY Types
<1>1. CASE \E x \in Index : Resolve(p, x)
  BY <1>0, <1>1 DEF Resolve, SlotTypes, ClientTypes
<1>2. CASE ClaimFound(p)
  BY <1>0, <1>2 DEF ClaimFound, SlotTypes, ClientTypes
<1>3. CASE ClaimFree(p)
  <2>1. CASE FreeSlots = {}
    BY <1>0, <1>3, <2>1 DEF ClaimFree, Return, SlotTypes, ClientTypes
  <2>2. CASE FreeSlots # {}
    <3>1. PICK i \in Slot : i = Min(FreeSlots) /\ valid[i] = "FREE"
      BY <2>2, FirstSlot DEF FreeSlots
    <3> QED
      BY <1>0, <1>3, <2>2, <3>1 DEF ClaimFree, SlotTypes, ClientTypes
  <2> QED
    BY <2>1, <2>2
<1>4. CASE ClaimLabel(p) \/ ClaimSignal(p) \/ Waited(p) \/ EnsureLoaded(p) \/ LoadWaited(p)
           \/ Search(p)
  BY <1>0, <1>4 DEF ClaimLabel, ClaimSignal, Waited, EnsureLoaded, LoadWaited, Search, Goto,
                    Return, SlotTypes, ClientTypes
<1>5. CASE ClaimReset(p)
  <2>1. valid[slot[p]] = "RECOVERING"
    BY <1>5 DEF ClaimReset, Recovering, Claiming
  <2> QED
    BY <1>0, <1>5, <2>1 DEF ClaimReset, Return, SlotTypes, ClientTypes
<1>6. CASE WinLoad(p) \/ LoadError(p) \/ LoadSubmit(p) \/ LoadPublish(p)
  BY <1>0, <1>6 DEF WinLoad, LoadError, LoadSubmit, LoadPublish, Goto, Return, SlotTypes,
                    ClientTypes
<1>7. CASE Write(p)
  BY <1>0, <1>7 DEF Write, Return, SlotTypes, ClientTypes
<1> QED
  BY <1>1, <1>2, <1>3, <1>4, <1>5, <1>6, <1>7 DEF BackendStep

\* Where a step of a backend leads it.
LEMMA BackendPath ==
    ASSUME TypeOK, SlotLife, NEW p \in Backend,
           \/ \E x \in Index : Resolve(p, x)
           \/ BackendStep(p) \/ LoadError(p)
    PROVE  /\ pc'[p] # "idle" => want'[p] # NoIndex
           /\ pc'[p] \in Holding =>
                \/ pc[p] \in Holding /\ slot'[p] = slot[p]
                \/ pc'[p] = "have" /\ is_writable(valid'[slot'[p]])
           /\ pc'[p] \in Loading =>
                /\ slot'[p] = slot[p] /\ valid'[slot[p]] = "LOADING_INDEX"
                /\ pc[p] \in Loading \/ valid[slot[p]] = "WRITABLE"
<1>0. SlotTypes /\ ClientTypes
  BY Types
<1>1. CASE \E x \in Index : Resolve(p, x)
  <2>1. PICK x \in Index : Resolve(p, x)
    BY <1>1
  <2>2. CASE SlotsOf(x) = {}
    BY <1>0, <2>1, <2>2, SlotsAssumption DEF Resolve, SlotTypes, ClientTypes, Holding, Loading
  <2>3. CASE SlotsOf(x) # {}
    <3>1. PICK i \in Slot : i = Min(SlotsOf(x))
      BY <2>3, FirstSlot DEF SlotsOf
    <3> QED
      BY <1>0, <2>1, <2>3, <3>1, SlotsAssumption DEF Resolve, SlotTypes, ClientTypes, Holding,
                                                     Loading
  <2> QED
    BY <2>2, <2>3
<1>2. CASE ClaimFound(p)
  <2>1. PICK i \in Slot : i = Min(SlotsOf(want[p]))
    BY <1>2, FirstSlot DEF SlotsOf, ClaimFound
  <2> QED
    BY <1>0, <1>2, <2>1 DEF ClaimFound, SlotLife, SlotTypes, ClientTypes, Holding, Loading
<1>3. CASE ClaimFree(p)
  BY <1>0, <1>3 DEF ClaimFree, Return, SlotLife, SlotTypes, ClientTypes, Holding, Loading
<1>4. CASE ClaimLabel(p) \/ ClaimSignal(p) \/ Waited(p) \/ EnsureLoaded(p) \/ LoadWaited(p)
           \/ Search(p)
  BY <1>0, <1>4 DEF ClaimLabel, ClaimSignal, Waited, EnsureLoaded, LoadWaited, Search, Goto,
                    Return, SlotLife, SlotTypes, ClientTypes, Holding, Loading
<1>5. CASE ClaimReset(p) \/ Write(p)
  BY <1>0, <1>5 DEF ClaimReset, Write, Return, SlotTypes, ClientTypes, Holding, Loading
<1>6. CASE WinLoad(p) \/ LoadError(p) \/ LoadSubmit(p) \/ LoadPublish(p)
  BY <1>0, <1>6 DEF WinLoad, LoadError, LoadSubmit, LoadPublish, Goto, Return, SlotLife,
                    SlotTypes, ClientTypes, Holding, Loading
<1> QED
  BY <1>1, <1>2, <1>3, <1>4, <1>5, <1>6 DEF BackendStep

\* What a step of the recovery worker may do to a slot.
LEMMA RecoverySlots ==
    ASSUME TypeOK, Recovering, WorkerStep \/ RecoverStep \/ WorkerDie
    PROVE  /\ \A i \in Slot : valid'[i] # valid[i] =>
                /\ i = rslot /\ valid[i] = "RECOVERING" /\ wpc \in {"open", "recover"}
                /\ \/ valid'[i] = "WRITABLE" /\ wpc = "recover" /\ UNCHANGED indexRelId
                   \/ valid'[i] = "FREE"
           /\ \A i \in Slot : indexRelId'[i] # indexRelId[i] =>
                /\ i = rslot /\ wpc = "open" /\ valid[i] = "RECOVERING"
                /\ rrel \in Index /\ indexRelId'[i] = rrel
           /\ UNCHANGED <<clientVars, pool, flushVars, maintVars, diskVars>>
<1>0. SlotTypes /\ WorkerTypes
  BY Types
<1>1. CASE WorkerStart \/ WorkerWake \/ WorkerPick \/ WorkerScanned \/ WorkerDie
  BY <1>0, <1>1 DEF WorkerStart, WorkerWake, WorkerPick, WorkerScanned, WorkerDie
<1>2. CASE RecoverPublish
  BY <1>0, <1>2 DEF RecoverPublish, Recovering, SlotTypes, WorkerTypes
<1>3. CASE RecoverOpen
  BY <1>0, <1>3 DEF RecoverOpen, Recovering, SlotTypes, WorkerTypes
<1>4. CASE RecoverFail
  BY <1>0, <1>4 DEF RecoverFail, Recovering, SlotTypes, WorkerTypes
<1> QED
  BY <1>1, <1>2, <1>3, <1>4 DEF WorkerStep, RecoverStep

\* A writable slot stays writable.
LEMMA StaysWritable ==
    ASSUME LifeInv, Next
    PROVE  \A i \in Slot : is_writable(valid[i]) => is_writable(valid'[i])
<1>0. SlotTypes /\ ClientTypes /\ TypeOK /\ SlotLife /\ Recovering
  BY Types DEF LifeInv
<1>1. ASSUME NEW p \in Backend,
             (\E x \in Index : Resolve(p, x)) \/ BackendStep(p) \/ LoadError(p)
      PROVE  \A i \in Slot : is_writable(valid[i]) => is_writable(valid'[i])
  <2>1. \A i \in Slot : valid'[i] # valid[i] =>
          valid[i] \in {"FREE", "RECOVERING"} \/ is_writable(valid'[i])
    BY <1>0, <1>1, BackendSlots DEF is_writable
  <2> QED
    BY <1>0, <2>1, SlotFacts DEF SlotTypes
<1>2. CASE WorkerStep \/ RecoverStep \/ WorkerDie
  <2>1. \A i \in Slot : valid'[i] # valid[i] => valid[i] = "RECOVERING"
    BY <1>0, <1>2, RecoverySlots, Zenon
  <2> QED
    BY <1>0, <2>1, SlotFacts DEF SlotTypes
<1>3. CASE FlushStep \/ \E t \in Thread : ThreadStep(t)
  BY <1>3 DEF FlushStep, FlushWrite, FlushSend, FlushUnlink, ThreadStep, Take, LoadScan,
              LoadFill, WaitQueryable, WaitGiveUp, Register
<1> QED
  BY <1>1, <1>2, <1>3 DEF Next

\* What a step of the flusher or of a maintenance thread leaves alone.
LEMMA FlushFrame ==
    ASSUME FlushStep
    PROVE  /\ UNCHANGED <<lock, valid, state_error, indexRelId, freed, pool, status_sids>>
           /\ UNCHANGED <<clientVars, workerVars, tpc, ttask, tscan, gaveup>>
  BY DEF FlushStep, FlushWrite, FlushSend, FlushUnlink

\* The same for a maintenance thread.
LEMMA ThreadFrame ==
    ASSUME NEW t \in Thread, ThreadStep(t)
    PROVE  UNCHANGED <<slotVars, diskVars, clientVars, workerVars, flushVars>>
  BY DEF ThreadStep, Take, LoadScan, LoadFill, WaitQueryable, WaitGiveUp, Register

\* Every step keeps SlotLife: whoever loads a slot is the only one to change it.
LEMMA SlotLifeStep ==
    ASSUME LifeInv, Next
    PROVE  SlotLife'
<1>0. /\ SlotTypes /\ ClientTypes /\ MaintTypes /\ TypeOK /\ SlotLife /\ Recovering
      /\ SlotTypes' /\ ClientTypes'
  BY Types, TypeStep DEF LifeInv, TypeOK, SlotTypes, ClientTypes
<1>a. \A i \in Slot : is_writable(valid[i]) => is_writable(valid'[i])
  BY StaysWritable
<1>1. ASSUME NEW p \in Backend,
             (\E x \in Index : Resolve(p, x)) \/ BackendStep(p) \/ LoadError(p)
      PROVE  SlotLife'
  <2>1. /\ \A i \in Slot : valid'[i] # valid[i] =>
             \/ valid'[i] \in {"FREE", "RECOVERING"}
             \/ i = slot[p] /\ pc[p] \in Loading /\ pc'[p] \notin Loading
             \/ i = slot[p] /\ pc[p] = "have" /\ valid[i] = "WRITABLE"
        /\ \A i \in Slot : indexRelId'[i] # indexRelId[i] => indexRelId'[i] = want[p] /\ pc[p] # "idle"
        /\ \A q \in Backend \ {p} :
             pc'[q] = pc[q] /\ want'[q] = want[q] /\ slot'[q] = slot[q]
        /\ UNCHANGED <<fpc, fseg>>
    BY <1>0, <1>1, BackendSlots DEF Loading
  <2>2. /\ pc'[p] # "idle" => want'[p] # NoIndex
        /\ pc'[p] \in Holding =>
             \/ pc[p] \in Holding /\ slot'[p] = slot[p]
             \/ is_writable(valid'[slot'[p]])
        /\ pc'[p] \in Loading =>
             /\ slot'[p] = slot[p] /\ valid'[slot[p]] = "LOADING_INDEX"
             /\ pc[p] \in Loading \/ valid[slot[p]] = "WRITABLE"
    BY <1>0, <1>1, BackendPath
  <2>3. ASSUME NEW i \in Slot, is_writable(valid'[i]) PROVE indexRelId'[i] # NoIndex
    <3>1. CASE indexRelId'[i] # indexRelId[i]
      BY <1>0, <2>1, <3>1 DEF SlotLife
    <3>2. CASE indexRelId'[i] = indexRelId[i]
      <4>1. is_writable(valid[i])
        BY <1>0, <2>1, <2>3, SlotFacts DEF SlotTypes, ClientTypes, SlotLife, Holding, Loading
      <4> QED
        BY <1>0, <3>2, <4>1 DEF SlotLife
    <3> QED
      BY <3>1, <3>2
  <2>4. \A q \in Backend : pc'[q] # "idle" => want'[q] # NoIndex
    BY <1>0, <2>1, <2>2 DEF SlotLife
  <2>5. ASSUME NEW q \in Backend, pc'[q] \in Holding PROVE is_writable(valid'[slot'[q]])
    BY <1>0, <1>a, <2>1, <2>2, <2>5 DEF SlotLife, ClientTypes
  <2>6. ASSUME NEW q \in Backend, pc'[q] \in Loading PROVE valid'[slot'[q]] = "LOADING_INDEX"
    <3>1. CASE q = p
      BY <2>2, <2>6, <3>1
    <3>2. CASE q # p
      <4>1. /\ pc[q] \in Loading /\ slot'[q] = slot[q] /\ valid[slot[q]] = "LOADING_INDEX"
            /\ slot[q] \in Slot
        BY <1>0, <2>1, <2>6, <3>2 DEF SlotLife, ClientTypes
      <4>2. is_writable(valid'[slot[q]])
        BY <1>a, <4>1 DEF is_writable
      <4>3. CASE slot[q] = slot[p] /\ pc[p] \in Loading
        BY <1>0, <3>2, <4>1, <4>3 DEF SlotLife
      <4>4. CASE ~(slot[q] = slot[p] /\ pc[p] \in Loading)
        BY <2>1, <4>1, <4>2, <4>4 DEF is_writable
      <4> QED
        BY <4>3, <4>4
    <3> QED
      BY <3>1, <3>2
  <2>7. ASSUME NEW q \in Backend, NEW r \in Backend, pc'[q] \in Loading, pc'[r] \in Loading,
               slot'[q] = slot'[r]
        PROVE  q = r
    BY <1>0, <2>1, <2>2, <2>7 DEF SlotLife
  <2>8. fpc' # "idle" => fseg'.seg \in Segment /\ is_writable(valid'[fseg'.slot])
    BY <1>0, <1>a, <2>1 DEF SlotLife, MaintTypes
  <2> QED
    BY <2>3, <2>4, <2>5, <2>6, <2>7, <2>8 DEF SlotLife
<1>2. CASE WorkerStep \/ RecoverStep \/ WorkerDie
  <2>1. /\ \A i \in Slot : valid'[i] # valid[i] =>
             /\ valid[i] = "RECOVERING"
             /\ \/ indexRelId'[i] = indexRelId[i] /\ indexRelId[i] # NoIndex
                \/ valid'[i] = "FREE"
        /\ \A i \in Slot : indexRelId'[i] # indexRelId[i] => indexRelId'[i] \in Index
        /\ UNCHANGED <<clientVars, flushVars>>
    BY <1>0, <1>2, RecoverySlots DEF Recovering
  <2>2. \A i \in Slot : is_writable(valid'[i]) => indexRelId'[i] # NoIndex
    BY <1>0, <2>1, SlotFacts, SlotsAssumption DEF SlotLife, SlotTypes
  <2>3. \A q \in Backend : pc[q] \in Loading => valid'[slot[q]] = "LOADING_INDEX"
    BY <1>0, <2>1 DEF SlotLife, ClientTypes
  <2> QED
    BY <1>0, <1>a, <2>1, <2>2, <2>3 DEF SlotLife, ClientTypes, MaintTypes
<1>3. CASE FlushStep
  <2>1. UNCHANGED <<valid, indexRelId, pc, want, slot>>
    BY <1>3, FlushFrame
  <2>2. fpc' # "idle" => fseg'.seg \in Segment /\ is_writable(valid'[fseg'.slot])
    <3>1. ASSUME NEW i \in Slot, FlushWrite(i)
          PROVE  fseg'.seg \in Segment /\ is_writable(valid'[fseg'.slot])
      BY <1>0, <2>1, <3>1 DEF FlushWrite, Sealed, SlotTypes
    <3>2. CASE FlushSend \/ FlushUnlink
      BY <1>0, <2>1, <3>2 DEF FlushSend, FlushUnlink, SlotLife
    <3> QED
      BY <1>3, <3>1, <3>2 DEF FlushStep
  <2> QED
    BY <1>0, <2>1, <2>2 DEF SlotLife
<1>4. ASSUME NEW t \in Thread, ThreadStep(t) PROVE SlotLife'
  <2>1. UNCHANGED <<valid, indexRelId, pc, want, slot, fpc, fseg>>
    BY <1>4, ThreadFrame
  <2> QED
    BY <1>0, <2>1 DEF SlotLife
<1> QED
  BY <1>1, <1>2, <1>3, <1>4 DEF Next

\* Every step keeps Recovering: a slot goes back to FREE through its claimer only
\* while no recovery worker has registered.
LEMMA RecoveringStep ==
    ASSUME LifeInv, Next
    PROVE  Recovering'
<1>0. /\ SlotTypes /\ ClientTypes /\ WorkerTypes /\ TypeOK /\ SlotLife /\ Recovering
      /\ SlotTypes' /\ ClientTypes' /\ WorkerTypes'
  BY Types, TypeStep DEF LifeInv, TypeOK, SlotTypes, ClientTypes, WorkerTypes
<1>1. ASSUME NEW p \in Backend,
             (\E x \in Index : Resolve(p, x)) \/ BackendStep(p) \/ LoadError(p)
      PROVE  Recovering'
  <2>1. /\ \A i \in Slot : valid[i] = "RECOVERING" =>
             \/ valid'[i] = "RECOVERING"
             \/ ~worker_up /\ valid'[i] = "FREE"
        /\ \A i \in Slot : indexRelId'[i] # indexRelId[i] =>
             pc[p] = "label" /\ indexRelId'[i] = want[p]
        /\ \A q \in Backend \ {p} : pc'[q] = pc[q] /\ slot'[q] = slot[q]
        /\ UNCHANGED <<wpc, worker_up, rslot, rrel>>
    BY <1>0, <1>1, BackendSlots DEF SlotLife, Holding, Loading, is_writable
  <2>2. /\ ~worker_up' => wpc' = "down"
        /\ wpc' \in {"open", "recover"} => worker_up' /\ valid'[rslot'] = "RECOVERING"
        /\ wpc' = "recover" => rrel' # NoIndex /\ indexRelId'[rslot'] # NoIndex
    BY <1>0, <2>1 DEF Recovering, SlotLife, WorkerTypes
  <2>3. ASSUME ~worker_up,
               NEW q \in Backend, pc'[q] \in Claiming
        PROVE  /\ valid'[slot'[q]] = "RECOVERING"
               /\ \A r \in Backend : pc'[r] \in Claiming /\ slot'[r] = slot'[q] => r = q
    <3>1. CASE ClaimFree(p) /\ FreeSlots # {}
      <4>1. PICK i \in Slot : i = Min(FreeSlots) /\ valid[i] = "FREE"
        BY <3>1, FirstSlot DEF FreeSlots
      <4>2. /\ valid'[i] = "RECOVERING" /\ slot'[p] = i /\ pc'[p] = "label"
            /\ \A j \in Slot \ {i} : valid'[j] = valid[j]
        BY <1>0, <3>1, <4>1 DEF ClaimFree, SlotTypes, ClientTypes
      <4>3. \A r \in Backend \ {p} : pc'[r] \in Claiming =>
              slot'[r] # i /\ slot'[r] \in Slot /\ valid'[slot'[r]] = "RECOVERING" /\ pc[r] \in Claiming
        BY <1>0, <2>1, <2>3, <4>1, <4>2 DEF Recovering, ClientTypes
      <4> QED
        BY <1>0, <2>1, <2>3, <4>1, <4>2, <4>3 DEF Recovering
    <3>2. CASE ClaimLabel(p)
      <4>1. pc'[p] = "signal" /\ pc[p] = "label" /\ UNCHANGED <<slot, valid>>
        BY <1>0, <3>2 DEF ClaimLabel, Goto, ClientTypes
      <4>2. \A r \in Backend : pc'[r] \in Claiming <=> pc[r] \in Claiming
        BY <2>1, <4>1 DEF Claiming
      <4> QED
        BY <1>0, <2>3, <4>1, <4>2 DEF Recovering
    <3>3. CASE ClaimReset(p)
      <4>1. /\ pc'[p] = "idle" /\ pc[p] = "signal"
            /\ \A i \in Slot \ {slot[p]} : valid'[i] = valid[i]
        BY <1>0, <3>3 DEF ClaimReset, Return, ClientTypes, SlotTypes
      <4>2. \A r \in Backend : pc'[r] \in Claiming =>
              r # p /\ pc[r] \in Claiming /\ slot'[r] = slot[r] /\ slot[r] # slot[p]
              /\ slot[r] \in Slot
        BY <1>0, <2>1, <2>3, <4>1 DEF Claiming, Recovering, ClientTypes
      <4> QED
        BY <1>0, <2>3, <4>1, <4>2 DEF Recovering
    <3>4. CASE ~(ClaimFree(p) /\ FreeSlots # {}) /\ ~ClaimLabel(p) /\ ~ClaimReset(p)
      <4>1. pc'[p] \notin Claiming
        BY <1>0, <1>1, <2>3, <3>4
           DEF BackendStep, Resolve, ClaimFound, ClaimFree, ClaimSignal, Waited, Write,
               EnsureLoaded, WinLoad, LoadError, LoadSubmit, LoadPublish, LoadWaited, Search, Goto,
               Return, ClientTypes, Claiming
      <4>2. \A i \in Slot : valid[i] = "RECOVERING" => valid'[i] = "RECOVERING"
        <5>1. CASE WinLoad(p) \/ LoadError(p) \/ LoadPublish(p)
          BY <1>0, <5>1, SMTT(40) DEF WinLoad, LoadError, LoadPublish, SlotTypes,
             ClientTypes, SlotLife,
                            Loading
        <5>2. CASE ~(WinLoad(p) \/ LoadError(p) \/ LoadPublish(p))
          BY <1>1, <3>4, <5>2 DEF BackendStep, Resolve, ClaimFound, ClaimFree, ClaimSignal,
                                  Waited, Write, EnsureLoaded, LoadSubmit, LoadWaited, Search
        <5> QED
          BY <5>1, <5>2
      <4> QED
        BY <1>0, <2>1, <2>3, <4>1, <4>2 DEF Recovering, ClientTypes
    <3> QED
      BY <3>1, <3>2, <3>3, <3>4
  <2> QED
    BY <2>1, <2>2, <2>3 DEF Recovering
<1>2. CASE WorkerStep \/ RecoverStep \/ WorkerDie
  <2>1. UNCHANGED <<pc, slot>>
    BY <1>0, <1>2, RecoverySlots
  <2>2. CASE WorkerPick
    <3>1. PICK i \in Slot : i = Min(Pending) /\ valid[i] = "RECOVERING"
      BY <2>2, FirstSlot DEF WorkerPick, Pending
    <3> QED
      BY <1>0, <2>1, <2>2, <3>1 DEF WorkerPick, Recovering
  <2>3. CASE WorkerStart \/ WorkerWake \/ WorkerScanned \/ WorkerDie
    BY <1>0, <2>1, <2>3 DEF WorkerStart, WorkerWake, WorkerScanned, WorkerDie, Recovering
  <2>4. CASE RecoverOpen \/ RecoverFail \/ RecoverPublish
    <3>1. worker_up /\ worker_up'
      BY <1>0, <2>4 DEF RecoverOpen, RecoverFail, RecoverPublish, ScanOn, Recovering
    <3> QED
      BY <1>0, <2>1, <2>4, <3>1, SlotsAssumption
         DEF RecoverOpen, RecoverFail, RecoverPublish, ScanOn, Recovering, SlotTypes, WorkerTypes
  <2> QED
    BY <1>2, <2>2, <2>3, <2>4 DEF WorkerStep, RecoverStep
<1>3. CASE FlushStep
  <2>1. UNCHANGED <<valid, indexRelId, pc, slot, wpc, worker_up, rslot, rrel>>
    BY <1>3, FlushFrame
  <2> QED
    BY <1>0, <2>1 DEF Recovering
<1>4. ASSUME NEW t \in Thread, ThreadStep(t) PROVE Recovering'
  <2>1. UNCHANGED <<valid, indexRelId, pc, slot, wpc, worker_up, rslot, rrel>>
    BY <1>4, ThreadFrame
  <2> QED
    BY <1>0, <2>1 DEF Recovering
<1> QED
  BY <1>1, <1>2, <1>3, <1>4 DEF Next

-----------------------------------------------------------------------------
(* The tasks of the maintenance pool.                                      *)

\* A queue with one more task.
LEMMA Appended ==
    ASSUME NEW S, NEW q \in Seq(S), NEW k \in S, NEW r, r = Append(q, k)
    PROVE  /\ r \in Seq(S)
           /\ \A j \in DOMAIN r : \/ j \in DOMAIN q /\ r[j] = q[j]
                                  \/ j = Len(q) + 1 /\ j \notin DOMAIN q /\ r[j] = k
  OBVIOUS

\* A queue without its first task.
LEMMA Shifted ==
    ASSUME NEW S, NEW q \in Seq(S), q # <<>>, NEW r, r = Tail(q)
    PROVE  /\ Head(q) \in S /\ 1 \in DOMAIN q /\ Head(q) = q[1]
           /\ \A j \in DOMAIN r : /\ j \in Nat /\ j + 1 \in DOMAIN q /\ r[j] = q[j + 1]
                                  /\ j + 1 # 1
  OBVIOUS

\* Task k is awaited after the step.
AwaitedNext(k) ==
    \/ /\ k \in LoadTask /\ pc'[k.client] = "loading" /\ k.slot = slot'[k.client]
       /\ ~maint_done'[k.client]
    \/ /\ k \in RegularTask /\ fpc' = "wait" /\ k.slot = fseg'.slot /\ k.seg = fseg'.seg
       /\ ~maint_done'[Flusher]

\* As long as the tasks stay where they are, and are awaited, so is all of them.
LEMMA TasksStay ==
    ASSUME TypeOK, TasksAwaited, UNCHANGED <<queue, tpc, ttask>>,
           \A k \in LoadTask \cup RegularTask : Awaited(k) => AwaitedNext(k)
    PROVE  TasksAwaited'
<1>1. MaintTypes
  BY Types
<1>2. \A j \in DOMAIN queue : AwaitedNext(queue[j])
  BY <1>1 DEF MaintTypes, TasksAwaited
<1>3. \A t \in Thread : Works(t) =>
        /\ AwaitedNext(ttask[t])
        /\ IF tpc[t] \in {"load", "fill"} THEN ttask[t] \in LoadTask ELSE ttask[t] \in RegularTask
  BY DEF TasksAwaited, Awaited
<1> QED
  BY <1>2, <1>3 DEF TasksAwaited, Awaited, AwaitedNext, Works

\* A client sends a task, waiting for none.
LEMMA TaskAdded ==
    ASSUME TypeOK, TasksAwaited, UNCHANGED <<tpc, ttask>>,
           NEW k \in LoadTask \cup RegularTask, queue' = Append(queue, k),
           AwaitedNext(k),
           \A h \in LoadTask \cup RegularTask :
             Awaited(h) => AwaitedNext(h) /\ h.client # k.client
    PROVE  TasksAwaited'
<1>1. MaintTypes
  BY Types
<1>2. \A j \in DOMAIN queue' : \/ j \in DOMAIN queue /\ queue'[j] = queue[j]
                               \/ j = Len(queue) + 1 /\ queue'[j] = k
  BY <1>1, Appended DEF MaintTypes
<1>3. \A j \in DOMAIN queue : AwaitedNext(queue[j]) /\ queue[j].client # k.client
  BY <1>1 DEF MaintTypes, TasksAwaited
<1>4. \A t \in Thread : Works(t) =>
        /\ AwaitedNext(ttask[t]) /\ ttask[t].client # k.client
        /\ IF tpc[t] \in {"load", "fill"} THEN ttask[t] \in LoadTask ELSE ttask[t] \in RegularTask
  BY DEF TasksAwaited, Awaited
<1>5. \A j \in DOMAIN queue' : AwaitedNext(queue'[j])
  BY <1>2, <1>3
<1>6. \A i, j \in DOMAIN queue' : queue'[i].client = queue'[j].client => i = j
  BY <1>2, <1>3 DEF TasksAwaited
<1>7. \A j \in DOMAIN queue' : \A t \in Thread :
        Works(t) => queue'[j].client # ttask[t].client
  BY <1>2, <1>4 DEF TasksAwaited
<1> QED
  BY <1>4, <1>5, <1>6, <1>7 DEF TasksAwaited, Awaited, AwaitedNext, Works

\* A thread that works answers its task, and only its client learns of it.
LEMMA TaskAnswered ==
    ASSUME TypeOK, TasksAwaited, UNCHANGED <<pc, slot, fpc, fseg, queue>>,
           NEW t \in Thread, Works(t), Answer(t)
    PROVE  TasksAwaited'
<1>1. MaintTypes
  BY Types
<1>2. PICK c \in Client : c = ttask[t].client
  BY TaskFacts DEF TasksAwaited, Awaited, Client
<1>3. /\ \A b \in Client \ {c} : maint_done'[b] = maint_done[b]
      /\ tpc'[t] = "idle"
      /\ \A u \in Thread \ {t} : tpc'[u] = tpc[u] /\ ttask'[u] = ttask[u]
  BY <1>1, <1>2 DEF Answer, MaintTypes
<1>4. \A h \in LoadTask \cup RegularTask : Awaited(h) /\ h.client # c => AwaitedNext(h)
  BY <1>3, TaskFacts DEF Awaited, AwaitedNext, Client
<1>5. \A j \in DOMAIN queue : AwaitedNext(queue[j])
  BY <1>1, <1>2, <1>4 DEF MaintTypes, TasksAwaited
<1>6. \A u \in Thread \ {t} : Works(u) =>
        /\ AwaitedNext(ttask[u])
        /\ IF tpc[u] \in {"load", "fill"} THEN ttask[u] \in LoadTask ELSE ttask[u] \in RegularTask
  <2>1. \A u \in Thread \ {t} : Works(u) => /\ ttask[u].client # c /\ Awaited(ttask[u])
                                            /\ ttask[u] \in LoadTask \cup RegularTask
    BY <1>2 DEF TasksAwaited
  <2> QED
    BY <1>4, <2>1 DEF TasksAwaited
<1>7. \A u \in Thread : tpc'[u] # "idle" =>
        u # t /\ Works(u) /\ tpc'[u] = tpc[u] /\ ttask'[u] = ttask[u]
  BY <1>3 DEF Works
<1> QED
  BY <1>5, <1>6, <1>7 DEF TasksAwaited, Awaited, AwaitedNext, Works

\* A thread takes the task at the head of the queue.
LEMMA TaskTaken ==
    ASSUME TypeOK, TasksAwaited, NEW t \in Thread, Take(t)
    PROVE  TasksAwaited'
<1>1. MaintTypes
  BY Types
<1>2. queue # <<>> /\ queue' = Tail(queue) /\ tpc[t] = "idle"
  BY DEF Take
<1>3. PICK k \in LoadTask \cup RegularTask :
        /\ k = Head(queue) /\ 1 \in DOMAIN queue /\ k = queue[1]
        /\ \A j \in DOMAIN queue' : /\ j \in Nat /\ j + 1 \in DOMAIN queue
                                    /\ queue'[j] = queue[j + 1] /\ j + 1 # 1
  BY <1>1, <1>2, Shifted DEF MaintTypes
<1>4. /\ ttask'[t] = k /\ tpc'[t] = k.type
      /\ \A u \in Thread \ {t} : tpc'[u] = tpc[u] /\ ttask'[u] = ttask[u]
      /\ UNCHANGED <<pc, slot, fpc, fseg, maint_done>>
  BY <1>1, <1>3 DEF Take, MaintTypes
<1>5. /\ \A j \in DOMAIN queue : AwaitedNext(queue[j])
      /\ \A u \in Thread : Works(u) => AwaitedNext(ttask[u])
  BY <1>4 DEF TasksAwaited, Awaited, AwaitedNext
<1>6. AwaitedNext(k)
  BY <1>3, <1>5
<1>7. IF k.type \in {"load", "fill"} THEN k \in LoadTask ELSE k \in RegularTask
  BY TaskFacts
<1>8. \A j \in DOMAIN queue' : AwaitedNext(queue'[j]) /\ queue'[j].client # k.client
  BY <1>3, <1>5 DEF TasksAwaited
<1>9. \A i, j \in DOMAIN queue' : queue'[i].client = queue'[j].client => i = j
  <2>1. SUFFICES ASSUME NEW i \in DOMAIN queue', NEW j \in DOMAIN queue',
                        queue'[i].client = queue'[j].client
                 PROVE  i = j
    OBVIOUS
  <2>2. i + 1 = j + 1
    BY <1>3, <2>1 DEF TasksAwaited
  <2> QED
    BY <1>3, <2>2
<1>10. \A u \in Thread \ {t} : Works(u) => ttask[u].client # k.client
  BY <1>3 DEF TasksAwaited
<1>11. \A j \in DOMAIN queue' : \A u \in Thread \ {t} :
         Works(u) => queue'[j].client # ttask[u].client
  BY <1>3 DEF TasksAwaited
<1>12. \A u \in Thread : tpc'[u] # "idle" =>
         u = t \/ (u # t /\ Works(u) /\ tpc'[u] = tpc[u] /\ ttask'[u] = ttask[u])
  BY <1>4 DEF Works
<1>13. \A u \in Thread : tpc'[u] # "idle" =>
         /\ AwaitedNext(ttask'[u])
         /\ IF tpc'[u] \in {"load", "fill"} THEN ttask'[u] \in LoadTask
                                            ELSE ttask'[u] \in RegularTask
  BY <1>4, <1>5, <1>6, <1>7, <1>12 DEF TasksAwaited
<1>14. \A j \in DOMAIN queue' : \A u \in Thread :
         tpc'[u] # "idle" => queue'[j].client # ttask'[u].client
  BY <1>4, <1>8, <1>11, <1>12
<1>15. \A u, w \in Thread :
         tpc'[u] # "idle" /\ tpc'[w] # "idle" /\ ttask'[u].client = ttask'[w].client => u = w
  BY <1>4, <1>10, <1>12 DEF TasksAwaited
<1> QED
  BY <1>8, <1>9, <1>13, <1>14, <1>15 DEF TasksAwaited, Awaited, AwaitedNext, Works

\* Every step keeps the tasks awaited.
LEMMA TasksStep ==
    ASSUME LifeInv, Next
    PROVE  TasksAwaited'
<1>0. SlotTypes /\ ClientTypes /\ MaintTypes /\ TypeOK /\ SlotLife /\ Recovering /\ TasksAwaited
  BY Types DEF LifeInv
<1>1. ASSUME NEW p \in Backend,
             (\E x \in Index : Resolve(p, x)) \/ BackendStep(p) \/ LoadError(p)
      PROVE  TasksAwaited'
  <2>1. /\ \A q \in Backend \ {p} : pc'[q] = pc[q] /\ slot'[q] = slot[q]
        /\ UNCHANGED <<fpc, fseg>>
    BY <1>0, <1>1, BackendSlots
  <2>2. CASE LoadSubmit(p)
    <3>1. indexRelId[slot[p]] \in Index /\ slot[p] \in Slot
      BY <1>0, <2>2 DEF LoadSubmit, SlotLife, SlotTypes, ClientTypes, Holding
    <3>2. PICK k \in LoadTask : /\ queue' = Append(queue, k) /\ k.client = p /\ k.slot = slot[p]
      BY <2>2, <3>1 DEF LoadSubmit, LoadTask
    <3>3. /\ pc'[p] = "loading" /\ slot' = slot /\ maint_done'[p] = FALSE
          /\ \A c \in Client \ {p} : maint_done'[c] = maint_done[c]
          /\ UNCHANGED <<tpc, ttask>>
      BY <1>0, <2>2 DEF LoadSubmit, Goto, ClientTypes, MaintTypes, Client
    <3>4. AwaitedNext(k)
      BY <3>2, <3>3 DEF AwaitedNext
    <3>5. \A h \in LoadTask \cup RegularTask : Awaited(h) => AwaitedNext(h) /\ h.client # k.client
      BY <2>1, <2>2, <3>2, <3>3, TaskFacts DEF LoadSubmit, Awaited, AwaitedNext, Client
    <3> QED
      BY <1>0, <3>2, <3>3, <3>4, <3>5, TaskAdded
  <2>3. CASE ~LoadSubmit(p)
    <3>1. UNCHANGED <<queue, tpc, ttask, maint_done>>
      BY <1>1, <2>3
         DEF BackendStep, Resolve, ClaimFound, ClaimFree, ClaimLabel, ClaimSignal, ClaimReset,
             Waited, Write, EnsureLoaded, WinLoad, LoadError, LoadPublish, LoadWaited, Search
    <3>2. pc[p] = "loading" => maint_done[p]
      BY <1>1, <2>3
         DEF BackendStep, Resolve, ClaimFound, ClaimFree, ClaimLabel, ClaimSignal, ClaimReset,
             Waited, Write, EnsureLoaded, WinLoad, LoadError, LoadPublish, LoadWaited, Search
    <3>3. \A h \in LoadTask \cup RegularTask : Awaited(h) => AwaitedNext(h)
      BY <2>1, <3>1, <3>2, TaskFacts DEF Awaited, AwaitedNext
    <3> QED
      BY <1>0, <3>1, <3>3, TasksStay
  <2> QED
    BY <2>2, <2>3
<1>2. CASE WorkerStep \/ RecoverStep \/ WorkerDie
  <2>1. UNCHANGED <<pc, slot, fpc, fseg, queue, tpc, ttask, maint_done>>
    BY <1>0, <1>2, RecoverySlots
  <2>2. \A h \in LoadTask \cup RegularTask : Awaited(h) => AwaitedNext(h)
    BY <2>1 DEF Awaited, AwaitedNext
  <2> QED
    BY <1>0, <2>1, <2>2, TasksStay
<1>3. CASE FlushStep
  <2>1. UNCHANGED <<pc, slot, tpc, ttask>>
    BY <1>3, FlushFrame
  <2>2. CASE FlushSend
    <3>1. fseg.slot \in Slot /\ fseg.seg \in Segment /\ fseg' = fseg
      BY <1>0, <2>2 DEF FlushSend, SlotLife, MaintTypes
    <3>2. PICK k \in RegularTask : /\ queue' = Append(queue, k) /\ k.client = Flusher
                                   /\ k.slot = fseg.slot /\ k.seg = fseg.seg
      BY <2>2, <3>1 DEF FlushSend, RegularTask
    <3>3. /\ fpc' = "wait" /\ maint_done'[Flusher] = FALSE
          /\ \A c \in Client \ {Flusher} : maint_done'[c] = maint_done[c]
      BY <1>0, <2>2 DEF FlushSend, MaintTypes, Client
    <3>4. AwaitedNext(k)
      BY <3>1, <3>2, <3>3 DEF AwaitedNext
    <3>5. \A h \in LoadTask \cup RegularTask : Awaited(h) => AwaitedNext(h) /\ h.client # k.client
      BY <2>1, <2>2, <3>2, <3>3, TaskFacts DEF FlushSend, Awaited, AwaitedNext, Client
    <3> QED
      BY <1>0, <2>1, <3>2, <3>4, <3>5, TaskAdded
  <2>3. CASE (\E i \in Slot : FlushWrite(i)) \/ FlushUnlink
    <3>1. UNCHANGED <<queue, maint_done>> /\ (fpc = "wait" => maint_done[Flusher])
      BY <2>3 DEF FlushWrite, FlushUnlink
    <3>2. \A h \in LoadTask \cup RegularTask : Awaited(h) => AwaitedNext(h)
      BY <2>1, <3>1 DEF Awaited, AwaitedNext
    <3> QED
      BY <1>0, <2>1, <3>1, <3>2, TasksStay
  <2> QED
    BY <1>3, <2>2, <2>3 DEF FlushStep
<1>4. ASSUME NEW t \in Thread, ThreadStep(t) PROVE TasksAwaited'
  <2>1. UNCHANGED <<pc, slot, fpc, fseg>>
    BY <1>4, ThreadFrame
  <2>2. CASE Take(t)
    BY <1>0, <2>2, TaskTaken
  <2>3. CASE LoadScan(t) \/ (WaitQueryable(t) /\ valid[ttask[t].slot] = "QUERYABLE")
    <3>1. /\ UNCHANGED <<queue, ttask, maint_done>>
          /\ \A u \in Thread \ {t} : tpc'[u] = tpc[u]
          /\ tpc[t] # "idle" /\ tpc'[t] # "idle"
          /\ tpc[t] \in {"load", "fill"} <=> tpc'[t] \in {"load", "fill"}
      BY <1>0, <2>3 DEF LoadScan, WaitQueryable, MaintTypes
    <3>2. \A u \in Thread : /\ tpc'[u] # "idle" <=> tpc[u] # "idle"
                            /\ tpc'[u] \in {"load", "fill"} <=> tpc[u] \in {"load", "fill"}
      BY <3>1
    <3> QED
      BY <1>0, <2>1, <3>1, <3>2 DEF TasksAwaited, Awaited, Works
  <2>4. CASE \/ LoadFill(t) \/ WaitGiveUp(t) \/ Register(t)
             \/ (WaitQueryable(t) /\ valid[ttask[t].slot] # "QUERYABLE")
    <3>1. Works(t) /\ Answer(t) /\ UNCHANGED queue
      BY <2>4 DEF LoadFill, WaitGiveUp, Register, WaitQueryable, Works
    <3> QED
      BY <1>0, <2>1, <3>1, TaskAnswered
  <2> QED
    BY <1>4, <2>2, <2>3, <2>4 DEF ThreadStep
<1> QED
  BY <1>1, <1>2, <1>3, <1>4 DEF Next

-----------------------------------------------------------------------------
(* The pool of a slot.                                                     *)

\* The slot a thread loads is LOADING_INDEX, and no other thread loads it.
LEMMA Filling ==
    ASSUME TypeOK, SlotLife, TasksAwaited,
           NEW t \in Thread, tpc[t] \in {"load", "fill"}
    PROVE  /\ ttask[t] \in LoadTask /\ ttask[t].slot \in Slot
           /\ ttask[t].client \in Backend /\ pc[ttask[t].client] = "loading"
           /\ slot[ttask[t].client] = ttask[t].slot /\ ~maint_done[ttask[t].client]
           /\ valid[ttask[t].slot] = "LOADING_INDEX"
           /\ \A u \in Thread : tpc[u] \in {"load", "fill"} /\ ttask[u].slot = ttask[t].slot
                                  => u = t
<1>1. ASSUME NEW u \in Thread, tpc[u] \in {"load", "fill"}
      PROVE  /\ ttask[u] \in LoadTask /\ ttask[u].slot \in Slot
             /\ ttask[u].client \in Backend /\ pc[ttask[u].client] = "loading"
             /\ slot[ttask[u].client] = ttask[u].slot /\ ~maint_done[ttask[u].client]
             /\ valid[ttask[u].slot] = "LOADING_INDEX" /\ Works(u)
  <2>1. Works(u) /\ ttask[u] \in LoadTask /\ Awaited(ttask[u])
    BY <1>1 DEF TasksAwaited, Works
  <2>2. /\ ttask[u].slot \in Slot /\ ttask[u].client \in Backend /\ ttask[u] \notin RegularTask
    BY <2>1, TaskFacts
  <2>3. /\ pc[ttask[u].client] = "loading" /\ slot[ttask[u].client] = ttask[u].slot
        /\ ~maint_done[ttask[u].client]
    BY <2>1, <2>2 DEF Awaited
  <2> QED
    BY <2>1, <2>2, <2>3 DEF SlotLife, Loading
<1>2. ASSUME NEW u \in Thread, tpc[u] \in {"load", "fill"}, ttask[u].slot = ttask[t].slot
      PROVE  u = t
  <2>1. ttask[u].client = ttask[t].client
    BY <1>1, <1>2 DEF SlotLife, Loading
  <2> QED
    BY <1>1, <1>2, <2>1 DEF TasksAwaited
<1> QED
  BY <1>1, <1>2

\* A slot that is QUERYABLE stays so.
LEMMA StaysQueryable ==
    ASSUME LifeInv, Next
    PROVE  \A i \in Slot : valid[i] = "QUERYABLE" => valid'[i] = "QUERYABLE"
<1>0. SlotTypes /\ ClientTypes /\ TypeOK /\ SlotLife /\ Recovering
  BY Types DEF LifeInv
<1>1. ASSUME NEW p \in Backend,
             (\E x \in Index : Resolve(p, x)) \/ BackendStep(p) \/ LoadError(p)
      PROVE  \A i \in Slot : valid[i] = "QUERYABLE" => valid'[i] = "QUERYABLE"
  <2>1. \A i \in Slot : valid'[i] # valid[i] =>
          \/ valid[i] \in {"FREE", "RECOVERING", "WRITABLE"}
          \/ i = slot[p] /\ pc[p] \in Loading
    BY <1>0, <1>1, BackendSlots DEF Loading
  <2> QED
    BY <1>0, <2>1 DEF SlotLife
<1>2. CASE WorkerStep \/ RecoverStep \/ WorkerDie
  BY <1>0, <1>2, RecoverySlots
<1>3. CASE FlushStep
  BY <1>3, FlushFrame
<1>4. ASSUME NEW t \in Thread, ThreadStep(t)
      PROVE  \A i \in Slot : valid[i] = "QUERYABLE" => valid'[i] = "QUERYABLE"
  BY <1>4, ThreadFrame
<1> QED
  BY <1>1, <1>2, <1>3, <1>4 DEF Next

\* What the scan of a load does to the pool, segment by segment.
LEMMA ScanPool ==
    ASSUME TypeOK, SlotLife, TasksAwaited, NEW t \in Thread, LoadScan(t)
    PROVE  /\ \A i \in Slot : \A g \in Segment :
                pool'[i][g] = IF i = ttask[t].slot THEN 0 ELSE pool[i][g]
           /\ tpc'[t] = "fill" /\ \A u \in Thread \ {t} : tpc'[u] = tpc[u] /\ tscan'[u] = tscan[u]
           /\ tscan'[t] = {ttask[t].rel} \X files[ttask[t].rel]
           /\ UNCHANGED <<ttask, maint_done, gaveup, queue>>
<1>1. MaintTypes
  BY Types
<1>2. PICK k \in Slot : k = ttask[t].slot
  BY Filling DEF LoadScan
<1> QED
  BY <1>1, <1>2 DEF LoadScan, MaintTypes

\* The same for the end of a load.
LEMMA FillPool ==
    ASSUME TypeOK, SlotLife, TasksAwaited, NEW t \in Thread, LoadFill(t)
    PROVE  /\ \A i \in Slot : \A g \in Segment :
                pool'[i][g] = pool[i][g] + (IF i = ttask[t].slot /\ g \in tscan[t] THEN 1 ELSE 0)
           /\ tpc'[t] = "idle"
           /\ \A u \in Thread \ {t} :
                tpc'[u] = tpc[u] /\ tscan'[u] = tscan[u] /\ ttask'[u] = ttask[u]
           /\ \A c \in Client : maint_done'[c] = (maint_done[c] \/ c = ttask[t].client)
           /\ UNCHANGED <<gaveup, queue>>
<1>1. MaintTypes
  BY Types
<1>2. PICK k \in Slot, b \in Backend : k = ttask[t].slot /\ b = ttask[t].client
  BY Filling DEF LoadFill
<1>3. pool' = [pool EXCEPT ![k] =
                 [g \in Segment |-> pool[k][g] + (IF g \in tscan[t] THEN 1 ELSE 0)]]
  BY <1>1, <1>2 DEF LoadFill, MaintTypes
<1>4. ASSUME NEW i \in Slot, NEW g \in Segment
      PROVE  pool'[i][g] = pool[i][g] + (IF i = k /\ g \in tscan[t] THEN 1 ELSE 0)
  <2>1. pool[i][g] \in Nat
    BY <1>1 DEF MaintTypes
  <2> QED
    BY <1>1, <1>3, <2>1 DEF MaintTypes
<1>5. /\ tpc'[t] = "idle"
      /\ \A u \in Thread \ {t} :
           tpc'[u] = tpc[u] /\ tscan'[u] = tscan[u] /\ ttask'[u] = ttask[u]
      /\ UNCHANGED <<gaveup, queue>>
  BY <1>1 DEF LoadFill, Answer, MaintTypes
<1>6. /\ maint_done'[b] = TRUE
      /\ \A c \in Client \ {b} : maint_done'[c] = maint_done[c]
  BY <1>1, <1>2 DEF LoadFill, Answer, MaintTypes, Client
<1>7. \A c \in Client : maint_done[c] \in BOOLEAN
  BY <1>1 DEF MaintTypes
<1>8. \A c \in Client : maint_done'[c] = (maint_done[c] \/ c = b)
  BY <1>6, <1>7, Zenon
<1> QED
  BY <1>2, <1>4, <1>5, <1>8

\* The same for the registration of a flushed segment.
LEMMA RegisterPool ==
    ASSUME TypeOK, TasksAwaited, NEW t \in Thread, Register(t)
    PROVE  /\ ttask[t] \in RegularTask /\ ttask[t].slot = fseg.slot /\ ttask[t].seg = fseg.seg
           /\ fpc = "wait" /\ ttask[t].slot \in Slot /\ ttask[t].seg \in Segment
           /\ \A i \in Slot : \A g \in Segment :
                pool'[i][g] = IF i = ttask[t].slot /\ g = ttask[t].seg /\ pool[i][g] = 0
                                THEN 1 ELSE pool[i][g]
           /\ tpc'[t] = "idle"
           /\ \A u \in Thread \ {t} : tpc'[u] = tpc[u] /\ ttask'[u] = ttask[u]
           /\ \A b \in Backend : maint_done'[b] = maint_done[b]
           /\ UNCHANGED <<tscan, gaveup, queue>>
<1>1. MaintTypes
  BY Types
<1>2. ttask[t] \in RegularTask /\ Awaited(ttask[t])
  BY DEF Register, TasksAwaited, Works
<1>3. /\ ttask[t].slot = fseg.slot /\ ttask[t].seg = fseg.seg /\ fpc = "wait"
      /\ ttask[t].client = Flusher
  BY <1>2, TaskFacts DEF Awaited
<1>4. PICK k \in Slot, s \in Segment : k = ttask[t].slot /\ s = ttask[t].seg
  BY <1>2, TaskFacts
<1>5. pool' = [pool EXCEPT ![k] =
                 [pool[k] EXCEPT ![s] = IF pool[k][s] = 0 THEN 1 ELSE pool[k][s]]]
  BY <1>1, <1>4 DEF Register, MaintTypes
<1>6. \A i \in Slot : \A g \in Segment :
        pool'[i][g] = IF i = k /\ g = s /\ pool[i][g] = 0 THEN 1 ELSE pool[i][g]
  BY <1>1, <1>5 DEF MaintTypes
<1>7. /\ tpc'[t] = "idle"
      /\ \A u \in Thread \ {t} : tpc'[u] = tpc[u] /\ ttask'[u] = ttask[u]
      /\ \A b \in Backend : maint_done'[b] = maint_done[b]
      /\ UNCHANGED <<tscan, gaveup, queue>>
  BY <1>1, <1>3, TaskFacts DEF Register, Answer, MaintTypes, Client
<1> QED
  BY <1>2, <1>3, <1>4, <1>6, <1>7

\* Every step keeps PoolShape.
LEMMA PoolStep ==
    ASSUME LifeInv, Next
    PROVE  PoolShape'
<1>0. /\ SlotTypes /\ MaintTypes /\ TypeOK /\ SlotLife /\ Recovering /\ TasksAwaited /\ PoolShape
  BY Types DEF LifeInv
<1>a. \A i \in Slot : valid[i] = "QUERYABLE" => valid'[i] = "QUERYABLE"
  BY StaysQueryable
<1>b. \A t \in Thread : tpc[t] # "idle" => ttask[t].slot \in Slot
  BY <1>0, TaskFacts DEF TasksAwaited, Works
<1>1. CASE UNCHANGED <<pool, tpc, ttask>>
  BY <1>0, <1>1, <1>a, <1>b DEF PoolShape, NoDuplicate
<1>2. ASSUME NEW t \in Thread, ThreadStep(t) PROVE PoolShape'
  <2>0. UNCHANGED valid
    BY <1>2, ThreadFrame
  <2>1. CASE Take(t)
    <3>1. PICK k \in LoadTask \cup RegularTask : k = Head(queue)
      BY <1>0, <2>1 DEF Take, MaintTypes
    <3>2. k.type \in {"load", "regular"}
      BY TaskFacts
    <3>3. /\ tpc'[t] \in {"load", "regular"} /\ UNCHANGED pool
          /\ \A u \in Thread \ {t} : tpc'[u] = tpc[u] /\ ttask'[u] = ttask[u]
      BY <1>0, <2>1, <3>1, <3>2 DEF Take, MaintTypes
    <3> QED
      BY <1>0, <2>0, <3>3 DEF PoolShape, NoDuplicate
  <2>2. CASE LoadScan(t)
    <3>1. /\ \A i \in Slot : \A g \in Segment :
               pool'[i][g] = IF i = ttask[t].slot THEN 0 ELSE pool[i][g]
          /\ tpc'[t] = "fill" /\ \A u \in Thread \ {t} : tpc'[u] = tpc[u]
          /\ UNCHANGED ttask
      BY <1>0, <2>2, ScanPool
    <3>2. ASSUME NEW u \in Thread, tpc'[u] = "fill", NEW g \in Segment
          PROVE  pool'[ttask'[u].slot][g] = 0
      <4>1. tpc[u] # "idle"
        BY <2>2, <3>1, <3>2 DEF LoadScan
      <4>2. PICK i \in Slot : i = ttask[u].slot
        BY <1>b, <4>1
      <4>3. i = ttask[t].slot \/ (u # t /\ tpc[u] = "fill")
        BY <3>1, <3>2, <4>2
      <4>4. i = ttask[t].slot \/ pool[i][g] = 0
        BY <1>0, <4>2, <4>3 DEF PoolShape
      <4> QED
        BY <3>1, <4>2, <4>4
    <3>3. \A i \in Slot : \A g \in Segment : pool'[i][g] <= 1
      BY <1>0, <3>1 DEF PoolShape, NoDuplicate
    <3> QED
      BY <1>0, <2>0, <3>1, <3>2, <3>3 DEF PoolShape, NoDuplicate
  <2>3. CASE LoadFill(t)
    <3>1. /\ \A i \in Slot : \A g \in Segment :
               pool'[i][g] = pool[i][g] + (IF i = ttask[t].slot /\ g \in tscan[t] THEN 1 ELSE 0)
          /\ tpc'[t] = "idle"
          /\ \A u \in Thread \ {t} : tpc'[u] = tpc[u] /\ ttask'[u] = ttask[u]
      BY <1>0, <2>3, FillPool
    <3>2. \A i \in Slot : \A g \in Segment : pool[i][g] \in Nat
      BY <1>0 DEF MaintTypes
    <3>3. tpc[t] = "fill" /\ \A g \in Segment : pool[ttask[t].slot][g] = 0
      BY <1>0, <2>3 DEF LoadFill, PoolShape
    <3>4. \A i \in Slot : \A g \in Segment : pool'[i][g] <= 1
      BY <1>0, <3>1, <3>2, <3>3 DEF PoolShape, NoDuplicate
    <3>5. ASSUME NEW u \in Thread, tpc'[u] = "fill", NEW g \in Segment
          PROVE  pool'[ttask'[u].slot][g] = 0
      <4>1. u # t /\ tpc[u] = "fill" /\ ttask'[u] = ttask[u]
        BY <3>1, <3>5
      <4>2. ttask[u].slot # ttask[t].slot /\ ttask[u].slot \in Slot
        BY <1>0, <3>3, <4>1, Filling
      <4>3. pool[ttask[u].slot][g] = 0
        BY <1>0, <4>1 DEF PoolShape
      <4> QED
        BY <3>1, <4>1, <4>2, <4>3
    <3> QED
      BY <1>0, <2>0, <3>1, <3>4, <3>5 DEF PoolShape, NoDuplicate
  <2>4. CASE Register(t)
    <3>1. /\ \A i \in Slot : \A g \in Segment :
               pool'[i][g] = IF i = ttask[t].slot /\ g = ttask[t].seg /\ pool[i][g] = 0
                               THEN 1 ELSE pool[i][g]
          /\ tpc'[t] = "idle"
          /\ \A u \in Thread \ {t} : tpc'[u] = tpc[u] /\ ttask'[u] = ttask[u]
      BY <1>0, <2>4, RegisterPool
    <3>2. valid[ttask[t].slot] = "QUERYABLE"
      BY <1>0, <2>4 DEF Register, PoolShape
    <3>3. \A i \in Slot : \A g \in Segment : pool'[i][g] <= 1
      BY <1>0, <3>1 DEF PoolShape, NoDuplicate
    <3>4. ASSUME NEW u \in Thread, tpc'[u] = "fill", NEW g \in Segment
          PROVE  pool'[ttask'[u].slot][g] = 0
      <4>1. u # t /\ tpc[u] = "fill" /\ ttask'[u] = ttask[u]
        BY <3>1, <3>4
      <4>2. ttask[u].slot # ttask[t].slot /\ ttask[u].slot \in Slot
        BY <1>0, <3>2, <4>1, Filling
      <4>3. pool[ttask[u].slot][g] = 0
        BY <1>0, <4>1 DEF PoolShape
      <4> QED
        BY <3>1, <4>1, <4>2, <4>3
    <3> QED
      BY <1>0, <2>0, <3>1, <3>3, <3>4 DEF PoolShape, NoDuplicate
  <2>5. CASE WaitQueryable(t) \/ WaitGiveUp(t)
    <3>1. /\ UNCHANGED pool
          /\ \A u \in Thread \ {t} : tpc'[u] = tpc[u] /\ ttask'[u] = ttask[u]
          /\ \/ tpc'[t] = "idle"
             \/ tpc'[t] = "dedup" /\ ttask'[t] = ttask[t] /\ valid[ttask[t].slot] = "QUERYABLE"
      BY <1>0, <2>5 DEF WaitQueryable, WaitGiveUp, Answer, MaintTypes
    <3> QED
      BY <1>0, <2>0, <3>1 DEF PoolShape, NoDuplicate
  <2> QED
    BY <1>2, <2>1, <2>2, <2>3, <2>4, <2>5 DEF ThreadStep
<1>3. ASSUME NEW p \in Backend,
             (\E x \in Index : Resolve(p, x)) \/ BackendStep(p) \/ LoadError(p)
      PROVE  PoolShape'
  <2>1. UNCHANGED <<pool, tpc, ttask>>
    BY <1>3
       DEF BackendStep, Resolve, ClaimFound, ClaimFree, ClaimLabel, ClaimSignal, ClaimReset,
           Waited, Write, EnsureLoaded, WinLoad, LoadError, LoadSubmit, LoadPublish, LoadWaited,
           Search
  <2> QED
    BY <1>1, <2>1
<1>4. CASE WorkerStep \/ RecoverStep \/ WorkerDie
  BY <1>0, <1>1, <1>4, RecoverySlots
<1>5. CASE FlushStep
  BY <1>1, <1>5, FlushFrame
<1> QED
  BY <1>2, <1>3, <1>4, <1>5 DEF Next

-----------------------------------------------------------------------------
(* NoDuplicate.                                                            *)

\* The server has just started.
LEMMA LifeInit == Init => LifeInv
<1> SUFFICES ASSUME Init PROVE LifeInv
  OBVIOUS
<1>1. TypeOK
  <2>0. START_SEGMENT_ID \in Sid /\ START_SEGMENT_ID + 1 \in Sid
    BY SlotsAssumption DEF Sid, START_SEGMENT_ID
  <2>1. SlotTypes
    BY <2>0 DEF Init, SlotTypes, State
  <2>2. ClientTypes /\ WorkerTypes
    BY SlotFacts DEF Init, ClientTypes, WorkerTypes
  <2>3. MaintTypes
    BY SlotFacts DEF Init, MaintTypes, NoSegment
  <2> QED
    BY <2>1, <2>2, <2>3, Types
<1>2. SlotLife /\ Recovering
  BY DEF Init, SlotLife, Recovering, Holding, Loading, Claiming, is_writable
<1>3. TasksAwaited /\ PoolShape
  BY DEF Init, TasksAwaited, PoolShape, NoDuplicate, Works
<1> QED
  BY <1>1, <1>2, <1>3 DEF LifeInv

\* Every step keeps LifeInv.
LEMMA LifeStep ==
    ASSUME LifeInv, [Next]_vars
    PROVE  LifeInv'
<1>1. CASE Next
  BY <1>1, TypeStep, SlotLifeStep, RecoveringStep, TasksStep, PoolStep DEF LifeInv
<1>2. CASE UNCHANGED vars
  BY <1>2 DEF vars, LifeInv, TypeOK, SlotLife, Recovering, TasksAwaited, PoolShape, NoDuplicate,
              Awaited, Works
<1> QED
  BY <1>1, <1>2

\* No pool ever holds a segment twice, whatever the order of loads, flushes and
\* registrations: the dedup check of SEGMENT_UPDATE_REGULAR runs only on a slot
\* that is QUERYABLE, and no load refills a slot that has been.
THEOREM LoadedOnce == Spec => []NoDuplicate
<1>1. Init => LifeInv
  BY LifeInit
<1>2. LifeInv /\ [Next]_vars => LifeInv'
  BY LifeStep
<1>3. LifeInv => NoDuplicate
  BY DEF LifeInv, PoolShape
<1> QED
  BY <1>1, <1>2, <1>3, PTL DEF Spec

-----------------------------------------------------------------------------
(* SlotOwned.                                                              *)

\* What no step with freed' = FALSE does: none has freed a slot before, and none
\* resets one now.
LEMMA NothingFreed ==
    ASSUME LifeInv, Next, ~freed'
    PROVE  /\ ~freed /\ ~RecoverFail /\ \A p \in Backend : ~ClaimReset(p)
           /\ \A i \in Slot : valid'[i] = "FREE" => valid[i] = "FREE"
<1>0. /\ SlotTypes /\ ClientTypes /\ TypeOK /\ SlotLife /\ Recovering
  BY Types DEF LifeInv
<1>1. ~RecoverFail /\ \A p \in Backend : ~ClaimReset(p)
  BY DEF RecoverFail, ClaimReset
<1>2. ASSUME NEW p \in Backend,
             (\E x \in Index : Resolve(p, x)) \/ BackendStep(p) \/ LoadError(p)
      PROVE  UNCHANGED freed /\ \A i \in Slot : valid'[i] = "FREE" => valid[i] = "FREE"
  <2>1. UNCHANGED freed
    BY <1>1, <1>2
       DEF BackendStep, Resolve, ClaimFound, ClaimFree, ClaimLabel, ClaimSignal, Waited, Write,
           EnsureLoaded, WinLoad, LoadError, LoadSubmit, LoadPublish, LoadWaited, Search
  <2>2. CASE ClaimFree(p) /\ FreeSlots # {}
    <3>1. PICK i \in Slot : i = Min(FreeSlots)
      BY <2>2, FirstSlot DEF FreeSlots
    <3> QED
      BY <1>0, <2>1, <2>2, <3>1 DEF ClaimFree, SlotTypes
  <2>3. CASE WinLoad(p) \/ LoadError(p) \/ LoadPublish(p)
    BY <1>0, <2>1, <2>3 DEF WinLoad, LoadError, LoadPublish, SlotTypes, ClientTypes
  <2>4. CASE ~(ClaimFree(p) /\ FreeSlots # {}) /\ ~(WinLoad(p) \/ LoadError(p) \/ LoadPublish(p))
    BY <1>1, <1>2, <2>1, <2>4
       DEF BackendStep, Resolve, ClaimFound, ClaimFree, ClaimLabel, ClaimSignal, Waited, Write,
           EnsureLoaded, LoadSubmit, LoadWaited, Search
  <2> QED
    BY <2>2, <2>3, <2>4
<1>3. CASE WorkerStep \/ RecoverStep \/ WorkerDie
  BY <1>0, <1>1, <1>3
     DEF WorkerStep, RecoverStep, WorkerStart, WorkerWake, WorkerPick, WorkerScanned,
         RecoverPublish, RecoverOpen, WorkerDie, SlotTypes
<1>4. CASE FlushStep
  BY <1>1, <1>4, FlushFrame
<1>5. ASSUME NEW t \in Thread, ThreadStep(t)
      PROVE  UNCHANGED freed /\ \A i \in Slot : valid'[i] = "FREE" => valid[i] = "FREE"
  BY <1>5, ThreadFrame
<1> QED
  BY <1>1, <1>2, <1>3, <1>4, <1>5 DEF Next

\* A slot keeps its label; only its claimer gives it one.
LEMMA LabelStays ==
    ASSUME LifeInv, Claimed, Labelled, Next
    PROVE  \A i \in Slot : indexRelId'[i] # indexRelId[i] =>
             /\ indexRelId[i] = NoIndex
             /\ \E p \in Backend : ClaimLabel(p) /\ i = slot[p]
<1>0. /\ TypeOK /\ SlotLife /\ Recovering
  BY DEF LifeInv
<1>1. ASSUME NEW p \in Backend,
             (\E x \in Index : Resolve(p, x)) \/ BackendStep(p) \/ LoadError(p),
             NEW i \in Slot, indexRelId'[i] # indexRelId[i]
      PROVE  indexRelId[i] = NoIndex /\ ClaimLabel(p) /\ i = slot[p]
  <2>1. i = slot[p] /\ pc[p] = "label"
    BY <1>0, <1>1, BackendSlots
  <2>2. ClaimLabel(p)
    BY <1>1, <2>1
       DEF BackendStep, Resolve, ClaimFound, ClaimFree, ClaimSignal, ClaimReset, Waited, Write,
           EnsureLoaded, WinLoad, LoadError, LoadSubmit, LoadPublish, LoadWaited, Search
  <2> QED
    BY <2>1, <2>2 DEF Claimed
<1>2. CASE WorkerStep \/ RecoverStep \/ WorkerDie
  <2>1. \A i \in Slot : indexRelId'[i] # indexRelId[i] =>
          i = rslot /\ wpc = "open" /\ rrel \in Index /\ indexRelId'[i] = rrel
    BY <1>0, <1>2, RecoverySlots
  <2> QED
    BY <2>1, SlotsAssumption DEF Labelled
<1>3. CASE FlushStep
  BY <1>3, FlushFrame
<1>4. ASSUME NEW t \in Thread, ThreadStep(t) PROVE UNCHANGED indexRelId
  BY <1>4, ThreadFrame
<1> QED
  BY <1>1, <1>2, <1>3, <1>4 DEF Next

\* The claimer of a slot is alone with it until he has labelled it.
LEMMA ClaimedStep ==
    ASSUME LifeInv, Claimed, Labelled, Next, ~freed'
    PROVE  Claimed'
<1>0. /\ SlotTypes /\ ClientTypes /\ WorkerTypes /\ TypeOK /\ SlotLife /\ Recovering
      /\ SlotTypes' /\ ClientTypes'
  BY Types, TypeStep DEF LifeInv, TypeOK, SlotTypes, ClientTypes
<1>f. ~RecoverFail /\ \A p \in Backend : ~ClaimReset(p)
  BY NothingFreed
<1>1. ASSUME NEW p \in Backend,
             (\E x \in Index : Resolve(p, x)) \/ BackendStep(p) \/ LoadError(p)
      PROVE  Claimed'
  <2>1. \A q \in Backend \ {p} : pc'[q] = pc[q] /\ want'[q] = want[q] /\ slot'[q] = slot[q]
    BY <1>0, <1>1, BackendSlots
  <2>2. CASE ClaimFree(p) /\ FreeSlots # {}
    <3>1. PICK i \in Slot : i = Min(FreeSlots) /\ valid[i] = "FREE"
      BY <2>2, FirstSlot DEF FreeSlots
    <3>2. /\ slot'[p] = i /\ valid'[i] = "RECOVERING" /\ lock' = {p} /\ lock = {}
          /\ want'[p] = want[p] /\ want[p] # NoIndex /\ UNCHANGED indexRelId
          /\ SlotsOf(want[p]) = {}
      BY <1>0, <2>2, <3>1 DEF ClaimFree, SlotLife, SlotTypes, ClientTypes
    <3>3. \A j \in Slot : indexRelId[j] # want[p]
      BY <3>2 DEF SlotsOf, Labelled
    <3>4. \A q \in Backend \ {p} : pc'[q] # "label"
      BY <2>1, <3>2 DEF Claimed
    <3> QED
      BY <3>1, <3>2, <3>3, <3>4 DEF Claimed, Labelled
  <2>3. CASE ClaimLabel(p)
    <3>1. pc[p] = "label" /\ pc'[p] = "signal"
      BY <1>0, <2>3 DEF ClaimLabel, Goto, ClientTypes
    <3>2. \A q \in Backend \ {p} : pc'[q] # "label"
      BY <2>1, <3>1 DEF Claimed
    <3> QED
      BY <3>1, <3>2 DEF Claimed
  <2>4. CASE ~(ClaimFree(p) /\ FreeSlots # {}) /\ ~ClaimLabel(p)
    <3>1. pc'[p] # "label" /\ UNCHANGED <<lock, indexRelId>>
      BY <1>0, <1>1, <1>f, <2>4
         DEF BackendStep, Resolve, ClaimFound, ClaimFree, ClaimSignal, Waited, Write,
             EnsureLoaded, WinLoad, LoadError, LoadSubmit, LoadPublish, LoadWaited, Search, Goto,
             Return, ClientTypes
    <3>2. \A i \in Slot : valid[i] = "RECOVERING" => valid'[i] = "RECOVERING"
      <4>1. CASE WinLoad(p) \/ LoadError(p) \/ LoadPublish(p)
        BY <1>0, <4>1 DEF WinLoad, LoadError, LoadPublish, SlotTypes, ClientTypes, SlotLife,
                          Loading
      <4>2. CASE ~(WinLoad(p) \/ LoadError(p) \/ LoadPublish(p))
        BY <1>1, <1>f, <2>4, <4>2 DEF BackendStep, Resolve, ClaimFound, ClaimFree, ClaimSignal,
                                      Waited, Write, EnsureLoaded, LoadSubmit, LoadWaited, Search
      <4> QED
        BY <4>1, <4>2
    <3> QED
      BY <1>0, <2>1, <3>1, <3>2 DEF Claimed, ClientTypes
  <2> QED
    BY <2>2, <2>3, <2>4
<1>2. CASE WorkerStep \/ RecoverStep \/ WorkerDie
  <2>1. UNCHANGED <<pc, want, slot, lock>>
    BY <1>2, <1>f DEF WorkerStep, RecoverStep, WorkerStart, WorkerWake, WorkerPick, WorkerScanned,
         RecoverPublish, RecoverOpen, WorkerDie
  <2>2. \A p \in Backend : ~ClaimLabel(p)
    BY <1>0, <2>1 DEF ClaimLabel, Goto, ClientTypes
  <2>3. \A i \in Slot : indexRelId'[i] = indexRelId[i]
    BY <2>2, LabelStays
  <2>4. \A i \in Slot : valid[i] = "RECOVERING" /\ indexRelId[i] = NoIndex => valid'[i] = "RECOVERING"
    <3>1. CASE RecoverPublish
      BY <1>0, <3>1 DEF RecoverPublish, Recovering, SlotTypes
    <3>2. CASE ~RecoverPublish
      BY <1>2, <1>f, <3>2 DEF WorkerStep, RecoverStep, WorkerStart, WorkerWake, WorkerPick,
           WorkerScanned, RecoverOpen, WorkerDie
    <3> QED
      BY <3>1, <3>2
  <2> QED
    BY <1>0, <2>1, <2>3, <2>4 DEF Claimed, ClientTypes
<1>3. CASE FlushStep
  <2>1. UNCHANGED <<pc, want, slot, lock, valid, indexRelId>>
    BY <1>3, FlushFrame
  <2> QED
    BY <2>1 DEF Claimed
<1>4. ASSUME NEW t \in Thread, ThreadStep(t) PROVE Claimed'
  <2>1. UNCHANGED <<pc, want, slot, lock, valid, indexRelId>>
    BY <1>4, ThreadFrame
  <2> QED
    BY <2>1 DEF Claimed
<1> QED
  BY <1>1, <1>2, <1>3, <1>4 DEF Next

\* A task in the queue after a step was there, or is a load its loader has labelled.
LEMMA QueueOwned ==
    ASSUME LifeInv, Labelled, Next
    PROVE  \A j \in DOMAIN queue' :
             \/ \E h \in DOMAIN queue : queue'[j] = queue[h]
             \/ queue'[j] \in RegularTask
             \/ /\ queue'[j] \in LoadTask
                /\ queue'[j].rel = indexRelId[queue'[j].slot] /\ UNCHANGED indexRelId
<1>0. SlotTypes /\ ClientTypes /\ MaintTypes /\ TypeOK /\ SlotLife /\ Recovering
  BY Types DEF LifeInv
<1>1. CASE UNCHANGED queue
  BY <1>1
<1>2. ASSUME NEW p \in Backend, LoadSubmit(p)
      PROVE  \A j \in DOMAIN queue' :
               \/ \E h \in DOMAIN queue : queue'[j] = queue[h]
               \/ /\ queue'[j] \in LoadTask
                  /\ queue'[j].rel = indexRelId[queue'[j].slot] /\ UNCHANGED indexRelId
  <2>1. indexRelId[slot[p]] \in Index /\ slot[p] \in Slot
    BY <1>0, <1>2 DEF LoadSubmit, SlotLife, SlotTypes, ClientTypes, Holding
  <2>2. PICK k \in LoadTask : /\ queue' = Append(queue, k) /\ k.rel = indexRelId[slot[p]]
                              /\ k.slot = slot[p]
    BY <1>2, <2>1 DEF LoadSubmit, LoadTask
  <2>3. \A j \in DOMAIN queue' : \/ j \in DOMAIN queue /\ queue'[j] = queue[j]
                                 \/ queue'[j] = k
    BY <1>0, <2>2, Appended DEF MaintTypes
  <2>4. UNCHANGED indexRelId
    BY <1>2 DEF LoadSubmit
  <2> QED
    BY <2>2, <2>3, <2>4
<1>3. CASE FlushSend
  <2>1. fseg.slot \in Slot /\ fseg.seg \in Segment
    BY <1>0, <1>3 DEF FlushSend, SlotLife, MaintTypes
  <2>2. PICK k \in RegularTask : queue' = Append(queue, k)
    BY <1>3, <2>1 DEF FlushSend, RegularTask
  <2>3. \A j \in DOMAIN queue' : \/ j \in DOMAIN queue /\ queue'[j] = queue[j]
                                 \/ queue'[j] = k
    BY <1>0, <2>2, Appended DEF MaintTypes
  <2> QED
    BY <2>2, <2>3
<1>4. ASSUME NEW t \in Thread, Take(t)
      PROVE  \A j \in DOMAIN queue' : \E h \in DOMAIN queue : queue'[j] = queue[h]
  <2>1. queue # <<>> /\ queue' = Tail(queue)
    BY <1>4 DEF Take
  <2>2. \A j \in DOMAIN queue' : j + 1 \in DOMAIN queue /\ queue'[j] = queue[j + 1]
    BY <1>0, <2>1, Shifted DEF MaintTypes
  <2> QED
    BY <2>2
<1>5. ASSUME NEW p \in Backend, ~LoadSubmit(p),
             (\E x \in Index : Resolve(p, x)) \/ BackendStep(p) \/ LoadError(p)
      PROVE  UNCHANGED queue
  BY <1>5
     DEF BackendStep, Resolve, ClaimFound, ClaimFree, ClaimLabel, ClaimSignal, ClaimReset,
         Waited, Write, EnsureLoaded, WinLoad, LoadError, LoadPublish, LoadWaited, Search
<1>6. CASE WorkerStep \/ RecoverStep \/ WorkerDie
  BY <1>0, <1>1, <1>6, RecoverySlots
<1>7. CASE (\E i \in Slot : FlushWrite(i)) \/ FlushUnlink
  BY <1>1, <1>7 DEF FlushWrite, FlushUnlink
<1>8. ASSUME NEW t \in Thread, ThreadStep(t), ~Take(t) PROVE UNCHANGED queue
  BY <1>8 DEF ThreadStep, LoadScan, LoadFill, WaitQueryable, WaitGiveUp, Register
<1> QED
  BY <1>1, <1>2, <1>3, <1>4, <1>5, <1>6, <1>7, <1>8 DEF Next, FlushStep

\* A task a thread works on after a step was its own, or was in the queue.
LEMMA ThreadOwned ==
    ASSUME LifeInv, Next
    PROVE  \A t \in Thread : tpc'[t] # "idle" =>
             \/ Works(t) /\ ttask'[t] = ttask[t]
             \/ \E h \in DOMAIN queue : ttask'[t] = queue[h]
<1>0. MaintTypes /\ TypeOK /\ SlotLife /\ Recovering
  BY Types DEF LifeInv
<1>1. CASE UNCHANGED <<tpc, ttask>>
  BY <1>1 DEF Works
<1>2. ASSUME NEW u \in Thread, ThreadStep(u), NEW t \in Thread, tpc'[t] # "idle"
      PROVE  \/ Works(t) /\ ttask'[t] = ttask[t]
             \/ \E h \in DOMAIN queue : ttask'[t] = queue[h]
  <2>1. CASE Take(u)
    <3>1. queue # <<>> /\ queue \in Seq(LoadTask \cup RegularTask)
      BY <1>0, <2>1 DEF Take, MaintTypes
    <3>2. 1 \in DOMAIN queue /\ Head(queue) = queue[1]
      BY <3>1
    <3> QED
      BY <1>0, <1>2, <2>1, <3>2 DEF Take, MaintTypes, Works
  <2>2. CASE ~Take(u)
    BY <1>0, <1>2, <2>2 DEF ThreadStep, LoadScan, LoadFill, WaitQueryable, WaitGiveUp, Register,
                            Answer, MaintTypes, Works
  <2> QED
    BY <2>1, <2>2
<1>3. ASSUME NEW p \in Backend,
             (\E x \in Index : Resolve(p, x)) \/ BackendStep(p) \/ LoadError(p)
      PROVE  UNCHANGED <<tpc, ttask>>
  BY <1>3
     DEF BackendStep, Resolve, ClaimFound, ClaimFree, ClaimLabel, ClaimSignal, ClaimReset,
         Waited, Write, EnsureLoaded, WinLoad, LoadError, LoadSubmit, LoadPublish, LoadWaited,
         Search
<1>4. CASE WorkerStep \/ RecoverStep \/ WorkerDie
  BY <1>0, <1>1, <1>4, RecoverySlots
<1>5. CASE FlushStep
  BY <1>1, <1>5, FlushFrame
<1> QED
  BY <1>1, <1>2, <1>3, <1>4, <1>5 DEF Next

\* A backend that holds or awaits a slot after a step held it, or has found it
\* by its label, or has labelled it.
LEMMA BackendOwned ==
    ASSUME LifeInv, Next, ~freed'
    PROVE  \A p \in Backend : pc'[p] \in Holding \cup {"signal", "wait"} =>
             \/ /\ pc[p] \in Holding \cup {"signal", "wait"}
                /\ slot'[p] = slot[p] /\ want'[p] = want[p]
             \/ indexRelId'[slot'[p]] = want'[p]
<1>0. SlotTypes /\ ClientTypes /\ TypeOK /\ SlotLife /\ Recovering
  BY Types DEF LifeInv
<1>f. \A p \in Backend : ~ClaimReset(p)
  BY NothingFreed
<1> DEFINE Goal(p) == pc'[p] \in Holding \cup {"signal", "wait"} =>
             \/ /\ pc[p] \in Holding \cup {"signal", "wait"}
                /\ slot'[p] = slot[p] /\ want'[p] = want[p]
             \/ indexRelId'[slot'[p]] = want'[p]
<1>1. ASSUME NEW p \in Backend,
             (\E x \in Index : Resolve(p, x)) \/ BackendStep(p) \/ LoadError(p)
      PROVE  \A q \in Backend : Goal(q)
  <2>1. \A q \in Backend \ {p} : pc'[q] = pc[q] /\ want'[q] = want[q] /\ slot'[q] = slot[q]
    BY <1>0, <1>1, BackendSlots
  <2>2. Goal(p)
    <3>1. ASSUME NEW x \in Index, Resolve(p, x) PROVE Goal(p)
      <4>1. CASE SlotsOf(x) = {}
        BY <1>0, <3>1, <4>1 DEF Resolve, ClientTypes, Holding
      <4>2. CASE SlotsOf(x) # {}
        <5>1. PICK i \in Slot : i = Min(SlotsOf(x)) /\ indexRelId[i] = x
          BY <4>2, FirstSlot DEF SlotsOf
        <5> QED
          BY <1>0, <3>1, <4>2, <5>1 DEF Resolve, ClientTypes
      <4> QED
        BY <4>1, <4>2
    <3>2. CASE ClaimFound(p)
      <4>1. PICK i \in Slot : i = Min(SlotsOf(want[p])) /\ indexRelId[i] = want[p]
        BY <3>2, FirstSlot DEF SlotsOf, ClaimFound
      <4> QED
        BY <1>0, <3>2, <4>1 DEF ClaimFound, ClientTypes
    <3>3. CASE ClaimFree(p)
      BY <1>0, <3>3 DEF ClaimFree, Return, ClientTypes, Holding
    <3>4. CASE ClaimLabel(p)
      BY <1>0, <3>4 DEF ClaimLabel, Goto, ClientTypes, SlotTypes
    <3>5. CASE ClaimSignal(p) \/ Waited(p) \/ Write(p) \/ EnsureLoaded(p) \/ WinLoad(p)
               \/ LoadError(p) \/ LoadSubmit(p) \/ LoadPublish(p) \/ LoadWaited(p) \/ Search(p)
      BY <1>0, <3>5 DEF ClaimSignal, Waited, Write, EnsureLoaded, WinLoad, LoadError, LoadSubmit,
                        LoadPublish, LoadWaited, Search, Goto, Return, ClientTypes, Holding
    <3> QED
      BY <1>1, <1>f, <3>1, <3>2, <3>3, <3>4, <3>5 DEF BackendStep
  <2> QED
    BY <2>1, <2>2
<1>2. CASE UNCHANGED <<pc, want, slot>>
  BY <1>2
<1>3. CASE WorkerStep \/ RecoverStep \/ WorkerDie
  BY <1>0, <1>2, <1>3, RecoverySlots
<1>4. CASE FlushStep
  BY <1>2, <1>4, FlushFrame
<1>5. ASSUME NEW t \in Thread, ThreadStep(t) PROVE UNCHANGED <<pc, want, slot>>
  BY <1>5, ThreadFrame
<1> QED
  BY <1>1, <1>2, <1>3, <1>4, <1>5 DEF Next

\* Every process goes by the label of the slot, after a step too.
LEMMA LabelledStep ==
    ASSUME LifeInv, Claimed, Labelled, Next, ~freed'
    PROVE  Labelled'
<1>0. /\ SlotTypes /\ ClientTypes /\ WorkerTypes /\ MaintTypes /\ TypeOK /\ SlotLife
      /\ Recovering /\ TasksAwaited
      /\ SlotTypes' /\ ClientTypes' /\ MaintTypes' /\ SlotLife'
  BY Types, TypeStep, SlotLifeStep DEF LifeInv, TypeOK, SlotTypes, ClientTypes, MaintTypes
<1>a. \A i \in Slot : indexRelId'[i] # indexRelId[i] =>
        /\ indexRelId[i] = NoIndex
        /\ \E p \in Backend : ClaimLabel(p) /\ i = slot[p]
  BY LabelStays
<1>b. \A i \in Slot : valid'[i] = "FREE" => valid[i] = "FREE"
  BY NothingFreed
<1>1. \A i, j \in Slot : indexRelId'[i] = indexRelId'[j] /\ indexRelId'[i] # NoIndex => i = j
  <2>1. CASE \A i \in Slot : indexRelId'[i] = indexRelId[i]
    BY <2>1 DEF Labelled
  <2>2. ASSUME NEW k \in Slot, indexRelId'[k] # indexRelId[k]
        PROVE  \A i, j \in Slot : indexRelId'[i] = indexRelId'[j] /\ indexRelId'[i] # NoIndex => i = j
    <3>1. PICK p \in Backend : ClaimLabel(p) /\ k = slot[p]
      BY <1>a, <2>2
    <3>2. /\ indexRelId'[k] = want[p] /\ \A i \in Slot \ {k} : indexRelId'[i] = indexRelId[i]
          /\ pc[p] = "label"
      BY <1>0, <3>1 DEF ClaimLabel, SlotTypes, ClientTypes
    <3>3. \A i \in Slot : indexRelId[i] # want[p]
      BY <3>2 DEF Claimed
    <3> QED
      BY <3>2, <3>3 DEF Labelled
  <2> QED
    BY <2>1, <2>2
<1>2. \A i \in Slot : valid'[i] = "FREE" => indexRelId'[i] = NoIndex
  <2>1. ASSUME NEW i \in Slot, valid'[i] = "FREE", indexRelId'[i] # indexRelId[i] PROVE FALSE
    <3>1. PICK p \in Backend : ClaimLabel(p) /\ i = slot[p]
      BY <1>a, <2>1
    <3>2. valid[i] = "RECOVERING"
      BY <3>1 DEF ClaimLabel, Claimed
    <3> QED
      BY <1>b, <2>1, <3>2
  <2> QED
    BY <1>b, <2>1 DEF Labelled
<1>3. ASSUME NEW p \in Backend, pc'[p] \in Holding \cup {"signal", "wait"}
      PROVE  indexRelId'[slot'[p]] = want'[p]
  <2>1. CASE /\ pc[p] \in Holding \cup {"signal", "wait"}
             /\ slot'[p] = slot[p] /\ want'[p] = want[p]
    <3>1. indexRelId[slot[p]] = want[p] /\ slot[p] \in Slot
      BY <1>0, <2>1 DEF Labelled, ClientTypes
    <3>2. want[p] # NoIndex
      BY <1>0, <2>1 DEF SlotLife, Holding
    <3> QED
      BY <1>a, <2>1, <3>1, <3>2
  <2>2. CASE indexRelId'[slot'[p]] = want'[p]
    BY <2>2
  <2> QED
    BY <1>3, <2>1, <2>2, BackendOwned
<1>4. wpc' \in {"open", "recover"} => rrel' \in {NoIndex, indexRelId'[rslot']}
  <2>1. CASE UNCHANGED <<wpc, rslot, rrel>>
    BY <1>0, <1>a, <2>1 DEF Labelled, WorkerTypes
  <2>2. CASE WorkerStep \/ RecoverStep \/ WorkerDie
    <3>1. CASE WorkerPick
      BY <3>1 DEF WorkerPick
    <3>2. CASE RecoverOpen
      BY <1>0, <3>2 DEF RecoverOpen, SlotTypes, WorkerTypes
    <3>3. CASE ~WorkerPick /\ ~RecoverOpen
      BY <2>2, <3>3 DEF WorkerStep, RecoverStep, WorkerStart, WorkerWake, WorkerScanned,
                        RecoverPublish, RecoverFail, WorkerDie, ScanOn
    <3> QED
      BY <3>1, <3>2, <3>3
  <2>3. ASSUME NEW p \in Backend,
               (\E x \in Index : Resolve(p, x)) \/ BackendStep(p) \/ LoadError(p)
        PROVE  UNCHANGED <<wpc, rslot, rrel>>
    BY <1>0, <2>3, BackendSlots
  <2>4. CASE FlushStep
    BY <2>1, <2>4, FlushFrame
  <2>5. ASSUME NEW t \in Thread, ThreadStep(t) PROVE UNCHANGED <<wpc, rslot, rrel>>
    BY <2>5, ThreadFrame
  <2> QED
    BY <2>1, <2>2, <2>3, <2>4, <2>5 DEF Next
<1>5. ASSUME NEW k \in LoadTask, k.rel = indexRelId[k.slot]
      PROVE  k.rel = indexRelId'[k.slot]
  BY <1>5, <1>a, TaskFacts, SlotsAssumption
<1>6. \A h \in DOMAIN queue : /\ queue[h] \in LoadTask \cup RegularTask
                              /\ queue[h].type = "load" => queue[h].rel = indexRelId[queue[h].slot]
  BY <1>0 DEF MaintTypes, Labelled
<1>7. ASSUME NEW k \in LoadTask \cup RegularTask, k.type = "load",
             \E h \in DOMAIN queue : k = queue[h]
      PROVE  k.rel = indexRelId'[k.slot]
  <2>1. k \in LoadTask /\ k.rel = indexRelId[k.slot]
    BY <1>6, <1>7, TaskFacts
  <2> QED
    BY <1>5, <2>1
<1>8. ASSUME NEW j \in DOMAIN queue', queue'[j].type = "load"
      PROVE  queue'[j].rel = indexRelId'[queue'[j].slot]
  <2>1. queue'[j] \in LoadTask \cup RegularTask
    BY <1>0 DEF MaintTypes
  <2>2. CASE \E h \in DOMAIN queue : queue'[j] = queue[h]
    BY <1>7, <1>8, <2>1, <2>2
  <2>3. CASE queue'[j] \in RegularTask
    BY <1>8, <2>3, TaskFacts
  <2>4. CASE /\ queue'[j] \in LoadTask
             /\ queue'[j].rel = indexRelId[queue'[j].slot] /\ UNCHANGED indexRelId
    BY <2>4
  <2> QED
    BY <2>2, <2>3, <2>4, QueueOwned
<1>9. ASSUME NEW t \in Thread, tpc'[t] # "idle", ttask'[t].type = "load"
      PROVE  ttask'[t].rel = indexRelId'[ttask'[t].slot]
  <2>1. CASE Works(t) /\ ttask'[t] = ttask[t]
    <3>1. ttask[t] \in LoadTask
      BY <1>0, <1>9, <2>1, TaskFacts DEF TasksAwaited
    <3>2. ttask[t].rel = indexRelId[ttask[t].slot]
      BY <1>9, <2>1 DEF Labelled
    <3> QED
      BY <1>5, <2>1, <3>1, <3>2
  <2>2. CASE \E h \in DOMAIN queue : ttask'[t] = queue[h]
    BY <1>6, <1>7, <1>9, <2>2
  <2> QED
    BY <1>9, <2>1, <2>2, ThreadOwned
<1> QED
  BY <1>1, <1>2, <1>3, <1>4, <1>8, <1>9 DEF Labelled, Works

\* The memtables of a slot are its own, after a step too.
LEMMA OwnMemtablesStep ==
    ASSUME LifeInv, Claimed, Labelled, OwnMemtables, Next
    PROVE  OwnMemtables'
<1>0. /\ SlotTypes /\ ClientTypes /\ WorkerTypes /\ MaintTypes /\ TypeOK /\ SlotLife /\ Recovering
  BY Types DEF LifeInv
<1>a. ASSUME NEW i \in Slot, is_writable(valid[i])
      PROVE  is_writable(valid'[i]) /\ indexRelId'[i] = indexRelId[i]
  <2>1. is_writable(valid'[i])
    BY <1>a, StaysWritable
  <2>2. indexRelId[i] # NoIndex
    BY <1>0, <1>a DEF SlotLife
  <2> QED
    BY <2>1, <2>2, LabelStays
<1>1. CASE \A i \in Slot : memtables'[i] \subseteq memtables[i]
  BY <1>1, <1>a DEF OwnMemtables
<1>2. ASSUME NEW p \in Backend, Write(p) PROVE OwnMemtables'
  <2>1. /\ slot[p] \in Slot /\ is_writable(valid[slot[p]]) /\ indexRelId[slot[p]] = want[p]
    BY <1>0, <1>2 DEF Write, ClientTypes, SlotLife, Labelled, Holding
  <2>2. \A i \in Slot : \A m \in memtables'[i] :
          m \in memtables[i] \/ (i = slot[p] /\ m[1] = want[p])
    BY <1>0, <1>2 DEF Write, SlotTypes, ClientTypes
  <2>3. ASSUME NEW i \in Slot, NEW m \in memtables'[i]
        PROVE  is_writable(valid'[i]) /\ m[1] = indexRelId'[i]
    <3>1. is_writable(valid[i]) /\ m[1] = indexRelId[i]
      BY <2>1, <2>2, <2>3 DEF OwnMemtables
    <3> QED
      BY <1>a, <3>1
  <2> QED
    BY <2>3 DEF OwnMemtables
<1>3. CASE RecoverPublish
  <2>1. /\ rslot \in Slot /\ valid'[rslot] = "WRITABLE" /\ indexRelId[rslot] = rrel
        /\ UNCHANGED indexRelId
        /\ \A m \in memtables'[rslot] : m[1] = rrel
        /\ \A i \in Slot \ {rslot} : memtables'[i] = memtables[i]
    BY <1>0, <1>3 DEF RecoverPublish, Recovering, Labelled, SlotTypes, WorkerTypes
  <2>2. is_writable(valid'[rslot])
    BY <2>1 DEF is_writable
  <2>3. ASSUME NEW i \in Slot, i # rslot, NEW m \in memtables'[i]
        PROVE  is_writable(valid'[i]) /\ m[1] = indexRelId'[i]
    <3>1. is_writable(valid[i]) /\ m[1] = indexRelId[i]
      BY <2>1, <2>3 DEF OwnMemtables
    <3> QED
      BY <1>a, <3>1
  <2> QED
    BY <2>1, <2>2, <2>3 DEF OwnMemtables
<1>4. ASSUME NEW p \in Backend, ~Write(p),
             (\E x \in Index : Resolve(p, x)) \/ BackendStep(p) \/ LoadError(p)
      PROVE  UNCHANGED memtables
  BY <1>4
     DEF BackendStep, Resolve, ClaimFound, ClaimFree, ClaimLabel, ClaimSignal, ClaimReset,
         Waited, EnsureLoaded, WinLoad, LoadError, LoadSubmit, LoadPublish, LoadWaited, Search
<1>5. CASE (WorkerStep \/ RecoverStep \/ WorkerDie) /\ ~RecoverPublish
  <2>1. UNCHANGED memtables
    BY <1>5 DEF WorkerStep, RecoverStep, WorkerStart, WorkerWake, WorkerPick, WorkerScanned,
                RecoverOpen, RecoverFail, WorkerDie
  <2> QED
    BY <1>1, <2>1
<1>6. CASE FlushStep
  <2>1. \A i \in Slot : memtables'[i] \subseteq memtables[i]
    BY <1>0, <1>6 DEF FlushStep, FlushWrite, FlushSend, FlushUnlink, SlotTypes
  <2> QED
    BY <1>1, <2>1
<1>7. ASSUME NEW t \in Thread, ThreadStep(t) PROVE UNCHANGED memtables
  BY <1>7, ThreadFrame
<1> QED
  BY <1>1, <1>2, <1>3, <1>4, <1>5, <1>6, <1>7 DEF Next

\* Every step keeps OwnInv.
LEMMA OwnStep ==
    ASSUME LifeInv, OwnInv, [Next]_vars
    PROVE  OwnInv'
<1>1. CASE Next
  <2>1. SUFFICES ASSUME ~freed' PROVE Claimed' /\ Labelled' /\ OwnMemtables'
    BY DEF OwnInv
  <2>2. Claimed /\ Labelled /\ OwnMemtables
    BY <1>1, <2>1, NothingFreed DEF OwnInv
  <2> QED
    BY <1>1, <2>1, <2>2, ClaimedStep, LabelledStep, OwnMemtablesStep
<1>2. CASE UNCHANGED vars
  BY <1>2 DEF vars, OwnInv, Claimed, Labelled, OwnMemtables, Works
<1> QED
  BY <1>1, <1>2

\* As long as no slot has been given back, every index has at most one slot and
\* everybody who has resolved an index is at it, with none but its memtables:
\* the scan without a lock, the claim under it and the recovery worker that
\* takes none never disagree.
THEOREM OneSlotPerIndex == Spec => []SlotOwned
<1>1. Init => LifeInv /\ OwnInv
  <2>1. Init => OwnInv
    BY DEF Init, OwnInv, Claimed, Labelled, OwnMemtables, Holding, Works
  <2> QED
    BY <2>1, LifeInit
<1>2. LifeInv /\ OwnInv /\ [Next]_vars => LifeInv' /\ OwnInv'
  BY LifeStep, OwnStep
<1>3. LifeInv /\ OwnInv => SlotOwned
  <2>1. SUFFICES ASSUME LifeInv, OwnInv, ~freed PROVE SlotOwned
    BY DEF SlotOwned
  <2>2. Labelled /\ OwnMemtables /\ ClientTypes
    BY <2>1, Types DEF OwnInv, LifeInv
  <2> QED
    BY <2>2 DEF SlotOwned, Labelled, OwnMemtables, ClientTypes, Holding
<1> QED
  BY <1>1, <1>2, <1>3, PTL DEF Spec

-----------------------------------------------------------------------------
(* Served.                                                                 *)

\* Kept, after the step.
ThereNext(i, g) == pool'[i][g] > 0 \/ g \in gaveup'

KeptNext(i, g) ==
    /\ valid'[i] = "QUERYABLE" => ThereNext(i, g)
    /\ \A p \in Backend : pc'[p] = "loading" /\ slot'[p] = i /\ maint_done'[p] => ThereNext(i, g)
    /\ \A t \in Thread : tpc'[t] = "fill" /\ ttask'[t].slot = i =>
         g \in tscan'[t] \/ ThereNext(i, g)

\* A segment that nothing but a load in the future may change is kept.
LEMMA KeptFrame ==
    ASSUME NEW i \in Slot, NEW g \in Segment, Kept(i, g),
           valid'[i] = "QUERYABLE" => valid[i] = "QUERYABLE" \/ There(i, g),
           \A p \in Backend : pc'[p] = "loading" /\ slot'[p] = i /\ maint_done'[p] =>
             (pc[p] = "loading" /\ slot[p] = i /\ maint_done[p]) \/ There(i, g),
           \A t \in Thread : tpc'[t] = "fill" /\ ttask'[t].slot = i =>
             tpc[t] = "fill" /\ ttask[t].slot = i /\ tscan'[t] = tscan[t],
           There(i, g) => ThereNext(i, g)
    PROVE  KeptNext(i, g)
  BY DEF Kept, KeptNext

\* Backends keep what is kept: a slot becomes QUERYABLE when its load is done.
LEMMA KeptByBackend ==
    ASSUME LifeInv, NEW p \in Backend,
           (\E x \in Index : Resolve(p, x)) \/ BackendStep(p) \/ LoadError(p),
           NEW i \in Slot, NEW g \in Segment, Kept(i, g)
    PROVE  KeptNext(i, g)
<1>0. SlotTypes /\ ClientTypes /\ MaintTypes /\ TypeOK /\ SlotLife /\ Recovering
  BY Types DEF LifeInv
<1>1. \A q \in Backend \ {p} : pc'[q] = pc[q] /\ slot'[q] = slot[q]
  BY <1>0, BackendSlots
<1>2. UNCHANGED <<tpc, ttask, tscan, pool, gaveup>>
  BY DEF BackendStep, Resolve, ClaimFound, ClaimFree, ClaimLabel, ClaimSignal, ClaimReset,
         Waited, Write, EnsureLoaded, WinLoad, LoadError, LoadSubmit, LoadPublish, LoadWaited,
         Search
<1>3. There(i, g) => ThereNext(i, g)
  BY <1>2 DEF There, ThereNext
<1>4. pc'[p] = "loading" => ~maint_done'[p] /\ \A c \in Client \ {p} : maint_done'[c] = maint_done[c]
  <2>1. CASE LoadSubmit(p)
    BY <1>0, <2>1 DEF LoadSubmit, MaintTypes, Client
  <2>2. CASE ~LoadSubmit(p)
    BY <1>0, <2>2
       DEF BackendStep, Resolve, ClaimFound, ClaimFree, ClaimLabel, ClaimSignal, ClaimReset,
           Waited, Write, EnsureLoaded, WinLoad, LoadError, LoadPublish, LoadWaited, Search, Goto,
           Return, ClientTypes
  <2> QED
    BY <2>1, <2>2
<1>5. pc'[p] # "loading" => UNCHANGED maint_done
  <2>1. CASE LoadSubmit(p)
    BY <1>0, <2>1 DEF LoadSubmit, Goto, ClientTypes
  <2>2. CASE ~LoadSubmit(p)
    BY <2>2
       DEF BackendStep, Resolve, ClaimFound, ClaimFree, ClaimLabel, ClaimSignal, ClaimReset,
           Waited, Write, EnsureLoaded, WinLoad, LoadError, LoadPublish, LoadWaited, Search
  <2> QED
    BY <2>1, <2>2
<1>6. \A q \in Backend : pc'[q] = "loading" /\ slot'[q] = i /\ maint_done'[q] =>
        pc[q] = "loading" /\ slot[q] = i /\ maint_done[q]
  BY <1>1, <1>4, <1>5 DEF Client
<1>7. ASSUME valid'[i] = "QUERYABLE", valid[i] # "QUERYABLE" PROVE There(i, g)
  <2>1. i = slot[p] /\ pc[p] = "loading" /\ pc'[p] = "search"
    BY <1>0, <1>7, BackendSlots
  <2>2. maint_done[p]
    BY <1>0, <2>1
       DEF BackendStep, Resolve, ClaimFound, ClaimFree, ClaimLabel, ClaimSignal, ClaimReset,
           Waited, Write, EnsureLoaded, WinLoad, LoadError, LoadSubmit, LoadPublish, LoadWaited,
           Search
  <2> QED
    BY <2>1, <2>2 DEF Kept
<1> QED
  BY <1>2, <1>3, <1>6, <1>7, KeptFrame

\* Threads keep what is kept: a load that empties the pool has found every file.
LEMMA KeptByThread ==
    ASSUME LifeInv, Labelled, NEW t \in Thread, ThreadStep(t),
           NEW i \in Slot, NEW x \in Index, x = indexRelId[i],
           NEW s \in files[x], Kept(i, <<x, s>>)
    PROVE  KeptNext(i, <<x, s>>)
<1>0. /\ SlotTypes /\ ClientTypes /\ MaintTypes /\ TypeOK /\ SlotLife /\ TasksAwaited
      /\ PoolShape
  BY Types DEF LifeInv
<1>1. PICK g \in Segment : g = <<x, s>>
  BY <1>0 DEF SlotTypes, Segment
<1>2. UNCHANGED <<valid, pc, slot>>
  BY ThreadFrame
<1>3. \A j \in Slot : pool[j][g] \in Nat
  BY <1>0 DEF MaintTypes
<1>4. CASE Take(t)
  <2>1. PICK k \in LoadTask \cup RegularTask : k = Head(queue)
    BY <1>0, <1>4 DEF Take, MaintTypes
  <2>2. k.type \in {"load", "regular"}
    BY TaskFacts
  <2>3. /\ tpc'[t] \in {"load", "regular"} /\ UNCHANGED <<pool, gaveup, maint_done, tscan>>
        /\ \A u \in Thread \ {t} : tpc'[u] = tpc[u] /\ ttask'[u] = ttask[u]
    BY <1>0, <1>4, <2>1, <2>2 DEF Take, MaintTypes
  <2>4. There(i, g) => ThereNext(i, g)
    BY <2>3 DEF There, ThereNext
  <2> QED
    BY <1>1, <1>2, <2>3, <2>4, KeptFrame
<1>5. CASE LoadScan(t)
  <2>1. /\ \A j \in Slot : pool'[j][g] = IF j = ttask[t].slot THEN 0 ELSE pool[j][g]
        /\ tpc'[t] = "fill"
        /\ \A u \in Thread \ {t} : tpc'[u] = tpc[u] /\ tscan'[u] = tscan[u]
        /\ tscan'[t] = {ttask[t].rel} \X files[ttask[t].rel]
        /\ UNCHANGED <<ttask, maint_done, gaveup>>
    BY <1>0, <1>5, ScanPool
  <2>2. tpc[t] = "load"
    BY <1>5 DEF LoadScan
  <2>3. CASE ttask[t].slot = i
    <3>1. valid'[i] = "LOADING_INDEX"
      BY <1>0, <1>2, <2>2, <2>3, Filling
    <3>2. ASSUME NEW p \in Backend, pc'[p] = "loading", slot'[p] = i, maint_done'[p]
          PROVE  FALSE
      <4>1. pc[p] = "loading" /\ slot[p] = i /\ maint_done[p]
        BY <1>2, <2>1, <3>2
      <4>2. PICK c \in Backend : c = ttask[t].client /\ pc[c] = "loading" /\ slot[c] = i
                                 /\ ~maint_done[c]
        BY <1>0, <2>2, <2>3, Filling
      <4>3. p = c
        BY <1>0, <4>1, <4>2 DEF SlotLife, Loading
      <4> QED
        BY <4>1, <4>2, <4>3
    <3>3. ASSUME NEW u \in Thread, tpc'[u] = "fill", ttask'[u].slot = i PROVE g \in tscan'[u]
      <4>1. tpc[u] \in {"load", "fill"} /\ ttask[u].slot = ttask[t].slot
        BY <2>1, <2>2, <2>3, <3>3
      <4>2. u = t
        BY <1>0, <2>2, <4>1, Filling
      <4>3. ttask[t].type = "load" /\ Works(t)
        BY <1>0, <2>2, Filling, TaskFacts DEF Works
      <4>4. ttask[t].rel = x
        BY <2>3, <4>3 DEF Labelled
      <4> QED
        BY <1>1, <2>1, <4>2, <4>4
    <3> QED
      BY <1>1, <3>1, <3>2, <3>3 DEF KeptNext
  <2>4. CASE ttask[t].slot # i
    <3>1. There(i, g) => ThereNext(i, g)
      BY <2>1, <2>4 DEF There, ThereNext
    <3>2. \A u \in Thread : tpc'[u] = "fill" /\ ttask'[u].slot = i =>
            tpc[u] = "fill" /\ ttask[u].slot = i /\ tscan'[u] = tscan[u]
      BY <2>1, <2>4
    <3> QED
      BY <1>1, <1>2, <2>1, <3>1, <3>2, KeptFrame
  <2> QED
    BY <2>3, <2>4
<1>6. CASE LoadFill(t)
  <2>1. /\ \A j \in Slot : pool'[j][g] =
             pool[j][g] + (IF j = ttask[t].slot /\ g \in tscan[t] THEN 1 ELSE 0)
        /\ tpc'[t] = "idle"
        /\ \A u \in Thread \ {t} :
             tpc'[u] = tpc[u] /\ tscan'[u] = tscan[u] /\ ttask'[u] = ttask[u]
        /\ \A c \in Client : maint_done'[c] = (maint_done[c] \/ c = ttask[t].client)
        /\ UNCHANGED gaveup
    BY <1>0, <1>6, FillPool
  <2>2. tpc[t] = "fill"
    BY <1>6 DEF LoadFill
  <2>3. There(i, g) => ThereNext(i, g)
    BY <1>3, <2>1 DEF There, ThereNext
  <2>4. ttask[t].slot = i => ThereNext(i, g)
    <3>1. ASSUME ttask[t].slot = i, g \in tscan[t] PROVE ThereNext(i, g)
      BY <1>3, <2>1, <3>1 DEF ThereNext
    <3> QED
      BY <1>1, <2>2, <2>3, <3>1 DEF Kept
  <2>5. ASSUME NEW p \in Backend, pc'[p] = "loading", slot'[p] = i, maint_done'[p]
        PROVE  ThereNext(i, g)
    <3>1. maint_done[p] \/ p = ttask[t].client
      BY <2>1, <2>5 DEF Client
    <3>2. CASE maint_done[p]
      BY <1>1, <1>2, <2>3, <2>5, <3>2 DEF Kept
    <3>3. CASE p = ttask[t].client
      <4>1. slot[p] = ttask[t].slot
        BY <1>0, <2>2, <3>3, Filling
      <4> QED
        BY <1>2, <2>4, <2>5, <4>1
    <3> QED
      BY <3>1, <3>2, <3>3
  <2>6. \A u \in Thread : tpc'[u] = "fill" /\ ttask'[u].slot = i =>
          g \in tscan'[u] \/ ThereNext(i, g)
    BY <1>1, <2>1, <2>3 DEF Kept
  <2> QED
    BY <1>1, <1>2, <2>3, <2>5, <2>6 DEF Kept, KeptNext
<1>7. CASE Register(t)
  <2>1. /\ \A j \in Slot : pool'[j][g] =
             IF j = ttask[t].slot /\ g = ttask[t].seg /\ pool[j][g] = 0 THEN 1 ELSE pool[j][g]
        /\ tpc'[t] = "idle"
        /\ \A u \in Thread \ {t} : tpc'[u] = tpc[u] /\ ttask'[u] = ttask[u]
        /\ \A b \in Backend : maint_done'[b] = maint_done[b]
        /\ UNCHANGED <<tscan, gaveup>>
    BY <1>0, <1>7, RegisterPool
  <2>2. There(i, g) => ThereNext(i, g)
    BY <1>3, <2>1 DEF There, ThereNext
  <2> QED
    BY <1>1, <1>2, <2>1, <2>2, KeptFrame
<1>8. CASE WaitQueryable(t) \/ WaitGiveUp(t)
  <2>1. ttask[t] \in RegularTask
    BY <1>0, <1>8 DEF WaitQueryable, WaitGiveUp, TasksAwaited, Works
  <2>2. ttask[t].client = Flusher
    BY <2>1, TaskFacts
  <2>3. /\ UNCHANGED <<pool, tscan>> /\ gaveup \subseteq gaveup'
        /\ tpc'[t] # "fill"
        /\ \A u \in Thread \ {t} : tpc'[u] = tpc[u] /\ ttask'[u] = ttask[u]
        /\ \A b \in Backend : maint_done'[b] = maint_done[b]
    BY <1>0, <1>8, <2>2, TaskFacts DEF WaitQueryable, WaitGiveUp, Answer, MaintTypes, Client
  <2>4. There(i, g) => ThereNext(i, g)
    BY <2>3 DEF There, ThereNext
  <2> QED
    BY <1>1, <1>2, <2>3, <2>4, KeptFrame
<1> QED
  BY <1>4, <1>5, <1>6, <1>7, <1>8 DEF ThreadStep

\* Every step keeps what is kept in a writable slot.
LEMMA KeptStays ==
    ASSUME LifeInv, Labelled, Next,
           NEW i \in Slot, is_writable(valid[i]), NEW x \in Index, x = indexRelId[i],
           NEW s \in files[x], Kept(i, <<x, s>>)
    PROVE  KeptNext(i, <<x, s>>)
<1>0. /\ SlotTypes /\ MaintTypes /\ TypeOK /\ Recovering
  BY Types DEF LifeInv
<1>1. PICK g \in Segment : g = <<x, s>>
  BY <1>0 DEF SlotTypes, Segment
<1>2. CASE WorkerStep \/ RecoverStep \/ WorkerDie
  <2>1. UNCHANGED <<pc, slot, pool, tpc, ttask, tscan, maint_done, gaveup>>
    BY <1>0, <1>2, RecoverySlots
  <2>2. valid'[i] = valid[i]
    BY <1>0, <1>2, RecoverySlots DEF is_writable
  <2>3. There(i, g) => ThereNext(i, g)
    BY <2>1 DEF There, ThereNext
  <2> QED
    BY <1>1, <2>1, <2>2, <2>3, KeptFrame
<1>3. CASE FlushStep
  <2>1. UNCHANGED <<valid, pc, slot, pool, tpc, ttask, tscan, gaveup>>
    BY <1>3, FlushFrame
  <2>2. \A b \in Backend : maint_done'[b] = maint_done[b]
    BY <1>0, <1>3, TaskFacts DEF FlushStep, FlushWrite, FlushSend, FlushUnlink, MaintTypes, Client
  <2>3. There(i, g) => ThereNext(i, g)
    BY <2>1 DEF There, ThereNext
  <2> QED
    BY <1>1, <2>1, <2>2, <2>3, KeptFrame
<1>4. ASSUME NEW p \in Backend,
             (\E y \in Index : Resolve(p, y)) \/ BackendStep(p) \/ LoadError(p)
      PROVE  KeptNext(i, <<x, s>>)
  BY <1>1, <1>4, KeptByBackend
<1>5. ASSUME NEW t \in Thread, ThreadStep(t) PROVE KeptNext(i, <<x, s>>)
  BY <1>5, KeptByThread
<1> QED
  BY <1>2, <1>3, <1>4, <1>5 DEF Next

\* A slot that is or has been recovered keeps its state and its label.
LEMMA StaysHome ==
    ASSUME LifeInv, Claimed, Labelled, Next, NEW i \in Slot, is_writable(valid[i])
    PROVE  /\ is_writable(valid'[i]) /\ indexRelId'[i] = indexRelId[i]
           /\ indexRelId[i] \in Index
<1>1. SlotTypes /\ SlotLife
  BY Types DEF LifeInv
<1>2. indexRelId[i] \in Index
  BY <1>1 DEF SlotLife, SlotTypes
<1>3. indexRelId'[i] = indexRelId[i]
  BY <1>2, LabelStays, SlotsAssumption
<1> QED
  BY <1>2, <1>3, StaysWritable

\* What a step does to the files, the status pages and the memtables.
LEMMA DiskStep ==
    ASSUME LifeInv, Labelled, OwnMemtables, Next
    PROVE  /\ \A x \in Index : files[x] \subseteq files'[x]
           /\ \A x \in Index : \A s \in files'[x] : s \notin files[x] =>
                \E i \in Slot : /\ is_writable(valid[i]) /\ indexRelId[i] = x
                                /\ <<x, s>> \in memtables[i] /\ UNCHANGED memtables
           /\ \A x \in Index : status_sids[x] \subseteq status_sids'[x]
           /\ \A x \in Index : \A s \in status_sids'[x] : s \notin status_sids[x] =>
                \E i \in Slot : /\ is_writable(valid[i]) /\ indexRelId[i] = x
                                /\ <<x, s>> \in memtables'[i]
           /\ \A i \in Slot : \A m \in memtables[i] : m \notin memtables'[i] =>
                FlushUnlink /\ m = fseg.seg /\ i = fseg.slot
<1>0. /\ SlotTypes /\ ClientTypes /\ WorkerTypes /\ TypeOK /\ SlotLife /\ Recovering
  BY Types DEF LifeInv
<1>1. CASE UNCHANGED <<files, status_sids, memtables>>
  BY <1>1
<1>2. ASSUME NEW p \in Backend, Write(p)
      PROVE  /\ UNCHANGED files
             /\ \A x \in Index : status_sids[x] \subseteq status_sids'[x]
             /\ \A x \in Index : \A s \in status_sids'[x] : s \notin status_sids[x] =>
                  \E i \in Slot : /\ is_writable(valid[i]) /\ indexRelId[i] = x
                                  /\ <<x, s>> \in memtables'[i]
             /\ \A i \in Slot : memtables[i] \subseteq memtables'[i]
  <2>1. /\ slot[p] \in Slot /\ is_writable(valid[slot[p]]) /\ indexRelId[slot[p]] = want[p]
    BY <1>0, <1>2 DEF Write, ClientTypes, SlotLife, Labelled, Holding
  <2>2. UNCHANGED files
    BY <1>2 DEF Write
  <2>3. PICK n : IF n \in Sid
                   THEN /\ memtables' = [memtables EXCEPT ![slot[p]] = @ \cup {<<want[p], n>>}]
                        /\ status_sids' = [status_sids EXCEPT ![want[p]] = @ \cup {n}]
                   ELSE UNCHANGED <<memtables, status_sids>>
    BY <1>2 DEF Write
  <2>4. CASE n \in Sid
    BY <1>0, <2>1, <2>2, <2>3, <2>4 DEF SlotTypes
  <2>5. CASE n \notin Sid
    BY <2>2, <2>3, <2>5
  <2> QED
    BY <2>4, <2>5
<1>3. ASSUME NEW i \in Slot, FlushWrite(i)
      PROVE  /\ \A x \in Index : files[x] \subseteq files'[x]
             /\ \A x \in Index : \A s \in files'[x] : s \notin files[x] =>
                  /\ is_writable(valid[i]) /\ indexRelId[i] = x /\ <<x, s>> \in memtables[i]
             /\ UNCHANGED <<memtables, status_sids>>
  <2>1. PICK m \in memtables[i] : files' = [files EXCEPT ![m[1]] = @ \cup {m[2]}]
    BY <1>3 DEF FlushWrite, Sealed
  <2>2. m \in Segment /\ m = <<m[1], m[2]>> /\ m[1] \in Index
    BY <1>0, <2>1 DEF SlotTypes, Segment
  <2>3. is_writable(valid[i]) /\ m[1] = indexRelId[i]
    BY <2>1 DEF OwnMemtables
  <2>4. UNCHANGED <<memtables, status_sids>>
    BY <1>3 DEF FlushWrite
  <2> QED
    BY <1>0, <2>1, <2>2, <2>3, <2>4 DEF SlotTypes
<1>4. CASE FlushUnlink
  BY <1>0, <1>4 DEF FlushUnlink, SlotTypes
<1>5. CASE FlushSend
  BY <1>1, <1>5 DEF FlushSend
<1>6. CASE RecoverPublish
  <2>1. memtables[rslot] = {}
    BY <1>0, <1>6 DEF RecoverPublish, Recovering, OwnMemtables, is_writable, WorkerTypes
  <2> QED
    BY <1>0, <1>6, <2>1 DEF RecoverPublish, SlotTypes, WorkerTypes
<1>7. ASSUME NEW p \in Backend, ~Write(p),
             (\E x \in Index : Resolve(p, x)) \/ BackendStep(p) \/ LoadError(p)
      PROVE  UNCHANGED <<files, status_sids, memtables>>
  BY <1>7
     DEF BackendStep, Resolve, ClaimFound, ClaimFree, ClaimLabel, ClaimSignal, ClaimReset,
         Waited, EnsureLoaded, WinLoad, LoadError, LoadSubmit, LoadPublish, LoadWaited, Search
<1>8. CASE (WorkerStep \/ RecoverStep \/ WorkerDie) /\ ~RecoverPublish
  <2>1. UNCHANGED <<files, status_sids, memtables>>
    BY <1>8 DEF WorkerStep, RecoverStep, WorkerStart, WorkerWake, WorkerPick, WorkerScanned,
                RecoverOpen, RecoverFail, WorkerDie
  <2> QED
    BY <1>1, <2>1
<1>9. ASSUME NEW t \in Thread, ThreadStep(t) PROVE UNCHANGED <<files, status_sids, memtables>>
  BY <1>9, ThreadFrame
<1>10. ASSUME NEW p \in Backend,
             (\E x \in Index : Resolve(p, x)) \/ BackendStep(p) \/ LoadError(p)
       PROVE  Write(p) \/ UNCHANGED <<files, status_sids, memtables>>
  BY <1>7, <1>10
<1>11. (\E p \in Backend : Write(p)) \/ UNCHANGED <<files, status_sids, memtables>>
       \/ RecoverPublish \/ FlushSend \/ FlushUnlink \/ \E i \in Slot : FlushWrite(i)
  BY <1>8, <1>9, <1>10 DEF Next, FlushStep, WorkerStep, RecoverStep, WorkerStart, WorkerWake,
     WorkerPick, WorkerScanned, RecoverOpen, RecoverFail, WorkerDie
<1> QED
  BY <1>1, <1>2, <1>3, <1>4, <1>5, <1>6, <1>11

\* An index is as found until a slot has recovered it.
LEMMA UntouchedStep ==
    ASSUME LifeInv, Claimed, Labelled, OwnMemtables, Untouched, Next
    PROVE  Untouched'
<1>1. ASSUME NEW x \in Index, NEW i \in Slot, is_writable(valid[i]), indexRelId[i] = x
      PROVE  \E j \in Slot : is_writable(valid'[j]) /\ indexRelId'[j] = x
  BY <1>1, StaysHome
<1>2. ASSUME NEW x \in Index, files[x] = {START_SEGMENT_ID},
             status_sids[x] = {START_SEGMENT_ID + 1},
             ~\E i \in Slot : is_writable(valid[i]) /\ indexRelId[i] = x
      PROVE  files'[x] = {START_SEGMENT_ID} /\ status_sids'[x] = {START_SEGMENT_ID + 1}
  <2>1. files[x] \subseteq files'[x] /\ \A s \in files'[x] : s \in files[x]
    BY <1>2, DiskStep
  <2>2. status_sids[x] \subseteq status_sids'[x] /\ \A s \in status_sids'[x] : s \in status_sids[x]
    BY <1>2, DiskStep
  <2> QED
    BY <1>2, <2>1, <2>2
<1> QED
  BY <1>1, <1>2 DEF Untouched

\* The flusher's memtable is there until the worker has the segment.
LEMMA FlushingStep ==
    ASSUME LifeInv, Claimed, Labelled, OwnMemtables, Flushing, Next
    PROVE  Flushing'
<1>0. /\ SlotTypes /\ ClientTypes /\ MaintTypes /\ TypeOK /\ SlotLife /\ Recovering
      /\ TasksAwaited /\ PoolShape
  BY Types DEF LifeInv
<1>1. ASSUME NEW i \in Slot, FlushWrite(i) PROVE Flushing'
  <2>1. PICK m \in memtables[i] : /\ files' = [files EXCEPT ![m[1]] = @ \cup {m[2]}]
                                  /\ fseg' = [slot |-> i, seg |-> m]
    BY <1>1 DEF FlushWrite, Sealed
  <2>2. m \in Segment /\ m[1] \in Index
    BY <1>0, <2>1 DEF SlotTypes, Segment
  <2>3. fpc' = "send" /\ UNCHANGED memtables
    BY <1>1 DEF FlushWrite
  <2>4. m[2] \in files'[m[1]]
    BY <1>0, <2>1, <2>2 DEF SlotTypes
  <2> QED
    BY <2>1, <2>3, <2>4 DEF Flushing
<1>2. CASE FlushSend
  <2>1. /\ fpc = "send" /\ fpc' = "wait" /\ ~maint_done'[Flusher]
        /\ UNCHANGED <<fseg, memtables, files>>
    BY <1>0, <1>2 DEF FlushSend, MaintTypes, Client
  <2> QED
    BY <2>1 DEF Flushing
<1>3. CASE FlushUnlink
  BY <1>3 DEF FlushUnlink, Flushing
<1>4. ASSUME ~FlushStep, fpc # "idle", UNCHANGED <<fpc, fseg>>,
             fpc = "wait" /\ maint_done'[Flusher] => KeptNext(fseg.slot, fseg.seg)
      PROVE  Flushing'
  <2>1. /\ fseg.slot \in Slot /\ fseg.seg \in Segment /\ fseg.seg \in memtables[fseg.slot]
        /\ fseg.seg[2] \in files[fseg.seg[1]] /\ fseg.seg[1] \in Index
    BY <1>0, <1>4 DEF SlotLife, MaintTypes, Flushing, Segment
  <2>2. fseg.seg \in memtables'[fseg.slot]
    BY <1>4, <2>1, DiskStep DEF FlushStep
  <2>3. fseg.seg[2] \in files'[fseg.seg[1]]
    BY <2>1, DiskStep
  <2> QED
    BY <1>4, <2>2, <2>3 DEF Flushing, Kept, KeptNext, There, ThereNext
<1>5. ASSUME fpc = "wait", maint_done[Flusher]
      PROVE  KeptNext(fseg.slot, fseg.seg)
  <2>1. /\ fseg.slot \in Slot /\ fseg.seg \in Segment /\ fseg.seg \in memtables[fseg.slot]
        /\ fseg.seg[2] \in files[fseg.seg[1]] /\ is_writable(valid[fseg.slot])
        /\ Kept(fseg.slot, fseg.seg)
    BY <1>0, <1>5 DEF SlotLife, MaintTypes, Flushing
  <2>2. PICK x \in Index, s \in Sid : fseg.seg = <<x, s>>
    BY <2>1 DEF Segment
  <2>3. x = indexRelId[fseg.slot] /\ s \in files[x] /\ Kept(fseg.slot, <<x, s>>)
    BY <2>1, <2>2 DEF OwnMemtables
  <2>4. KeptNext(fseg.slot, <<x, s>>)
    BY <2>1, <2>3, KeptStays
  <2> QED
    BY <2>2, <2>4
<1>6. ASSUME NEW p \in Backend,
             (\E x \in Index : Resolve(p, x)) \/ BackendStep(p) \/ LoadError(p)
      PROVE  UNCHANGED <<fpc, fseg>> /\ (maint_done'[Flusher] <=> maint_done[Flusher])
  <2>1. UNCHANGED <<fpc, fseg>>
    BY <1>0, <1>6, BackendSlots
  <2>2. CASE LoadSubmit(p)
    BY <1>0, <2>1, <2>2, TaskFacts DEF LoadSubmit, MaintTypes, Client
  <2>3. CASE ~LoadSubmit(p)
    BY <1>6, <2>1, <2>3
       DEF BackendStep, Resolve, ClaimFound, ClaimFree, ClaimLabel, ClaimSignal, ClaimReset,
           Waited, Write, EnsureLoaded, WinLoad, LoadError, LoadPublish, LoadWaited, Search
  <2> QED
    BY <2>2, <2>3
<1>7. ASSUME WorkerStep \/ RecoverStep \/ WorkerDie
      PROVE  UNCHANGED <<fpc, fseg>> /\ (maint_done'[Flusher] <=> maint_done[Flusher])
  BY <1>0, <1>7, RecoverySlots
<1>8. ASSUME NEW t \in Thread, ThreadStep(t)
      PROVE  /\ UNCHANGED <<fpc, fseg>>
             /\ fpc = "wait" /\ maint_done'[Flusher] => KeptNext(fseg.slot, fseg.seg)
  <2>1. UNCHANGED <<fpc, fseg, valid, pc, slot>>
    BY <1>8, ThreadFrame
  <2>2. CASE maint_done[Flusher]
    BY <1>5, <2>1, <2>2
  <2>3. CASE ~maint_done[Flusher] /\ ~maint_done'[Flusher]
    BY <2>1, <2>3
  <2>4. CASE ~maint_done[Flusher] /\ maint_done'[Flusher]
    <3>1. CASE Take(t) \/ LoadScan(t)
      BY <2>4, <3>1 DEF Take, LoadScan
    <3>2. CASE LoadFill(t)
      <4>1. ttask[t].client # Flusher
        BY <1>0, <3>2, Filling, TaskFacts DEF LoadFill
      <4>2. maint_done'[Flusher] = (maint_done[Flusher] \/ Flusher = ttask[t].client)
        BY <1>0, <3>2, FillPool DEF Client
      <4> QED
        BY <2>4, <4>1, <4>2
    <3>3. CASE Register(t)
      <4>1. /\ ttask[t].slot = fseg.slot /\ ttask[t].seg = fseg.seg /\ fseg.slot \in Slot
            /\ fseg.seg \in Segment
            /\ pool'[fseg.slot][fseg.seg] =
                 IF pool[fseg.slot][fseg.seg] = 0 THEN 1 ELSE pool[fseg.slot][fseg.seg]
        BY <1>0, <3>3, RegisterPool
      <4>2. pool[fseg.slot][fseg.seg] \in Nat
        BY <1>0, <4>1 DEF MaintTypes
      <4>3. ThereNext(fseg.slot, fseg.seg)
        BY <4>1, <4>2 DEF ThereNext
      <4> QED
        BY <2>1, <4>3 DEF KeptNext
    <3>4. CASE WaitQueryable(t) \/ WaitGiveUp(t)
      <4>1. ttask[t] \in RegularTask /\ Awaited(ttask[t]) /\ Works(t)
        BY <1>0, <3>4 DEF WaitQueryable, WaitGiveUp, TasksAwaited, Works
      <4>2. /\ ttask[t].slot = fseg.slot /\ ttask[t].seg = fseg.seg /\ fpc = "wait"
            /\ fseg.slot \in Slot
        BY <4>1, TaskFacts DEF Awaited
      <4>3. CASE WaitGiveUp(t)
        <5>1. ThereNext(fseg.slot, fseg.seg)
          BY <4>2, <4>3 DEF WaitGiveUp, ThereNext
        <5> QED
          BY <2>1, <5>1 DEF KeptNext
      <4>4. CASE WaitQueryable(t)
        <5>1. valid[fseg.slot] = "WRITABLE"
          BY <1>0, <2>4, <4>2, <4>4 DEF WaitQueryable, SlotLife, is_writable
        <5>2. \A p \in Backend : ~(pc'[p] = "loading" /\ slot'[p] = fseg.slot)
          BY <1>0, <2>1, <5>1 DEF SlotLife, Loading
        <5>3. \A u \in Thread : tpc'[u] = "fill" => tpc[u] = "fill" /\ ttask'[u] = ttask[u]
          BY <1>0, <4>4 DEF WaitQueryable, Answer, MaintTypes
        <5>4. \A u \in Thread : ~(tpc'[u] = "fill" /\ ttask'[u].slot = fseg.slot)
          BY <1>0, <5>1, <5>3, Filling
        <5> QED
          BY <2>1, <5>1, <5>2, <5>4 DEF KeptNext
      <4> QED
        BY <3>4, <4>3, <4>4
    <3> QED
      BY <1>8, <3>1, <3>2, <3>3, <3>4 DEF ThreadStep
  <2> QED
    BY <2>1, <2>2, <2>3, <2>4
<1>9. CASE FlushStep
  BY <1>1, <1>2, <1>3, <1>9 DEF FlushStep
<1>10. CASE ~FlushStep
  <2>1. UNCHANGED <<fpc, fseg>>
    BY <1>6, <1>7, <1>8, <1>10 DEF Next
  <2>2. fpc = "wait" /\ maint_done'[Flusher] => KeptNext(fseg.slot, fseg.seg)
    BY <1>5, <1>6, <1>7, <1>8, <1>10 DEF Next
  <2>3. CASE fpc = "idle"
    BY <2>1, <2>3 DEF Flushing
  <2>4. CASE fpc # "idle"
    BY <1>4, <1>10, <2>1, <2>2, <2>4
  <2> QED
    BY <2>3, <2>4
<1> QED
  BY <1>9, <1>10

\* A slot that has just been recovered holds all that was found of its index.
LEMMA RecoveredKept ==
    ASSUME LifeInv, Labelled, Untouched, Next,
           NEW i \in Slot, ~is_writable(valid[i]), is_writable(valid'[i])
    PROVE  /\ \A s \in status_sids'[indexRelId'[i]] : <<indexRelId'[i], s>> \in memtables'[i]
           /\ \A s \in files'[indexRelId'[i]] : KeptNext(i, <<indexRelId'[i], s>>)
<1>0. /\ SlotTypes /\ ClientTypes /\ WorkerTypes /\ MaintTypes /\ TypeOK /\ SlotLife
      /\ Recovering /\ TasksAwaited
  BY Types DEF LifeInv
<1>1. RecoverPublish /\ i = rslot
  <2>1. ASSUME NEW p \in Backend,
               (\E x \in Index : Resolve(p, x)) \/ BackendStep(p) \/ LoadError(p)
        PROVE  FALSE
    <3>1. \/ valid'[i] \in {"FREE", "RECOVERING"} \/ valid'[i] = valid[i]
          \/ i = slot[p] /\ pc[p] \in Holding
      BY <1>0, <2>1, BackendSlots DEF Holding
    <3> QED
      BY <1>0, <3>1 DEF SlotLife, is_writable
  <2>2. CASE FlushStep
    BY <2>2, FlushFrame
  <2>3. ASSUME NEW t \in Thread, ThreadStep(t) PROVE FALSE
    BY <2>3, ThreadFrame
  <2>4. CASE WorkerStep \/ RecoverStep \/ WorkerDie
    <3>1. valid'[i] # valid[i]
      OBVIOUS
    <3>2. i = rslot /\ valid'[i] # "FREE"
      BY <1>0, <2>4, <3>1, RecoverySlots DEF is_writable
    <3>3. ~RecoverFail
      BY <1>0, <3>2 DEF RecoverFail, SlotTypes, WorkerTypes
    <3> QED
      BY <2>4, <3>1, <3>2, <3>3
         DEF WorkerStep, RecoverStep, WorkerStart, WorkerWake, WorkerPick, WorkerScanned,
             RecoverOpen, WorkerDie
  <2> QED
    BY <2>1, <2>2, <2>3, <2>4 DEF Next
<1>2. /\ rrel \in Index /\ indexRelId[i] = rrel /\ valid[i] = "RECOVERING"
  BY <1>0, <1>1 DEF RecoverPublish, Recovering, Labelled, WorkerTypes
<1>3. files[rrel] = {1} /\ status_sids[rrel] = {2}
  <2>1. \A j \in Slot : indexRelId[j] = rrel => j = i
    BY <1>2, SlotsAssumption DEF Labelled
  <2>2. ~\E j \in Slot : is_writable(valid[j]) /\ indexRelId[j] = rrel
    BY <2>1
  <2> QED
    BY <1>2, <2>2 DEF Untouched, START_SEGMENT_ID
<1>4. Max(files[rrel]) = 1
  BY <1>3 DEF Max
<1>5. {t \in status_sids[rrel] : t > Max(files[rrel])} = {2}
  BY <1>3, <1>4
<1>6. memtables'[i] = {<<rrel, s>> : s \in {2}}
  BY <1>0, <1>1, <1>5 DEF RecoverPublish, SlotTypes
<1>7. /\ indexRelId'[i] = rrel /\ status_sids' = status_sids /\ valid'[i] = "WRITABLE"
      /\ UNCHANGED <<pc, slot, tpc, ttask>>
  BY <1>0, <1>1, <1>2 DEF RecoverPublish, SlotTypes
<1>8. \A p \in Backend : ~(pc'[p] = "loading" /\ slot'[p] = i)
  BY <1>0, <1>2, <1>7 DEF SlotLife, Loading
<1>9. \A t \in Thread : ~(tpc'[t] = "fill" /\ ttask'[t].slot = i)
  BY <1>0, <1>2, <1>7, Filling
<1>10. \A g : KeptNext(i, g)
  BY <1>7, <1>8, <1>9 DEF KeptNext
<1> QED
  BY <1>3, <1>6, <1>7, <1>10

\* Every memtable or file of a writable slot's index is accounted for.
LEMMA AllKeptStep ==
    ASSUME LifeInv, Claimed, Labelled, OwnMemtables, Untouched, Flushing, AllKept, Next
    PROVE  AllKept'
<1>0. SlotTypes /\ MaintTypes /\ SlotLife
  BY Types DEF LifeInv
<1>1. ASSUME NEW i \in Slot, is_writable(valid'[i]), is_writable(valid[i])
      PROVE  /\ \A s \in status_sids'[indexRelId'[i]] :
                  <<indexRelId'[i], s>> \in memtables'[i] \/ s \in files'[indexRelId'[i]]
             /\ \A s \in files'[indexRelId'[i]] :
                  <<indexRelId'[i], s>> \in memtables'[i] \/ KeptNext(i, <<indexRelId'[i], s>>)
  <2>1. PICK x \in Index : x = indexRelId[i] /\ x = indexRelId'[i]
    BY <1>1, StaysHome
  <2>2. \A j \in Slot : indexRelId[j] = x => j = i
    BY <2>1, SlotsAssumption, ZenonT(40) DEF Labelled
  <2>3. ASSUME NEW s, <<x, s>> \in memtables[i], <<x, s>> \notin memtables'[i]
        PROVE  s \in files[x] /\ Kept(i, <<x, s>>)
    <3>1. FlushUnlink /\ <<x, s>> = fseg.seg /\ i = fseg.slot
      BY <2>3, DiskStep
    <3>2. fpc = "wait" /\ maint_done[Flusher]
      BY <3>1 DEF FlushUnlink
    <3>3. /\ fseg.seg[2] \in files[fseg.seg[1]] /\ Kept(fseg.slot, fseg.seg)
      BY <3>2 DEF Flushing
    <3>4. fseg.seg[1] = x /\ fseg.seg[2] = s
      BY <3>1
    <3> QED
      BY <3>1, <3>3, <3>4
  <2>4. ASSUME NEW s \in status_sids'[x] PROVE <<x, s>> \in memtables'[i] \/ s \in files'[x]
    <3>1. CASE s \notin status_sids[x]
      BY <2>2, <2>4, <3>1, DiskStep
    <3>2. CASE s \in status_sids[x]
      <4>1. <<x, s>> \in memtables[i] \/ s \in files[x]
        BY <1>1, <2>1, <3>2 DEF AllKept
      <4>2. <<x, s>> \in memtables'[i] \/ s \in files[x]
        BY <2>3, <4>1
      <4> QED
        BY <4>2, DiskStep
    <3> QED
      BY <3>1, <3>2
  <2>5. ASSUME NEW s \in files'[x] PROVE <<x, s>> \in memtables'[i] \/ KeptNext(i, <<x, s>>)
    <3>1. CASE s \notin files[x]
      BY <2>2, <2>5, <3>1, DiskStep
    <3>2. CASE s \in files[x]
      <4>1. <<x, s>> \in memtables[i] \/ Kept(i, <<x, s>>)
        BY <1>1, <2>1, <3>2 DEF AllKept
      <4>2. <<x, s>> \in memtables'[i] \/ Kept(i, <<x, s>>)
        BY <2>3, <4>1
      <4>3. Kept(i, <<x, s>>) => KeptNext(i, <<x, s>>)
        BY <1>1, <2>1, <3>2, KeptStays
      <4> QED
        BY <4>2, <4>3
    <3> QED
      BY <3>1, <3>2
  <2> QED
    BY <2>1, <2>4, <2>5
<1>2. ASSUME NEW i \in Slot, is_writable(valid'[i]), ~is_writable(valid[i])
      PROVE  /\ \A s \in status_sids'[indexRelId'[i]] :
                  <<indexRelId'[i], s>> \in memtables'[i] \/ s \in files'[indexRelId'[i]]
             /\ \A s \in files'[indexRelId'[i]] :
                  <<indexRelId'[i], s>> \in memtables'[i] \/ KeptNext(i, <<indexRelId'[i], s>>)
  BY <1>2, RecoveredKept
<1> QED
  BY <1>1, <1>2 DEF AllKept, Kept, KeptNext, There, ThereNext

\* Every step keeps ServeInv.
LEMMA ServeStep ==
    ASSUME LifeInv, OwnInv, ServeInv, [Next]_vars
    PROVE  ServeInv'
<1>1. CASE Next
  <2>1. SUFFICES ASSUME ~freed' PROVE Untouched' /\ Flushing' /\ AllKept'
    BY DEF ServeInv
  <2>2. Claimed /\ Labelled /\ OwnMemtables /\ Untouched /\ Flushing /\ AllKept
    BY <1>1, <2>1, NothingFreed DEF OwnInv, ServeInv
  <2> QED
    BY <1>1, <2>2, UntouchedStep, FlushingStep, AllKeptStep
<1>2. CASE UNCHANGED vars
  BY <1>2 DEF vars, ServeInv, Untouched, Flushing, AllKept, Kept, There
<1> QED
  BY <1>1, <1>2

\* The invariant of the slots: LifeInv, OwnInv and ServeInv together.
THEOREM Invariant == Spec => []IndInv
<1>1. Init => IndInv
  <2>1. Init => OwnInv
    BY DEF Init, OwnInv, Claimed, Labelled, OwnMemtables, Holding, Works
  <2>2. Init => ServeInv
    BY DEF Init, ServeInv, Untouched, Flushing, AllKept, is_writable
  <2> QED
    BY <2>1, <2>2, LifeInit DEF IndInv
<1>2. IndInv /\ [Next]_vars => IndInv'
  BY LifeStep, OwnStep, ServeStep DEF IndInv
<1> QED
  BY <1>1, <1>2, PTL DEF Spec

\* As long as no slot has been given back, a slot that is QUERYABLE serves every
\* memtable its index ever had, from memory or from the pool, but for those
\* whose registration gave up.
THEOREM QueryableServesAll == Spec => []Served
<1>1. IndInv => Served
  <2>1. SUFFICES ASSUME IndInv, ~freed, NEW i \in Slot, valid[i] = "QUERYABLE",
                        NEW s \in files[indexRelId[i]] \cup status_sids[indexRelId[i]]
                 PROVE  \/ <<indexRelId[i], s>> \in memtables[i]
                        \/ pool[i][<<indexRelId[i], s>>] > 0
                        \/ <<indexRelId[i], s>> \in gaveup
    BY DEF Served
  <2>2. AllKept /\ is_writable(valid[i])
    BY <2>1 DEF IndInv, ServeInv, is_writable
  <2>3. <<indexRelId[i], s>> \in memtables[i] \/ Kept(i, <<indexRelId[i], s>>)
    BY <2>2 DEF AllKept
  <2> QED
    BY <2>1, <2>3 DEF Kept, There
<1> QED
  BY <1>1, Invariant, PTL

===============================================================================
