----------------------------- MODULE IndexSlots -----------------------------
(***************************************************************************)
(* The life of an index slot: LSM_SLOT_FREE -> RECOVERING -> WRITABLE ->   *)
(* LOADING_INDEX -> QUERYABLE.                                             *)
(*                                                                         *)
(*   - backends resolve an index to a slot, claiming a free one when there *)
(*     is none, write to it, or make it queryable and search it            *)
(*   - the IndexRecoveryWorker recovers claimed slots, fails on some and   *)
(*     may be restarted                                                    *)
(*   - the flusher writes sealed memtables out and has them registered     *)
(*   - the maintenance threads of the vector index worker serve IndexLoad  *)
(*     and SEGMENT_UPDATE_REGULAR tasks in the order of their queue        *)
(*                                                                         *)
(* A memtable or a segment is <<x, s>>: sid s of index x.  The slot's      *)
(* memory is what its memtables and its FlushedSegmentPool hold; a wait on *)
(* state_cv is the guard of the step that ends it, since every change of   *)
(* the state is followed by a broadcast.                                   *)
(***************************************************************************)
EXTENDS Integers, Sequences, FiniteSets, FiniteSetsExt

CONSTANTS
    Reader,          \* backends that search
    Writer,          \* backends that insert
    Index,           \* index relations
    NoIndex,         \* InvalidOid
    Thread,          \* maintenance threads
    INDEX_BUF_SIZE,  \* slots of SharedLSMIndexBuffer
    LastSid,         \* bound: sids 1 .. LastSid of every index
    MaxOps,          \* bound on the number of reads and writes
    MaxFailures,     \* bound on recoveries that fail
    MaxErrors,       \* bound on loads that fail before the task is sent
    MaxRestarts      \* bound on restarts of the IndexRecoveryWorker

ASSUME SlotsAssumption ==
    /\ NoIndex \notin Index
    /\ "flusher" \notin Reader \cup Writer
    /\ INDEX_BUF_SIZE \in Nat \ {0}
    /\ LastSid \in Nat /\ LastSid >= 2
    /\ {MaxOps, MaxFailures, MaxErrors, MaxRestarts} \subseteq Nat

VARIABLES
    \* SharedLSMIndexBuffer: its lock and its slots
    lock, valid, state_error, indexRelId, memtables,
    \* history: a slot has gone back to FREE
    freed,
    \* the FlushedSegmentPool of each slot: how often it holds a segment
    pool,
    \* the directory and the status pages of each index
    files, status_sids,
    \* backends
    pc, want, slot,
    \* IndexRecoveryWorker and SharedIndexRecoveryCoordinator->worker_pgprocno
    wpc, wlatch, worker_up, cursor, found_work, rslot, rrel,
    \* counters behind the bounds
    ops, errors, failures, restarts,
    \* the flusher
    fpc, fseg,
    \* the maintenance pool: queue, threads, completion flags; what gave up
    queue, tpc, ttask, tscan, maint_done, gaveup

slotVars   == <<lock, valid, state_error, indexRelId, memtables, freed>>
diskVars   == <<files, status_sids>>
clientVars == <<pc, want, slot>>
workerVars == <<wpc, wlatch, worker_up, cursor, found_work, rslot, rrel>>
bounds     == <<ops, errors, failures, restarts>>
flushVars  == <<fpc, fseg>>
maintVars  == <<queue, tpc, ttask, tscan, maint_done, gaveup>>

vars == <<slotVars, pool, diskVars, clientVars, workerVars, bounds, flushVars,
          maintVars>>

\* What a step of a backend leaves alone.
Others == <<pool, workerVars, flushVars, maintVars>>

Slot    == 0 .. INDEX_BUF_SIZE - 1
Sid     == 1 .. LastSid
Segment == Index \X Sid
State   == {"FREE", "RECOVERING", "WRITABLE", "LOADING_INDEX", "QUERYABLE"}

START_SEGMENT_ID == 1
Flusher == "flusher"
Backend == Reader \cup Writer
Client  == Backend \cup {Flusher}
NoTask  == [type |-> "none"]
LoadTask == [type : {"load"}, slot : Slot, rel : Index, client : Backend]
RegularTask == [type : {"regular"}, slot : Slot, seg : Segment, client : {Flusher}]
NoSegment == [slot |-> 0, seg |-> <<NoIndex, 0>>]

is_writable(v) == v \in {"WRITABLE", "LOADING_INDEX", "QUERYABLE"}

\* The slots a scan for x finds, lowest first.
SlotsOf(x) == {i \in Slot : valid[i] # "FREE" /\ indexRelId[i] = x}
FreeSlots  == {i \in Slot : valid[i] = "FREE"}

\* p goes on at l, or is back from its call.
Goto(p, l) == pc' = [pc EXCEPT ![p] = l] /\ UNCHANGED <<want, slot>>

Return(p) ==
    /\ pc' = [pc EXCEPT ![p] = "idle"]
    /\ want' = [want EXCEPT ![p] = NoIndex]
    /\ slot' = [slot EXCEPT ![p] = 0]

-----------------------------------------------------------------------------
(* Resolving an index to a slot.                                           *)

\* A backend starts to read or to write x: the lock-free scan of
\* get_lsm_index_idx, for the caller to wait, or to claim a slot.
Resolve(p, x) ==
    /\ pc[p] = "idle" /\ ops < MaxOps
    /\ ops' = ops + 1
    /\ want' = [want EXCEPT ![p] = x]
    /\ IF SlotsOf(x) = {}
         THEN pc' = [pc EXCEPT ![p] = "claim"] /\ UNCHANGED slot
         ELSE LET i == Min(SlotsOf(x)) IN
              /\ slot' = [slot EXCEPT ![p] = i]
              /\ pc' = [pc EXCEPT ![p] =
                          IF is_writable(valid[i]) THEN "have" ELSE "wait"]
    /\ UNCHANGED <<slotVars, diskVars, errors, failures, restarts, Others>>

\* claim_or_find_lsm_index_slot takes the buffer lock and looks again.
ClaimFound(p) ==
    /\ pc[p] = "claim" /\ lock = {}
    /\ SlotsOf(want[p]) # {}
    /\ LET i == Min(SlotsOf(want[p])) IN
       /\ slot' = [slot EXCEPT ![p] = i]
       /\ pc' = [pc EXCEPT ![p] =
                   IF is_writable(valid[i]) THEN "have" ELSE "wait"]
    /\ UNCHANGED <<slotVars, diskVars, want, bounds, Others>>

\* Deviation: it has only looked without the lock.
ClaimFreeUnchecked(p) ==
    /\ pc[p] = "claim" /\ lock = {} /\ FreeSlots # {}
    /\ LET i == Min(FreeSlots) IN
       /\ valid' = [valid EXCEPT ![i] = "RECOVERING"]
       /\ slot' = [slot EXCEPT ![p] = i]
    /\ lock' = {p}
    /\ pc' = [pc EXCEPT ![p] = "label"]
    /\ UNCHANGED <<state_error, indexRelId, memtables, freed, diskVars, want, bounds,
                   Others>>

\* It takes the first free slot, and keeps the lock until the slot is labelled.
\* No free slot is an ERROR.
ClaimFree(p) ==
    /\ pc[p] = "claim" /\ lock = {}
    /\ SlotsOf(want[p]) = {}
    /\ IF FreeSlots = {}
         THEN Return(p) /\ UNCHANGED <<valid, lock>>
         ELSE LET i == Min(FreeSlots) IN
              /\ valid' = [valid EXCEPT ![i] = "RECOVERING"]
              /\ slot' = [slot EXCEPT ![p] = i]
              /\ lock' = {p}
              /\ pc' = [pc EXCEPT ![p] = "label"]
              /\ UNCHANGED want
    /\ UNCHANGED <<state_error, indexRelId, memtables, freed, diskVars, bounds, Others>>

ClaimLabel(p) ==
    /\ pc[p] = "label"
    /\ state_error' = [state_error EXCEPT ![slot[p]] = 0]
    /\ indexRelId' = [indexRelId EXCEPT ![slot[p]] = want[p]]
    /\ lock' = {}
    /\ Goto(p, "signal")
    /\ UNCHANGED <<valid, memtables, freed, diskVars, bounds, Others>>

\* Wake the worker.  A latch set for a worker that has just died wakes nobody.
ClaimSignal(p) ==
    /\ pc[p] = "signal" /\ worker_up
    /\ wlatch' = (wlatch \/ wpc # "down")
    /\ Goto(p, "wait")
    /\ UNCHANGED <<slotVars, pool, diskVars, wpc, worker_up, cursor, found_work,
                   rslot, rrel, bounds, flushVars, maintVars>>

\* No worker: reset the slot and raise an ERROR.
ClaimReset(p) ==
    /\ pc[p] = "signal" /\ ~worker_up
    /\ valid' = [valid EXCEPT ![slot[p]] = "FREE"]
    /\ freed' = TRUE
    /\ Return(p)
    /\ UNCHANGED <<lock, state_error, indexRelId, memtables, diskVars, bounds, Others>>

\* The end of the wait for recovery: the slot, or an ERROR.
Waited(p) ==
    /\ pc[p] = "wait" /\ valid[slot[p]] # "RECOVERING"
    /\ IF is_writable(valid[slot[p]]) /\ state_error[slot[p]] = 0
         THEN Goto(p, "have") ELSE Return(p)
    /\ UNCHANGED <<slotVars, diskVars, bounds, Others>>

-----------------------------------------------------------------------------
(* Writing, and reading after ensure_index_loaded.                         *)

\* An insert that fills the growing memtable: it is sealed, the next one is
\* registered on the status pages of the index.
Write(p) ==
    /\ pc[p] = "have" /\ p \in Writer
    /\ LET x == want[p]
           s == Max(files[x] \cup status_sids[x]) + 1 IN
       IF s \in Sid
         THEN /\ memtables' = [memtables EXCEPT ![slot[p]] = @ \cup {<<x, s>>}]
              /\ status_sids' = [status_sids EXCEPT ![x] = @ \cup {s}]
         ELSE UNCHANGED <<memtables, status_sids>>
    /\ Return(p)
    /\ UNCHANGED <<lock, valid, state_error, indexRelId, freed, files, bounds, Others>>

\* ensure_index_loaded: the slot is queryable, or another backend loads it.
EnsureLoaded(p) ==
    /\ pc[p] = "have" /\ p \in Reader /\ valid[slot[p]] # "WRITABLE"
    /\ Goto(p, IF valid[slot[p]] = "QUERYABLE" THEN "search" ELSE "waitload")
    /\ UNCHANGED <<slotVars, diskVars, bounds, Others>>

\* The CAS to LOADING_INDEX makes p the loader.
WinLoad(p) ==
    /\ pc[p] = "have" /\ p \in Reader /\ valid[slot[p]] = "WRITABLE"
    /\ valid' = [valid EXCEPT ![slot[p]] = "LOADING_INDEX"]
    /\ state_error' = [state_error EXCEPT ![slot[p]] = 0]
    /\ Goto(p, "loader")
    /\ UNCHANGED <<lock, indexRelId, memtables, freed, diskVars, bounds, Others>>

\* The standby's fetch barrier times out or is cancelled, or the task cannot
\* be sent: PG_CATCH reverts the slot.
LoadError(p) ==
    /\ pc[p] = "loader" /\ errors < MaxErrors
    /\ errors' = errors + 1
    /\ state_error' = [state_error EXCEPT ![slot[p]] = 1]
    /\ valid' = [valid EXCEPT ![slot[p]] = "WRITABLE"]
    /\ Return(p)
    /\ UNCHANGED <<lock, indexRelId, memtables, freed, diskVars, ops, failures,
                   restarts, Others>>

\* index_load_blocking sends the task, with interrupts held off from here on.
LoadSubmit(p) ==
    /\ pc[p] = "loader"
    /\ maint_done' = [maint_done EXCEPT ![p] = FALSE]
    /\ queue' = Append(queue, [type |-> "load", slot |-> slot[p],
                               rel |-> indexRelId[slot[p]], client |-> p])
    /\ Goto(p, "loading")
    /\ UNCHANGED <<slotVars, pool, diskVars, workerVars, bounds, flushVars, tpc,
                   ttask, tscan, gaveup>>

LoadPublish(p) ==
    /\ pc[p] = "loading" /\ maint_done[p]
    /\ valid' = [valid EXCEPT ![slot[p]] = "QUERYABLE"]
    /\ Goto(p, "search")
    /\ UNCHANGED <<lock, state_error, indexRelId, memtables, freed, diskVars, bounds,
                   Others>>

\* Somebody else loads: his success is a success, his failure an ERROR.
LoadWaited(p) ==
    /\ pc[p] = "waitload" /\ valid[slot[p]] \in {"QUERYABLE", "WRITABLE"}
    /\ IF valid[slot[p]] = "QUERYABLE" THEN Goto(p, "search") ELSE Return(p)
    /\ UNCHANGED <<slotVars, diskVars, bounds, Others>>

\* The search itself, on a slot that was QUERYABLE.
Search(p) ==
    /\ pc[p] = "search"
    /\ Return(p)
    /\ UNCHANGED <<slotVars, diskVars, bounds, Others>>

-----------------------------------------------------------------------------
(* The IndexRecoveryWorker.                                                *)

\* The worker comes up, publishes its pgprocno and sets its own latch.
\* Deviation: it does not, and sleeps until somebody else sets it.
WorkerStartSilent ==
    /\ wpc = "down"
    /\ wpc' = "sleep" /\ worker_up' = TRUE
    /\ UNCHANGED <<slotVars, pool, diskVars, clientVars, wlatch, cursor, found_work,
                   rslot, rrel, bounds, flushVars, maintVars>>

WorkerStart ==
    /\ wpc = "down"
    /\ wpc' = "sleep" /\ wlatch' = TRUE /\ worker_up' = TRUE
    /\ UNCHANGED <<slotVars, pool, diskVars, clientVars, cursor, found_work, rslot,
                   rrel, bounds, flushVars, maintVars>>

WorkerWake ==
    /\ wpc = "sleep" /\ wlatch
    /\ wlatch' = FALSE
    /\ wpc' = "scan" /\ cursor' = 0 /\ found_work' = FALSE
    /\ UNCHANGED <<slotVars, pool, diskVars, clientVars, worker_up, rslot, rrel,
                   bounds, flushVars, maintVars>>

\* The slots that the scan, now at cursor, still finds RECOVERING.
Pending == {i \in Slot : i >= cursor /\ valid[i] = "RECOVERING"}

\* The next of them is taken; its index is read with no lock held.
WorkerPick ==
    /\ wpc = "scan" /\ Pending # {}
    /\ rslot' = Min(Pending)
    /\ rrel' = indexRelId[Min(Pending)]
    /\ found_work' = TRUE
    /\ wpc' = "open"
    /\ UNCHANGED <<slotVars, pool, diskVars, clientVars, wlatch, worker_up, cursor,
                   bounds, flushVars, maintVars>>

\* The end of a scan: scan again if it found work.
WorkerScanned ==
    /\ wpc = "scan" /\ Pending = {}
    /\ cursor' = 0 /\ found_work' = FALSE
    /\ wpc' = IF found_work THEN "scan" ELSE "sleep"
    /\ UNCHANGED <<slotVars, pool, diskVars, clientVars, wlatch, worker_up, rslot,
                   rrel, bounds, flushVars, maintVars>>

\* The scan goes on behind the slot just done.
ScanOn ==
    /\ wpc' = "scan" /\ cursor' = rslot + 1
    /\ rslot' = 0 /\ rrel' = NoIndex
    /\ UNCHANGED <<wlatch, worker_up, found_work>>

\* recover_lsm_index_internal opens the index and labels the slot.
RecoverOpen ==
    /\ wpc = "open" /\ rrel \in Index
    /\ indexRelId' = [indexRelId EXCEPT ![rslot] = rrel]
    /\ wpc' = "recover"
    /\ UNCHANGED <<lock, valid, state_error, memtables, freed, pool, diskVars,
                   clientVars, wlatch, worker_up, cursor, found_work, rslot, rrel,
                   bounds, flushVars, maintVars>>

\* It rebuilds the memtables of all sids beyond the last file and publishes.
RecoverPublish ==
    /\ wpc = "recover"
    /\ memtables' = [memtables EXCEPT ![rslot] =
          {<<rrel, s>> : s \in {t \in status_sids[rrel] : t > Max(files[rrel])}}]
    /\ valid' = [valid EXCEPT ![rslot] = "WRITABLE"]
    /\ ScanOn
    /\ UNCHANGED <<lock, state_error, indexRelId, freed, pool, diskVars, clientVars,
                   bounds, flushVars, maintVars>>

\* An ERROR in recovery, or a slot of a database the worker is not connected to.
RecoverFail ==
    /\ wpc \in {"open", "recover"}
    /\ failures < MaxFailures \/ rrel = NoIndex
    /\ failures' = Min({failures + 1, MaxFailures})
    /\ freed' = TRUE
    /\ state_error' = [state_error EXCEPT ![rslot] = 1]
    /\ valid' = [valid EXCEPT ![rslot] = "FREE"]
    /\ ScanOn
    /\ UNCHANGED <<lock, indexRelId, memtables, pool, diskVars, clientVars, ops,
                   errors, restarts, flushVars, maintVars>>

\* The worker dies while it connects or recovers; worker_pgprocno keeps its
\* value.
WorkerDie ==
    /\ wpc \in {"open", "recover"} /\ restarts < MaxRestarts
    /\ restarts' = restarts + 1
    /\ wpc' = "down" /\ wlatch' = FALSE
    /\ cursor' = 0 /\ found_work' = FALSE /\ rslot' = 0 /\ rrel' = NoIndex
    /\ UNCHANGED <<slotVars, pool, diskVars, clientVars, worker_up, ops, errors,
                   failures, flushVars, maintVars>>

-----------------------------------------------------------------------------
(* The flusher, and the maintenance threads.                               *)

\* The sealed memtables of slot i: all but the growing one.
Sealed(i) == {m \in memtables[i] : \E n \in memtables[i] : n[1] = m[1] /\ n[2] > m[2]}

\* flush_segment_to_disk.
FlushWrite(i) ==
    /\ fpc = "idle"
    /\ is_writable(valid[i]) /\ Sealed(i) # {}
    /\ \E m \in Sealed(i) :
         /\ \A n \in Sealed(i) : n[1] = m[1] => m[2] <= n[2]
         /\ files' = [files EXCEPT ![m[1]] = @ \cup {m[2]}]
         /\ fseg' = [slot |-> i, seg |-> m]
    /\ fpc' = "send"
    /\ UNCHANGED <<slotVars, pool, status_sids, clientVars, workerVars, bounds, maintVars>>

\* segment_update_blocking(SEGMENT_UPDATE_REGULAR).
FlushSend ==
    /\ fpc = "send"
    /\ maint_done' = [maint_done EXCEPT ![Flusher] = FALSE]
    /\ queue' = Append(queue, [type |-> "regular", slot |-> fseg.slot,
                               seg |-> fseg.seg, client |-> Flusher])
    /\ fpc' = "wait"
    /\ UNCHANGED <<slotVars, pool, diskVars, clientVars, workerVars, bounds, fseg, tpc,
                   ttask, tscan, gaveup>>

\* The worker has it: the memtable is unlinked and released.
FlushUnlink ==
    /\ fpc = "wait" /\ maint_done[Flusher]
    /\ memtables' = [memtables EXCEPT ![fseg.slot] = @ \ {fseg.seg}]
    /\ fpc' = "idle" /\ fseg' = NoSegment
    /\ UNCHANGED <<lock, valid, state_error, indexRelId, freed, pool, diskVars,
                   clientVars, workerVars, bounds, maintVars>>

Take(t) ==
    /\ tpc[t] = "idle" /\ queue # <<>>
    /\ ttask' = [ttask EXCEPT ![t] = Head(queue)]
    /\ tpc' = [tpc EXCEPT ![t] = Head(queue).type]
    /\ queue' = Tail(queue)
    /\ UNCHANGED <<slotVars, pool, diskVars, clientVars, workerVars, bounds, flushVars,
                   tscan, maint_done, gaveup>>

Answer(t) ==
    /\ maint_done' = [maint_done EXCEPT ![ttask[t].client] = TRUE]
    /\ ttask' = [ttask EXCEPT ![t] = NoTask]
    /\ tpc' = [tpc EXCEPT ![t] = "idle"]

\* IndexLoad: initialize_segment_pool, then the scan of the directory.
LoadScan(t) ==
    /\ tpc[t] = "load"
    /\ pool' = [pool EXCEPT ![ttask[t].slot] = [g \in Segment |-> 0]]
    /\ tscan' = [tscan EXCEPT ![t] = {ttask[t].rel} \X files[ttask[t].rel]]
    /\ tpc' = [tpc EXCEPT ![t] = "fill"]
    /\ UNCHANGED <<slotVars, diskVars, clientVars, workerVars, bounds, flushVars, queue,
                   ttask, maint_done, gaveup>>

\* The segments found are loaded and registered, and the loader is told.
LoadFill(t) ==
    /\ tpc[t] = "fill"
    /\ pool' = [pool EXCEPT ![ttask[t].slot] =
                  [g \in Segment |-> @[g] + (IF g \in tscan[t] THEN 1 ELSE 0)]]
    /\ tscan' = [tscan EXCEPT ![t] = {}]
    /\ Answer(t)
    /\ UNCHANGED <<slotVars, diskVars, clientVars, workerVars, bounds, flushVars, queue,
                   gaveup>>

\* wait_for_slot_queryable: poll while the slot is LOADING_INDEX; go on if it
\* is QUERYABLE, skip the task otherwise.
\* Deviation: skip the task of a slot that is being loaded, too.
WaitQueryableNoPoll(t) ==
    /\ tpc[t] = "regular"
    /\ IF valid[ttask[t].slot] = "QUERYABLE"
         THEN tpc' = [tpc EXCEPT ![t] = "dedup"] /\ UNCHANGED <<ttask, maint_done>>
         ELSE Answer(t)
    /\ UNCHANGED <<slotVars, pool, diskVars, clientVars, workerVars, bounds, flushVars,
                   queue, tscan, gaveup>>

WaitQueryable(t) ==
    /\ tpc[t] = "regular" /\ valid[ttask[t].slot] # "LOADING_INDEX"
    /\ IF valid[ttask[t].slot] = "QUERYABLE"
         THEN tpc' = [tpc EXCEPT ![t] = "dedup"] /\ UNCHANGED <<ttask, maint_done>>
         ELSE Answer(t)
    /\ UNCHANGED <<slotVars, pool, diskVars, clientVars, workerVars, bounds, flushVars,
                   queue, tscan, gaveup>>

\* MAX_ATTEMPTS polls later it gives up and skips the task.
\* Deviation: poll without a bound.
WaitGiveUpNever(t) == FALSE /\ UNCHANGED vars

WaitGiveUp(t) ==
    /\ tpc[t] = "regular" /\ valid[ttask[t].slot] = "LOADING_INDEX"
    /\ gaveup' = gaveup \cup {ttask[t].seg}
    /\ Answer(t)
    /\ UNCHANGED <<slotVars, pool, diskVars, clientVars, workerVars, bounds, flushVars,
                   queue, tscan>>

\* Unless the load has brought it in already, the segment is registered.
\* Deviation: register it in any case.
RegisterAlways(t) ==
    /\ tpc[t] = "dedup"
    /\ pool' = [pool EXCEPT ![ttask[t].slot][ttask[t].seg] = @ + 1]
    /\ Answer(t)
    /\ UNCHANGED <<slotVars, diskVars, clientVars, workerVars, bounds, flushVars, queue,
                   tscan, gaveup>>

Register(t) ==
    /\ tpc[t] = "dedup"
    /\ pool' = [pool EXCEPT ![ttask[t].slot][ttask[t].seg] =
                  IF @ = 0 THEN 1 ELSE @]
    /\ Answer(t)
    /\ UNCHANGED <<slotVars, diskVars, clientVars, workerVars, bounds, flushVars, queue,
                   tscan, gaveup>>

-----------------------------------------------------------------------------
(* The specification.                                                      *)

\* The server has just started; every index has its first segment on disk and
\* one growing memtable on its status pages.
Init ==
    /\ lock = {}
    /\ valid = [i \in Slot |-> "FREE"]
    /\ state_error = [i \in Slot |-> 0]
    /\ indexRelId = [i \in Slot |-> NoIndex]
    /\ memtables = [i \in Slot |-> {}]
    /\ freed = FALSE
    /\ pool = [i \in Slot |-> [g \in Segment |-> 0]]
    /\ files = [x \in Index |-> {START_SEGMENT_ID}]
    /\ status_sids = [x \in Index |-> {START_SEGMENT_ID + 1}]
    /\ pc = [p \in Backend |-> "idle"]
    /\ want = [p \in Backend |-> NoIndex]
    /\ slot = [p \in Backend |-> 0]
    /\ ops = 0
    /\ errors = 0
    /\ wpc = "down" /\ wlatch = FALSE /\ worker_up = FALSE
    /\ cursor = 0 /\ found_work = FALSE /\ rslot = 0 /\ rrel = NoIndex
    /\ failures = 0 /\ restarts = 0
    /\ fpc = "idle" /\ fseg = NoSegment
    /\ queue = <<>>
    /\ tpc = [t \in Thread |-> "idle"]
    /\ ttask = [t \in Thread |-> NoTask]
    /\ tscan = [t \in Thread |-> {}]
    /\ maint_done = [c \in Client |-> FALSE]
    /\ gaveup = {}

BackendStep(p) ==
    \/ ClaimFound(p) \/ ClaimFree(p) \/ ClaimLabel(p)
    \/ ClaimSignal(p) \/ ClaimReset(p) \/ Waited(p) \/ Write(p) \/ EnsureLoaded(p)
    \/ WinLoad(p) \/ LoadSubmit(p) \/ LoadPublish(p) \/ LoadWaited(p) \/ Search(p)

WorkerStep ==
    \/ WorkerStart \/ WorkerWake \/ WorkerPick \/ WorkerScanned
    \/ RecoverPublish

\* The worker's step into the index it recovers, or its failure.
RecoverStep == RecoverOpen \/ RecoverFail

FlushStep == (\E i \in Slot : FlushWrite(i)) \/ FlushSend \/ FlushUnlink

ThreadStep(t) ==
    \/ Take(t) \/ LoadScan(t) \/ LoadFill(t)
    \/ WaitQueryable(t) \/ WaitGiveUp(t) \/ Register(t)

Next ==
    \/ \E p \in Backend :
         \/ \E x \in Index : Resolve(p, x)
         \/ BackendStep(p) \/ LoadError(p)
    \/ WorkerStep \/ RecoverStep \/ WorkerDie
    \/ FlushStep
    \/ \E t \in Thread : ThreadStep(t)

Spec == Init /\ [][Next]_vars

\* Every process is scheduled; errors, failures and deaths need not happen.
Fairness ==
    /\ \A p \in Backend : WF_vars(BackendStep(p))
    /\ WF_vars(WorkerStep) /\ WF_vars(RecoverStep) /\ WF_vars(FlushStep)
    /\ \A t \in Thread : WF_vars(ThreadStep(t))

FairSpec == Spec /\ Fairness

-----------------------------------------------------------------------------
(* Properties.                                                             *)

\* Type correctness of the slots, the processes and the maintenance pool.
TypeOK ==
    /\ lock \in SUBSET Backend
    /\ valid \in [Slot -> State]
    /\ state_error \in [Slot -> {0, 1}]
    /\ indexRelId \in [Slot -> Index \cup {NoIndex}]
    /\ memtables \in [Slot -> SUBSET Segment]
    /\ freed \in BOOLEAN
    /\ pool \in [Slot -> [Segment -> Nat]]
    /\ files \in [Index -> SUBSET Sid] /\ status_sids \in [Index -> SUBSET Sid]
    /\ pc \in [Backend -> {"idle", "claim", "label", "signal", "wait", "have",
                           "loader", "loading", "waitload", "search"}]
    /\ want \in [Backend -> Index \cup {NoIndex}]
    /\ slot \in [Backend -> Slot]
    /\ wpc \in {"down", "sleep", "scan", "open", "recover"}
    /\ worker_up \in BOOLEAN
    /\ rslot \in Slot /\ rrel \in Index \cup {NoIndex}
    /\ fpc \in {"idle", "send", "wait"}
    /\ fseg \in [slot : Slot, seg : Segment \cup {<<NoIndex, 0>>}]
    /\ queue \in Seq(LoadTask \cup RegularTask)
    /\ tpc \in [Thread -> {"idle", "load", "fill", "regular", "dedup"}]
    /\ ttask \in [Thread -> LoadTask \cup RegularTask \cup {NoTask}]
    /\ tscan \in [Thread -> SUBSET Segment]
    /\ maint_done \in [Client -> BOOLEAN]

\* As long as no slot has been given back, an index has at most one slot, and a
\* backend that has resolved index x holds that slot, with no memtable of
\* another index in it: the lock-free scan, the claim under the buffer lock and
\* the recovery worker that takes neither lock agree on who owns a slot.
SlotOwned ==
    ~freed =>
    /\ \A i, j \in Slot :
         valid[i] # "FREE" /\ valid[j] # "FREE" /\ indexRelId[i] = indexRelId[j]
         /\ indexRelId[i] # NoIndex /\ lock = {} => i = j
    /\ \A p \in Backend :
         pc[p] \in {"have", "loader", "loading", "waitload", "search"} =>
           /\ indexRelId[slot[p]] = want[p]
           /\ \A m \in memtables[slot[p]] : m[1] = want[p]

\* A slot that is QUERYABLE serves every memtable its index ever had, from
\* memory or from the pool, although the load reads the directory while the
\* flusher adds to it and drops memtables; as long as no slot has been given back
\* after a failed recovery, and but for segments whose registration gave up
\* after MAX_ATTEMPTS polls.
Served ==
    ~freed =>
    \A i \in Slot : valid[i] = "QUERYABLE" =>
      LET x == indexRelId[i] IN
      \A s \in files[x] \cup status_sids[x] :
        \/ <<x, s>> \in memtables[i] \/ pool[i][<<x, s>>] > 0
        \/ <<x, s>> \in gaveup

\* No pool holds a segment twice, which would return its rows twice: the load
\* and SEGMENT_UPDATE_REGULAR meet at the dedup check only.
NoDuplicate == \A i \in Slot : \A g \in Segment : pool[i][g] <= 1

\* Whoever reads or writes an index gets his slot or an ERROR: no order of
\* claims, recoveries, failures, worker restarts, loads and flushes leaves him
\* waiting on state_cv or for maint_done for ever.
ResolveReturns == \A p \in Backend : pc[p] # "idle" ~> pc[p] = "idle"

\* A flush is answered, although its task may stand in front of the very load
\* that it waits for in the queue of the maintenance threads.
FlushAnswered == fpc = "wait" ~> fpc = "idle"

-----------------------------------------------------------------------------
(* The inductive invariants behind NoDuplicate, SlotOwned and Served.      *)

\* Who resolved an index works on a slot that has been labelled and recovered;
\* whoever loads it is alone, and the slot stays LOADING_INDEX until he is done.
Holding  == {"have", "loader", "loading", "waitload", "search"}
Loading  == {"loader", "loading"}
Claiming == {"label", "signal"}

SlotLife ==
    /\ \A i \in Slot : is_writable(valid[i]) => indexRelId[i] # NoIndex
    /\ \A p \in Backend : pc[p] # "idle" => want[p] # NoIndex
    /\ \A p \in Backend : pc[p] \in Holding => is_writable(valid[slot[p]])
    /\ \A p \in Backend : pc[p] \in Loading => valid[slot[p]] = "LOADING_INDEX"
    /\ \A p, q \in Backend :
         pc[p] \in Loading /\ pc[q] \in Loading /\ slot[p] = slot[q] => p = q
    /\ fpc # "idle" => fseg.seg \in Segment /\ is_writable(valid[fseg.slot])

\* A slot that is being recovered is left alone by everybody but the recovery
\* worker, and its claimer as long as there is no worker.
Recovering ==
    /\ ~worker_up => wpc = "down"
    /\ wpc \in {"open", "recover"} => worker_up /\ valid[rslot] = "RECOVERING"
    /\ wpc = "recover" => rrel # NoIndex /\ indexRelId[rslot] # NoIndex
    /\ ~worker_up => \A p \in Backend :
         pc[p] \in Claiming =>
           /\ valid[slot[p]] = "RECOVERING"
           /\ \A q \in Backend : pc[q] \in Claiming /\ slot[q] = slot[p] => q = p

\* A task is what its client waits for, and no client has two.
Awaited(k) ==
    \/ /\ k \in LoadTask /\ pc[k.client] = "loading" /\ k.slot = slot[k.client]
       /\ ~maint_done[k.client]
    \/ /\ k \in RegularTask /\ fpc = "wait" /\ k.slot = fseg.slot /\ k.seg = fseg.seg
       /\ ~maint_done[Flusher]

Works(t) == tpc[t] # "idle"

TasksAwaited ==
    /\ \A j \in DOMAIN queue : Awaited(queue[j])
    /\ \A t \in Thread : Works(t) =>
         /\ Awaited(ttask[t])
         /\ IF tpc[t] \in {"load", "fill"} THEN ttask[t] \in LoadTask
                                           ELSE ttask[t] \in RegularTask
    /\ \A i, j \in DOMAIN queue : queue[i].client = queue[j].client => i = j
    /\ \A j \in DOMAIN queue : \A t \in Thread :
         Works(t) => queue[j].client # ttask[t].client
    /\ \A t, u \in Thread :
         Works(t) /\ Works(u) /\ ttask[t].client = ttask[u].client => t = u

\* The pool of a slot is empty when the load fills it, and is added to by
\* SEGMENT_UPDATE_REGULAR only when the load is over.
PoolShape ==
    /\ \A t \in Thread : tpc[t] = "fill" => \A g \in Segment : pool[ttask[t].slot][g] = 0
    /\ \A t \in Thread : tpc[t] = "dedup" => valid[ttask[t].slot] = "QUERYABLE"
    /\ NoDuplicate

LifeInv == TypeOK /\ SlotLife /\ Recovering /\ TasksAwaited /\ PoolShape

\* The claim under the buffer lock: the slot has no label yet, and no other slot
\* has the label it will get.
Claimed ==
    \A p \in Backend : pc[p] = "label" =>
        /\ lock = {p} /\ valid[slot[p]] = "RECOVERING" /\ indexRelId[slot[p]] = NoIndex
        /\ \A i \in Slot : indexRelId[i] # want[p]

\* Every process goes by the label of the slot.
Labelled ==
    /\ \A i, j \in Slot : indexRelId[i] = indexRelId[j] /\ indexRelId[i] # NoIndex => i = j
    /\ \A i \in Slot : valid[i] = "FREE" => indexRelId[i] = NoIndex
    /\ \A p \in Backend :
         pc[p] \in Holding \cup {"signal", "wait"} => indexRelId[slot[p]] = want[p]
    /\ wpc \in {"open", "recover"} => rrel \in {NoIndex, indexRelId[rslot]}
    /\ \A j \in DOMAIN queue : queue[j].type = "load" => queue[j].rel = indexRelId[queue[j].slot]
    /\ \A t \in Thread : Works(t) /\ ttask[t].type = "load" =>
         ttask[t].rel = indexRelId[ttask[t].slot]

\* Memtables are those of the slot's index, once it is recovered.
OwnMemtables ==
    \A i \in Slot : \A m \in memtables[i] : is_writable(valid[i]) /\ m[1] = indexRelId[i]

OwnInv == ~freed => Claimed /\ Labelled /\ OwnMemtables

\* Segment g of the index of slot i needs no memtable: it is or will be in the
\* pool, by the load or by its registration.
There(i, g) == pool[i][g] > 0 \/ g \in gaveup

Kept(i, g) ==
    /\ valid[i] = "QUERYABLE" => There(i, g)
    /\ \A p \in Backend : pc[p] = "loading" /\ slot[p] = i /\ maint_done[p] => There(i, g)
    /\ \A t \in Thread : tpc[t] = "fill" /\ ttask[t].slot = i => g \in tscan[t] \/ There(i, g)

\* An index that no slot has recovered is as it was found.
Untouched ==
    \A x \in Index :
        \/ files[x] = {START_SEGMENT_ID} /\ status_sids[x] = {START_SEGMENT_ID + 1}
        \/ \E i \in Slot : is_writable(valid[i]) /\ indexRelId[i] = x

\* The flusher drops a memtable after the worker has said that it has it.
Flushing ==
    fpc # "idle" =>
        /\ fseg.seg \in memtables[fseg.slot]
        /\ fseg.seg[2] \in files[fseg.seg[1]]
        /\ fpc = "wait" /\ maint_done[Flusher] => Kept(fseg.slot, fseg.seg)

AllKept ==
    \A i \in Slot : is_writable(valid[i]) =>
        /\ \A s \in status_sids[indexRelId[i]] :
             <<indexRelId[i], s>> \in memtables[i] \/ s \in files[indexRelId[i]]
        /\ \A s \in files[indexRelId[i]] :
             <<indexRelId[i], s>> \in memtables[i] \/ Kept(i, <<indexRelId[i], s>>)

ServeInv == ~freed => Untouched /\ Flushing /\ AllKept

IndInv == LifeInv /\ OwnInv /\ ServeInv

=============================================================================
