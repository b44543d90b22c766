------------------------------ MODULE TaskRing ------------------------------
(***************************************************************************)
(* The task ring in shared memory, the result slots, and the vector index  *)
(* worker behind them.                                                     *)
(*                                                                         *)
(*   - clients put search and maintenance tasks into the ring and wait for *)
(*     a flag in their own result slot; the latch is a hint only           *)
(*   - the worker's main loop drains the ring: a search is split into one  *)
(*     task per segment, a maintenance task goes to the maintenance queue  *)
(*   - search threads count down; the last one writes the answer           *)
(*   - maintenance threads serve their queue and set the completion flag   *)
(*                                                                         *)
(* A step under the ring lock is one action.  Values carry the number of   *)
(* the request they belong to, which the code does not store.              *)
(***************************************************************************)
EXTENDS Integers, Sequences, FiniteSets, SequencesExt

CONSTANTS
    Backend,       \* MaxBackends processes, with a ring slot each
    Aux,           \* auxiliary processes: the startup process during redo
    Thread,        \* maintenance threads
    MAINTENANCE_TASK_QUEUE_SIZE,
    MaxRequests,   \* bound: requests accepted in all
    MaxSegments,   \* bound: segments of one search, upgrades of one load
    MaxRestarts    \* bound: errors that restart the worker

ASSUME RingAssumption ==
    /\ Backend \cap Aux = {}
    /\ IsFiniteSet(Backend) /\ Backend # {}
    /\ MAINTENANCE_TASK_QUEUE_SIZE \in Nat \ {0}
    /\ {MaxRequests, MaxSegments, MaxRestarts} \subseteq Nat

VARIABLES
    \* RingBufferShmem and the search task pool
    ring, head, tail, count, worker_known,
    \* VectorSearchResultData of every client
    status, result_count, payload, maint_status, maint_done,
    \* clients: where they are, what they ask; history: number of requests,
    \* what a right answer to the last one says
    pc, kind, reqs, expect,
    \* the worker's main loop, and how often it was restarted
    wpc, wlatch, restarts,
    \* searches under way: ConcurrentSearchContext
    ctx,
    \* the maintenance pool
    queue, tpc, ttask,
    \* history: clients whose task was dropped or died with the worker
    lost

ringVars   == <<ring, head, tail, count, worker_known>>
slotVars   == <<status, result_count, payload, maint_status, maint_done>>
clientVars == <<pc, kind, reqs, expect>>
workerVars == <<wpc, wlatch, restarts>>
poolVars   == <<queue, tpc, ttask>>

vars == <<ringVars, slotVars, clientVars, workerVars, ctx, poolVars, lost>>

Client    == Backend \cup Aux
ring_size == Cardinality(Backend)
Slot      == 0 .. ring_size - 1
Request   == 1 .. MaxRequests
Cell      == [req : {0} \cup Request, num : 0 .. MaxSegments]
NoCell    == [req |-> 0, num |-> 0]
NoTask    == [type |-> "none"]
Task      == [type : {"search", "load", "update"}, client : Client, req : Request]
Upgrade   == [type |-> "upgrade"]

\* What a segment update may answer: OK, or something else (RETRY, STALE).
MaintResult == 0 .. 1

\* How many requests there have been, for the bound.
Requests == MapThenSumSet(LAMBDA c : reqs[c], Client)
MaySend(c) == reqs[c] < MaxRequests /\ Requests < MaxRequests

Goto(c, l) == pc' = [pc EXCEPT ![c] = l]

NoContext == [segs |-> {}, found |-> {}, remaining |-> 0, counted |-> {},
              stage |-> "none"]

-----------------------------------------------------------------------------
(* Clients: tasksend.c.                                                    *)

\* get_ring_buffer_slot, and the task written to the slot.
Enqueue(t) ==
    /\ ring' = [ring EXCEPT ![tail] = t]
    /\ tail' = (tail + 1) % ring_size
    /\ count' = count + 1
    /\ UNCHANGED <<head, worker_known>>

\* vector_search_send, under the ring lock: the task goes to the ring and the
\* result slot says "not ready".
SendSearch(c) ==
    /\ pc[c] = "idle" /\ c \in Backend /\ MaySend(c)
    /\ count < ring_size
    /\ reqs' = [reqs EXCEPT ![c] = @ + 1]
    /\ kind' = [kind EXCEPT ![c] = "search"]
    /\ Enqueue([type |-> "search", client |-> c, req |-> reqs[c] + 1])
    /\ status' = [status EXCEPT ![c] = 0]
    /\ Goto(c, "notify")
    /\ UNCHANGED <<result_count, payload, maint_status, maint_done,
                   expect, workerVars, ctx, poolVars, lost>>

\* notify_worker, after the lock was released.
Notify(c) ==
    /\ pc[c] = "notify"
    /\ wlatch' = (wlatch \/ (worker_known /\ wpc # "down"))
    /\ Goto(c, "wait")
    /\ UNCHANGED <<ringVars, slotVars, kind, reqs, expect, wpc, restarts, ctx,
                   poolVars, lost>>

\* vector_search_get_result has seen status 1; the count is read first.
GetResult(c) ==
    /\ pc[c] = "wait" /\ kind[c] = "search" /\ status[c] = 1
    /\ Goto(c, "read")
    /\ UNCHANGED <<ringVars, slotVars, kind, reqs, expect, workerVars, ctx, poolVars,
                   lost>>

\* search_lsm_index has copied the pairs out of the slot.
ReadPairs(c) ==
    /\ pc[c] = "read"
    /\ Goto(c, "idle")
    /\ UNCHANGED <<ringVars, slotVars, kind, reqs, expect, workerVars, ctx, poolVars,
                   lost>>

\* submit_and_wait_maintenance: the flags are cleared, maint_status by
\* segment_update_blocking only, before the task is sent under the ring lock.
MaintSend(c, k) ==
    /\ pc[c] = "idle" /\ MaySend(c)
    /\ c \in Aux => k = "update"
    /\ count < ring_size
    /\ reqs' = [reqs EXCEPT ![c] = @ + 1]
    /\ kind' = [kind EXCEPT ![c] = k]
    /\ maint_done' = [maint_done EXCEPT ![c] = 0]
    /\ maint_status' = IF k = "update" THEN [maint_status EXCEPT ![c] = 0]
                                       ELSE maint_status
    /\ Enqueue([type |-> k, client |-> c, req |-> reqs[c] + 1])
    /\ wlatch' = (wlatch \/ (worker_known /\ wpc # "down"))
    /\ Goto(c, "wait")
    /\ UNCHANGED <<status, result_count, payload, expect, wpc, restarts, ctx, poolVars,
                   lost>>

\* A full ring is an ERROR; a maintenance task has cleared its flag by then.
RingFull(c) ==
    /\ pc[c] = "idle" /\ count = ring_size
    /\ maint_done' \in {maint_done, [maint_done EXCEPT ![c] = 0]}
    /\ UNCHANGED <<ringVars, status, result_count, payload, maint_status, clientVars,
                   workerVars, ctx, poolVars, lost>>

\* The flag is set: the caller reads maint_status and goes on.
MaintReturn(c) ==
    /\ pc[c] = "wait" /\ kind[c] # "search" /\ maint_done[c] # 0
    /\ Goto(c, "idle")
    /\ UNCHANGED <<ringVars, slotVars, kind, reqs, expect, workerVars, ctx, poolVars,
                   lost>>

\* An ERROR in the search of the memtables, after the task was sent.
SearchError(c) ==
    /\ pc[c] = "wait" /\ kind[c] = "search"
    /\ Goto(c, "idle")
    /\ UNCHANGED <<ringVars, slotVars, kind, reqs, expect, workerVars, ctx, poolVars,
                   lost>>

-----------------------------------------------------------------------------
(* The worker's main loop.                                                 *)

\* The worker publishes its pgprocno ...
WorkerStart ==
    /\ wpc = "down"
    /\ wpc' = "start" /\ worker_known' = TRUE
    /\ UNCHANGED <<ring, head, tail, count, slotVars, clientVars, wlatch, restarts,
                   ctx, poolVars, lost>>

\* ... and then resets its latch.
WorkerReset ==
    /\ wpc = "start"
    /\ wpc' = "sleep" /\ wlatch' = FALSE
    /\ UNCHANGED <<ringVars, slotVars, clientVars, restarts, ctx, poolVars, lost>>

\* It wakes up by its latch or after a second.
\* Deviation: by its latch only.
WorkerWakeLatchOnly ==
    /\ wpc = "sleep" /\ wlatch
    /\ wpc' = "drain" /\ wlatch' = FALSE
    /\ UNCHANGED <<ringVars, slotVars, clientVars, restarts, ctx, poolVars, lost>>

WorkerWake ==
    /\ wpc = "sleep"
    /\ wpc' = "drain" /\ wlatch' = FALSE
    /\ UNCHANGED <<ringVars, slotVars, clientVars, restarts, ctx, poolVars, lost>>

RingEmpty ==
    /\ wpc = "drain" /\ count = 0
    /\ wpc' = "sleep"
    /\ UNCHANGED <<ringVars, slotVars, clientVars, wlatch, restarts, ctx, poolVars,
                   lost>>

\* The head moves on when the task was handed over, still under the lock.
\* Deviation: it does not, so that tasks are handled again.
HeadOnStays ==
    /\ UNCHANGED ringVars

HeadOn ==
    /\ head' = (head + 1) % ring_size
    /\ count' = count - 1
    /\ UNCHANGED <<ring, tail, worker_known>>

\* vector_search: the segments of the pool that are not covered by the
\* memtables searched; one task for each of them.
HandleSearch ==
    /\ wpc = "drain" /\ count > 0 /\ ring[head].type = "search"
    /\ LET t == ring[head] IN
       \E segs \in {1 .. k : k \in 1 .. MaxSegments} :
         /\ ctx' = [ctx EXCEPT ![t.client][t.req] =
                      [segs |-> segs, found |-> {}, remaining |-> Cardinality(segs),
                       counted |-> {}, stage |-> "search"]]
         /\ expect' = [expect EXCEPT ![t.client] = Cardinality(segs)]
    /\ HeadOn
    /\ UNCHANGED <<slotVars, pc, kind, reqs, workerVars,
                   poolVars, lost>>

\* No segment: the worker answers itself.
HandleEmptySearch ==
    /\ wpc = "drain" /\ count > 0 /\ ring[head].type = "search"
    /\ LET t == ring[head] IN
       /\ result_count' = [result_count EXCEPT ![t.client] = [req |-> t.req, num |-> 0]]
       /\ status' = [status EXCEPT ![t.client] = 1]
       /\ expect' = [expect EXCEPT ![t.client] = 0]
    /\ HeadOn
    /\ UNCHANGED <<payload, maint_status, maint_done, pc,
                   kind, reqs, workerVars, ctx, poolVars, lost>>

\* submit_maintenance_task copies the task to the maintenance queue ...
HandleMaint ==
    /\ wpc = "drain" /\ count > 0 /\ ring[head].type # "search"
    /\ Len(queue) < MAINTENANCE_TASK_QUEUE_SIZE
    /\ queue' = Append(queue, ring[head])
    /\ HeadOn
    /\ UNCHANGED <<slotVars, clientVars, workerVars, ctx, tpc,
                   ttask, lost>>

\* ... or, when that is full, drops it.
DropMaint ==
    /\ wpc = "drain" /\ count > 0 /\ ring[head].type # "search"
    /\ Len(queue) >= MAINTENANCE_TASK_QUEUE_SIZE
    /\ lost' = lost \cup {ring[head].client}
    /\ HeadOn
    /\ UNCHANGED <<slotVars, clientVars, workerVars, ctx,
                   poolVars>>

\* The clients with a task in the worker's own memory.
Inside ==
    {c \in Client : (\E n \in Request : ctx[c][n].stage # "none")
                    \/ (\E i \in DOMAIN queue : queue[i].type # "upgrade"
                                                 /\ queue[i].client = c)
                    \/ (\E t \in Thread : ttask[t].type \in {"load", "update"}
                                          /\ ttask[t].client = c)}

\* handle_task raises an ERROR (dsm_attach or malloc fail): the process ends
\* and is started again.  The ring keeps its head, the rest is gone.
WorkerError ==
    /\ wpc = "drain" /\ count > 0 /\ restarts < MaxRestarts
    /\ restarts' = restarts + 1
    /\ wpc' = "down" /\ wlatch' = FALSE
    /\ lost' = lost \cup Inside
    /\ ctx' = [c \in Client |-> [n \in Request |-> NoContext]]
    /\ queue' = <<>>
    /\ tpc' = [t \in Thread |-> "idle"] /\ ttask' = [t \in Thread |-> NoTask]
    /\ UNCHANGED <<ringVars, slotVars, clientVars>>

-----------------------------------------------------------------------------
(* The search threads: search_segment_task.                                *)

\* A segment has been searched and its result stored.
SearchSegment(c, n, s) ==
    /\ s \in ctx[c][n].segs \ ctx[c][n].found
    /\ ctx' = [ctx EXCEPT ![c][n].found = @ \cup {s}]
    /\ UNCHANGED <<ringVars, slotVars, clientVars, workerVars, poolVars, lost>>

\* remaining_count.fetch_sub(1): the one that gets it to 0 goes on alone.
CountDown(c, n, s) ==
    /\ s \in ctx[c][n].found \ ctx[c][n].counted
    /\ ctx' = [ctx EXCEPT ![c][n].remaining = @ - 1,
                          ![c][n].counted = @ \cup {s},
                          ![c][n].stage = IF ctx[c][n].remaining = 1 THEN "count" ELSE @]
    /\ UNCHANGED <<ringVars, slotVars, clientVars, workerVars, poolVars, lost>>

\* merge_all_segment_results, and result_count, which the place of the
\* distances depends on; then the pairs.
WriteCount(c, n) ==
    /\ ctx[c][n].stage = "count"
    /\ result_count' = [result_count EXCEPT ![c] =
                          [req |-> n, num |-> Cardinality(ctx[c][n].found)]]
    /\ ctx' = [ctx EXCEPT ![c][n].stage = "pairs"]
    /\ UNCHANGED <<ringVars, status, payload, maint_status, maint_done, clientVars,
                   workerVars, poolVars, lost>>

WritePairs(c, n) ==
    /\ ctx[c][n].stage = "pairs"
    /\ payload' = [payload EXCEPT ![c] =
                     [req |-> n, num |-> Cardinality(ctx[c][n].found)]]
    /\ ctx' = [ctx EXCEPT ![c][n].stage = "publish"]
    /\ UNCHANGED <<ringVars, status, result_count, maint_status, maint_done, clientVars,
                   workerVars, poolVars, lost>>

\* status = 1 comes last, and the context is freed.
\* Deviation: it comes before the pairs.
PublishEarly(c, n) ==
    /\ ctx[c][n].stage = "pairs" /\ status[c] = 0
    /\ status' = [status EXCEPT ![c] = 1]
    /\ UNCHANGED <<ringVars, result_count, payload, maint_status, maint_done, clientVars,
                   workerVars, poolVars, lost, ctx>>

Publish(c, n) ==
    /\ ctx[c][n].stage = "publish"
    /\ status' = [status EXCEPT ![c] = 1]
    /\ ctx' = [ctx EXCEPT ![c][n] = NoContext]
    /\ UNCHANGED <<ringVars, result_count, payload, maint_status, maint_done, clientVars,
                   workerVars, poolVars, lost>>

-----------------------------------------------------------------------------
(* The maintenance threads.                                                *)

Take(t) ==
    /\ tpc[t] = "idle" /\ queue # <<>>
    /\ ttask' = [ttask EXCEPT ![t] = Head(queue)]
    /\ tpc' = [tpc EXCEPT ![t] = Head(queue).type]
    /\ queue' = Tail(queue)
    /\ UNCHANGED <<ringVars, slotVars, clientVars, workerVars, ctx, lost>>

\* IndexLoad with all segments read into memory.
RunLoad(t) ==
    /\ tpc[t] = "load"
    /\ tpc' = [tpc EXCEPT ![t] = "done"]
    /\ UNCHANGED <<ringVars, slotVars, clientVars, workerVars, ctx, queue, ttask, lost>>

\* IndexLoad of mapped files answers at once ...
RunMmapLoad(t) ==
    /\ tpc[t] = "load"
    /\ maint_done' = [maint_done EXCEPT ![ttask[t].client] = ttask[t].req]
    /\ tpc' = [tpc EXCEPT ![t] = "submit"]
    /\ ttask' = [ttask EXCEPT ![t] = NoTask]
    /\ UNCHANGED <<ringVars, status, result_count, payload, maint_status, clientVars,
                   workerVars, ctx, queue, lost>>

\* ... and then sends itself an upgrade task for every segment:
\* submit_internal_task drops what does not fit.
SubmitUpgrades(t) ==
    /\ tpc[t] = "submit"
    /\ \E k \in 1 .. MaxSegments :
         LET room == MAINTENANCE_TASK_QUEUE_SIZE - Len(queue) IN
         queue' = queue \o [i \in 1 .. Min({k, room}) |-> Upgrade]
    /\ tpc' = [tpc EXCEPT ![t] = "idle"]
    /\ UNCHANGED <<ringVars, slotVars, clientVars, workerVars, ctx, ttask, lost>>

RunUpdate(t) ==
    /\ tpc[t] = "update"
    /\ \E r \in MaintResult :
         /\ maint_status' = [maint_status EXCEPT ![ttask[t].client] = r]
         /\ expect' = [expect EXCEPT ![ttask[t].client] = r]
    /\ tpc' = [tpc EXCEPT ![t] = "done"]
    /\ UNCHANGED <<ringVars, status, result_count, payload, maint_done, pc, kind, reqs,
                   workerVars, ctx, queue, ttask, lost>>

\* The client's completion flag; an upgrade has no client.
Done(t) ==
    /\ tpc[t] = "done"
    /\ maint_done' = [maint_done EXCEPT ![ttask[t].client] = ttask[t].req]
    /\ tpc' = [tpc EXCEPT ![t] = "idle"]
    /\ ttask' = [ttask EXCEPT ![t] = NoTask]
    /\ UNCHANGED <<ringVars, status, result_count, payload, maint_status, clientVars,
                   workerVars, ctx, queue, lost>>

RunUpgrade(t) ==
    /\ tpc[t] = "upgrade"
    /\ tpc' = [tpc EXCEPT ![t] = "idle"]
    /\ ttask' = [ttask EXCEPT ![t] = NoTask]
    /\ UNCHANGED <<ringVars, slotVars, clientVars, workerVars, ctx, queue, lost>>

-----------------------------------------------------------------------------
(* The specification.                                                      *)

Init ==
    /\ ring = [i \in Slot |-> NoTask]
    /\ head = 0 /\ tail = 0 /\ count = 0 /\ worker_known = FALSE
    /\ status = [c \in Client |-> 0]
    /\ result_count = [c \in Client |-> NoCell]
    /\ payload = [c \in Client |-> NoCell]
    /\ maint_status = [c \in Client |-> 0]
    /\ maint_done = [c \in Client |-> 0]
    /\ pc = [c \in Client |-> "idle"]
    /\ kind = [c \in Client |-> "search"]
    /\ reqs = [c \in Client |-> 0]
    /\ expect = [c \in Client |-> 0]
    /\ wpc = "down" /\ wlatch = FALSE /\ restarts = 0
    /\ ctx = [c \in Client |-> [n \in Request |-> NoContext]]
    /\ queue = <<>>
    /\ tpc = [t \in Thread |-> "idle"]
    /\ ttask = [t \in Thread |-> NoTask]
    /\ lost = {}

ClientStep(c) ==
    \/ Notify(c) \/ GetResult(c) \/ ReadPairs(c)
    \/ MaintReturn(c)

WorkerStep ==
    \/ WorkerStart \/ WorkerReset \/ WorkerWake \/ RingEmpty
    \/ HandleSearch \/ HandleEmptySearch \/ HandleMaint \/ DropMaint

SearchStep(c, n) ==
    \/ \E s \in 1 .. MaxSegments : SearchSegment(c, n, s) \/ CountDown(c, n, s)
    \/ WriteCount(c, n) \/ WritePairs(c, n) \/ Publish(c, n)

ThreadStep(t) ==
    \/ Take(t) \/ RunLoad(t) \/ RunMmapLoad(t) \/ SubmitUpgrades(t)
    \/ RunUpdate(t) \/ Done(t) \/ RunUpgrade(t)

Next ==
    \/ \E c \in Client :
         \/ SendSearch(c) \/ RingFull(c) \/ ClientStep(c)
         \/ \E k \in {"load", "update"} : MaintSend(c, k)
         \/ \E n \in Request : SearchStep(c, n)
    \/ WorkerStep \/ WorkerError
    \/ \E t \in Thread : ThreadStep(t)

Spec == Init /\ [][Next]_vars

\* Every process and thread is scheduled; nobody has to send or to fail.
Fairness ==
    /\ \A c \in Client : WF_vars(ClientStep(c))
    /\ WF_vars(WorkerStep)
    /\ WF_vars(\E c \in Client : \E n \in Request : SearchStep(c, n))
    /\ \A t \in Thread : WF_vars(ThreadStep(t))

FairSpec == Spec /\ Fairness

\* The same with backends that raise an ERROR between sending a search and
\* waiting for its answer.
ErrorSpec == Init /\ [][Next \/ \E c \in Backend : SearchError(c)]_vars

-----------------------------------------------------------------------------
(* Properties.                                                             *)

\* Type correctness of the ring, the result slots and the processes.
TypeOK ==
    /\ ring \in [Slot -> Task \cup {NoTask}]
    /\ head \in Slot /\ tail \in Slot /\ count \in 0 .. ring_size
    /\ tail = (head + count) % ring_size
    /\ status \in [Client -> {0, 1}]
    /\ result_count \in [Client -> Cell] /\ payload \in [Client -> Cell]
    /\ maint_status \in [Client -> MaintResult]
    /\ maint_done \in [Client -> {0} \cup Request]
    /\ pc \in [Client -> {"idle", "notify", "wait", "read"}]
    /\ kind \in [Client -> {"search", "load", "update"}]
    /\ reqs \in [Client -> {0} \cup Request]
    /\ expect \in [Client -> 0 .. 1 + MaxSegments]
    /\ wpc \in {"down", "start", "sleep", "drain"}
    /\ ctx \in [Client -> [Request -> [segs : SUBSET (1 .. MaxSegments),
                 found : SUBSET (1 .. MaxSegments), remaining : 0 .. MaxSegments,
                 counted : SUBSET (1 .. MaxSegments),
                 stage : {"none", "search", "count", "pairs", "publish"}]]]
    /\ queue \in Seq(Task \cup {Upgrade})
    /\ tpc \in [Thread -> {"idle", "load", "update", "upgrade", "submit", "done"}]
    /\ ttask \in [Thread -> Task \cup {NoTask, Upgrade}]
    /\ lost \subseteq Client

\* c is in a call that was accepted, and its answer is published.
Busy(c) == pc[c] \in {"notify", "wait", "read"}

Published(c) ==
    Busy(c) /\ IF kind[c] = "search" THEN status[c] = 1 ELSE maint_done[c] # 0

\* What c finds in its result slot is the whole answer to its last request.
SlotRight(c) ==
    CASE kind[c] = "search" ->
           /\ result_count[c] = [req |-> reqs[c], num |-> expect[c]]
           /\ expect[c] > 0 => payload[c] = result_count[c]
      [] kind[c] = "load"   -> maint_done[c] = reqs[c]
      [] kind[c] = "update" -> maint_done[c] = reqs[c] /\ maint_status[c] = expect[c]

\* The answer at hand, as the abstract service sees it.
AnswerOf(c) ==
    IF ~Published(c) THEN {}
    ELSE IF SlotRight(c)
      THEN {[req |-> reqs[c], says |-> IF kind[c] = "load" THEN 0 ELSE expect[c]]}
      ELSE {[req |-> 0, says |-> 0]}

Service == INSTANCE TaskService WITH
    Answer <- 0 .. 1 + MaxSegments,
    busy   <- [c \in Client |-> Busy(c)],
    asked  <- reqs,
    answer <- [c \in Client |-> AnswerOf(c)]

\* The ring, the worker, its threads and the result slots implement a
\* synchronous call: an answer appears once, as a whole, belongs to the request
\* that is waiting, and does not change while it is read, although it is written
\* by another process that takes no lock of the client.
Implements == Service!Spec

\* The slots of the ring between head and tail.
Live(i) == (i - head) % ring_size < count

\* The places where the request that c waits for may be.
Places(c) ==
    {<<"ring", i>> : i \in {j \in Slot : Live(j) /\ ring[j].client = c /\ ring[j].req = reqs[c]}}
    \cup {<<"ctx", n>> : n \in {m \in Request : m = reqs[c] /\ ctx[c][m].stage # "none"}}
    \cup {<<"queue", i>> : i \in {j \in DOMAIN queue : queue[j].type # "upgrade"
                                        /\ queue[j].client = c /\ queue[j].req = reqs[c]}}
    \cup {<<"thread", t>> : t \in {u \in Thread : ttask[u].type \in {"load", "update"}
                                        /\ ttask[u].client = c /\ ttask[u].req = reqs[c]}}

\* A request that waits is in exactly one place until it is answered, across
\* the hand-over from the ring to the worker's threads and a restart of the
\* worker; excepted are those the worker dropped or took with it.
Conserved ==
    \A c \in Client \ lost :
      Busy(c) => Cardinality(Places(c)) = (IF Published(c) THEN 0 ELSE 1)

\* A call returns: no wakeup is lost for good, even one sent while the worker
\* starts or sent to the pgprocno of a worker that is gone; excepted are the
\* same requests.
CallReturns == \A c \in Client : Busy(c) /\ c \notin lost ~> ~Busy(c) \/ c \in lost

\* "a spurious MyLatch set [...] can no longer make the backend read a
\* stale/half-written result slot" (tasksend.c): what a backend reads is the
\* answer to the search it has sent.
AnswerFresh == \A c \in Client : pc[c] = "read" => SlotRight(c)

-----------------------------------------------------------------------------
(* The inductive invariant behind Implements and Conserved.                *)

\* t is the task of the request that its client waits for.
Current(t) ==
    /\ t \in Task /\ t.client \notin lost
    /\ Busy(t.client) /\ ~Published(t.client)
    /\ t.req = reqs[t.client] /\ t.type = kind[t.client]

Queued(j)      == j \in DOMAIN queue /\ queue[j].type # "upgrade"
Held(t)        == ttask[t].type \in {"load", "update"}
Searched(c, n) == ctx[c][n].stage # "none"

\* Whatever is under way in the ring, the queue, a thread or a search is what a
\* client waits for ...
AllCurrent ==
    /\ \A i \in Slot : Live(i) => Current(ring[i])
    /\ \A j \in DOMAIN queue : Queued(j) => Current(queue[j]) /\ queue[j].type # "search"
    /\ \A t \in Thread : Held(t) => Current(ttask[t])
    /\ \A c \in Client : \A n \in Request :
         Searched(c, n) => Current([type |-> "search", client |-> c, req |-> n])

\* ... it is in one place only ...
Single ==
    /\ \A i, j \in Slot :
         Live(i) /\ Live(j) /\ ring[i].client = ring[j].client => i = j
    /\ \A i \in Slot : Live(i) =>
         /\ \A j \in DOMAIN queue : Queued(j) => queue[j].client # ring[i].client
         /\ \A t \in Thread : Held(t) => ttask[t].client # ring[i].client
         /\ \A n \in Request : ~Searched(ring[i].client, n)
    /\ \A i, j \in DOMAIN queue :
         Queued(i) /\ Queued(j) /\ queue[i].client = queue[j].client => i = j
    /\ \A j \in DOMAIN queue : Queued(j) =>
         \A t \in Thread : Held(t) => ttask[t].client # queue[j].client
    /\ \A t, u \in Thread :
         Held(t) /\ Held(u) /\ ttask[t].client = ttask[u].client => t = u

\* ... and it is in one place at least.
Somewhere ==
    \A c \in Client \ lost : Busy(c) /\ ~Published(c) =>
        \/ \E i \in Slot : Live(i) /\ ring[i].client = c
        \/ \E j \in DOMAIN queue : Queued(j) /\ queue[j].client = c
        \/ \E t \in Thread : Held(t) /\ ttask[t].client = c
        \/ \E n \in Request : Searched(c, n)

\* A client whose task is lost waits, and is not answered.
LostWaits == \A c \in lost : Busy(c) /\ ~Published(c)

\* A thread holds the task its stage is about, and has set maint_status before
\* it reports an update as done.
ThreadShape ==
    \A t \in Thread :
        /\ tpc[t] \in {"idle", "submit"} => ttask[t] = NoTask
        /\ tpc[t] = "upgrade" => ttask[t] = Upgrade
        /\ tpc[t] \in {"load", "update"} => ttask[t].type = tpc[t]
        /\ tpc[t] = "done" => Held(t)
        /\ tpc[t] = "done" /\ ttask[t].type = "update" =>
             maint_status[ttask[t].client] = expect[ttask[t].client]

\* The count-down reaches zero when every segment is searched, and the parts of
\* the answer are written one after the other.
ContextShape(c, n) ==
    LET k == ctx[c][n] IN
    IF k.stage = "none" THEN k = NoContext
    ELSE /\ k.counted \subseteq k.found /\ k.found \subseteq k.segs
         /\ k.remaining = Cardinality(k.segs \ k.counted)
         /\ expect[c] = Cardinality(k.segs)
         /\ k.stage # "search" => k.counted = k.segs
         /\ k.stage \in {"pairs", "publish"} =>
              result_count[c] = [req |-> n, num |-> expect[c]]
         /\ k.stage = "publish" => payload[c] = result_count[c]

SearchShape == \A c \in Client : \A n \in Request : ContextShape(c, n)

\* A client reads what is published, and that is the answer to its request.
AnswerShape(c) ==
    /\ pc[c] = "read" => kind[c] = "search" /\ Published(c)
    /\ Published(c) => SlotRight(c)

Answered == \A c \in Client : AnswerShape(c)

IndInv ==
    /\ TypeOK /\ AllCurrent /\ Single /\ Somewhere /\ LostWaits
    /\ ThreadShape /\ SearchShape /\ Answered

=============================================================================
