---------------------------- MODULE TaskRingProofs ----------------------------
(***************************************************************************)
(* Proofs about TaskRing, for any number of clients, threads, requests,    *)
(* segments and restarts, and any queue length: the ring, the worker and   *)
(* the result slots implement TaskService, and a request is in one place   *)
(* until it is answered.  IndInv is shown to be inductive; its first part, *)
(* where the tasks are, by the way a step moves them.                      *)
(***************************************************************************)
EXTENDS TaskRing, TLAPS, FiniteSetTheorems

USE DEF ringVars, slotVars, clientVars, workerVars, poolVars

-----------------------------------------------------------------------------
(* The ring.                                                               *)

\* The ring has a slot.
LEMMA RingSize == ring_size \in Nat \ {0}
<1>1. ring_size \in Nat /\ ring_size # 0
  BY RingAssumption, FS_CardinalityType, FS_EmptySet DEF ring_size
<1> QED
  BY <1>1

\* The remainder of a number by N: below N,
LEMMA Small ==
    ASSUME NEW N \in Nat \ {0}, NEW a \in Int, 0 <= a, a < N
    PROVE  a % N = a
  OBVIOUS

\* up to 2N,
LEMMA Over ==
    ASSUME NEW N \in Nat \ {0}, NEW a \in Int, N <= a, a - N < N
    PROVE  a % N = a - N
  OBVIOUS

\* and from -N on.
LEMMA Under ==
    ASSUME NEW N \in Nat \ {0}, NEW a \in Int, -N <= a, a < 0
    PROVE  a % N = a + N
  OBVIOUS

\* The distance from slot h to slot i around a ring of N slots.
LEMMA Distance ==
    ASSUME NEW N \in Nat \ {0}, NEW h \in 0 .. N - 1, NEW i \in 0 .. N - 1
    PROVE  (i - h) % N = IF i >= h THEN i - h ELSE i - h + N
<1>1. CASE i >= h
  <2>1. i - h \in Int /\ 0 <= i - h /\ i - h < N
    BY <1>1
  <2> QED
    BY <1>1, <2>1, Small
<1>2. CASE i < h
  <2>1. i - h \in Int /\ -N <= i - h /\ i - h < 0
    BY <1>2
  <2> QED
    BY <1>2, <2>1, Under
<1> QED
  BY <1>1, <1>2

\* The slot k places behind h.
LEMMA Behind ==
    ASSUME NEW N \in Nat \ {0}, NEW h \in 0 .. N - 1, NEW k \in 0 .. N
    PROVE  (h + k) % N = IF h + k < N THEN h + k ELSE h + k - N
<1>1. PICK a \in Int : a = h + k
  OBVIOUS
<1>2. CASE a < N
  BY <1>1, <1>2, 0 <= a, Small
<1>3. CASE a >= N
  <2>1. N <= a /\ a - N < N
    BY <1>1, <1>3
  <2>2. a % N = a - N
    BY <2>1, Over
  <2> QED
    BY <1>1, <1>3, <2>2
<1> QED
  BY <1>1, <1>2, <1>3

\* The slot k places behind h is at distance k, and is followed by the next.
LEMMA TailIs ==
    ASSUME NEW N \in Nat \ {0}, NEW h \in 0 .. N - 1, NEW k \in 0 .. N - 1
    PROVE  /\ (h + k) % N \in 0 .. N - 1
           /\ (((h + k) % N) + 1) % N = (h + (k + 1)) % N
           /\ \A i \in 0 .. N - 1 : (i - h) % N = k <=> i = (h + k) % N
<1> DEFINE t == (h + k) % N
<1>1. t = IF h + k < N THEN h + k ELSE h + k - N
  BY Behind, k \in 0 .. N
<1> HIDE DEF t
<1>2. t \in 0 .. N - 1 /\ 1 \in 0 .. N
  BY <1>1
<1>3. (t + 1) % N = IF t + 1 < N THEN t + 1 ELSE t + 1 - N
  BY <1>2, Behind
<1>4. (h + (k + 1)) % N = IF h + (k + 1) < N THEN h + (k + 1) ELSE h + (k + 1) - N
  BY Behind, k + 1 \in 0 .. N
<1>5. (t + 1) % N = (h + (k + 1)) % N
  BY <1>1, <1>3, <1>4
<1>6. ASSUME NEW i \in 0 .. N - 1 PROVE (i - h) % N = k <=> i = t
  <2>1. (i - h) % N = IF i >= h THEN i - h ELSE i - h + N
    BY Distance
  <2> QED
    BY <1>1, <2>1
<1> QED
  BY <1>2, <1>5, <1>6 DEF t

\* Where the head goes: one slot on, and the tail stays k - 1 places behind.
LEMMA HeadIs ==
    ASSUME NEW N \in Nat \ {0}, NEW h \in 0 .. N - 1, NEW k \in 1 .. N
    PROVE  /\ (h + 1) % N \in 0 .. N - 1
           /\ (((h + 1) % N) + (k - 1)) % N = (h + k) % N
           /\ \A i \in 0 .. N - 1 :
                (i - ((h + 1) % N)) % N < k - 1 <=> (i - h) % N < k /\ i # h
<1> DEFINE g == (h + 1) % N
<1>1. g = IF h + 1 < N THEN h + 1 ELSE h + 1 - N
  BY Behind, 1 \in 0 .. N
<1> HIDE DEF g
<1>2. g \in 0 .. N - 1
  BY <1>1
<1>3. (h + k) % N = IF h + k < N THEN h + k ELSE h + k - N
  BY Behind, k \in 0 .. N
<1>4. (g + (k - 1)) % N = IF g + (k - 1) < N THEN g + (k - 1) ELSE g + (k - 1) - N
  BY <1>2, Behind, k - 1 \in 0 .. N
<1>5. ASSUME NEW i \in 0 .. N - 1
      PROVE  /\ (i - h) % N = IF i >= h THEN i - h ELSE i - h + N
             /\ (i - g) % N = IF i >= g THEN i - g ELSE i - g + N
  BY <1>2, Distance
<1>6. (g + (k - 1)) % N = (h + k) % N
  BY <1>1, <1>3, <1>4
<1>8. ASSUME NEW i \in 0 .. N - 1
      PROVE  (i - g) % N < k - 1 <=> (i - h) % N < k /\ i # h
  <2> DEFINE d == (i - h) % N
             e == (i - g) % N
  <2>1. /\ d = IF i >= h THEN i - h ELSE i - h + N
        /\ e = IF i >= g THEN i - g ELSE i - g + N
    BY <1>5
  <2> HIDE DEF d, e
  <2>2. e < k - 1 <=> d < k /\ i # h
    BY <1>1, <2>1
  <2> QED
    BY <2>2 DEF d, e
<1> QED
  BY <1>2, <1>6, <1>8 DEF g

\* get_ring_buffer_slot adds the slot at tail to those in use, and no other.
LEMMA EnqueueLive ==
    ASSUME TypeOK, count < ring_size, NEW t \in Task, Enqueue(t)
    PROVE  /\ ~Live(tail) /\ tail \in Slot
           /\ \A i \in Slot : Live(i)' <=> Live(i) \/ i = tail
           /\ \A i \in Slot : i # tail => ring'[i] = ring[i]
           /\ ring'[tail] = t
           /\ ring' \in [Slot -> Task \cup {NoTask}]
           /\ head' = head /\ tail' \in Slot /\ count' \in 0 .. ring_size
           /\ tail' = (head' + count') % ring_size
<1>1. /\ head \in Slot /\ tail \in Slot /\ count \in 0 .. ring_size - 1
      /\ tail = (head + count) % ring_size /\ ring_size \in Nat
      /\ ring \in [Slot -> Task \cup {NoTask}]
  BY RingSize DEF TypeOK
<1>2. /\ head' = head /\ count' = count + 1 /\ tail' = (tail + 1) % ring_size
      /\ ring' = [ring EXCEPT ![tail] = t]
  BY DEF Enqueue
<1>3. /\ (tail + 1) % ring_size = (head + (count + 1)) % ring_size
      /\ \A i \in Slot : (i - head) % ring_size = count <=> i = tail
  <2>1. ring_size \in Nat \ {0} /\ head \in 0 .. ring_size - 1 /\ count \in 0 .. ring_size - 1
    BY <1>1, RingSize DEF Slot
  <2>2. /\ (((head + count) % ring_size) + 1) % ring_size = (head + (count + 1)) % ring_size
        /\ \A i \in 0 .. ring_size - 1 :
             (i - head) % ring_size = count <=> i = (head + count) % ring_size
    BY <2>1, TailIs, ZenonT(40)
  <2> QED
    BY <1>1, <2>2, Zenon DEF Slot
<1>4. (tail + 1) % ring_size \in Slot
  BY <1>1, RingSize DEF Slot
<1>5. \A i \in Slot : (i - head) % ring_size \in Nat
  BY <1>1, RingSize, Distance DEF Slot
<1>6. ~Live(tail)
  BY <1>1, <1>3 DEF Live
<1>7. \A i \in Slot : Live(i)' <=> Live(i) \/ i = tail
  BY <1>1, <1>2, <1>3, <1>5 DEF Live
<1> QED
  BY <1>1, <1>2, <1>3, <1>4, <1>6, <1>7

\* The slot at head leaves those in use when the task was handed over.
LEMMA HeadOnLive ==
    ASSUME TypeOK, count > 0, HeadOn
    PROVE  /\ Live(head) /\ head \in Slot
           /\ \A i \in Slot : Live(i)' <=> Live(i) /\ i # head
           /\ ring' = ring
           /\ head' \in Slot /\ tail' = tail /\ count' \in 0 .. ring_size
           /\ tail' = (head' + count') % ring_size
<1>1. /\ head \in Slot /\ count \in 1 .. ring_size
      /\ tail = (head + count) % ring_size
      /\ ring_size \in Nat \ {0} /\ Slot = 0 .. ring_size - 1
  BY RingSize DEF TypeOK, Slot
<1>2. /\ head' = (head + 1) % ring_size /\ count' = count - 1 /\ ring' = ring
      /\ tail' = tail
  BY DEF HeadOn
<1>3. /\ head' \in Slot /\ (head' + count') % ring_size = (head + count) % ring_size
      /\ (head - head) % ring_size < count
      /\ \A i \in Slot : (i - head') % ring_size < count'
                           <=> (i - head) % ring_size < count /\ i # head
  <2>1. ring_size \in Nat \ {0} /\ head \in 0 .. ring_size - 1 /\ count \in 1 .. ring_size
    BY <1>1
  <2>2. /\ (head + 1) % ring_size \in 0 .. ring_size - 1
        /\ (((head + 1) % ring_size) + (count - 1)) % ring_size = (head + count) % ring_size
        /\ \A i \in 0 .. ring_size - 1 :
             (i - ((head + 1) % ring_size)) % ring_size < count - 1
               <=> (i - head) % ring_size < count /\ i # head
    BY <2>1, HeadIs, Zenon
  <2>4. (head - head) % ring_size < count
    BY <2>1, Distance
  <2>5. head' = (head + 1) % ring_size /\ count' = count - 1
    BY <1>2
  <2>6. head' \in Slot
    BY <1>1, <2>2, <2>5, Zenon
  <2>7. (head' + count') % ring_size = (head + count) % ring_size
    BY <2>2, <2>5, Zenon
  <2>8. ASSUME NEW i \in Slot
        PROVE  (i - head') % ring_size < count' <=> (i - head) % ring_size < count /\ i # head
    <3>1. i \in 0 .. ring_size - 1
      BY <1>1
    <3>2. (i - ((head + 1) % ring_size)) % ring_size < count - 1
            <=> (i - head) % ring_size < count /\ i # head
      BY <2>2, <3>1, Zenon
    <3> QED
      BY <2>5, <3>2, Zenon
  <2> QED
    BY <2>4, <2>6, <2>7, <2>8, Zenon
<1>4. Live(head) /\ \A i \in Slot : Live(i)' <=> Live(i) /\ i # head
  BY <1>1, <1>3 DEF Live
<1> QED
  BY <1>1, <1>2, <1>3, <1>4

-----------------------------------------------------------------------------
(* Where the tasks are.                                                    *)

Placed == AllCurrent /\ Single /\ Somewhere /\ LostWaits

\* As far as tasks are concerned, nothing happens to client c.
Untouched(c) ==
    /\ Busy(c)' <=> Busy(c)
    /\ Published(c)' <=> Published(c)
    /\ kind'[c] = kind[c] /\ reqs'[c] = reqs[c]
    /\ c \in lost' <=> c \in lost

\* The fields of a task.
LEMMA TaskFields ==
    ASSUME NEW t \in Task
    PROVE  /\ t.client \in Client /\ t.req \in Request
           /\ t.type \in {"search", "load", "update"}
  BY DEF Task

\* No task is added, and those of the clients in D are gone, together with the
\* need for them: such a client is answered, is back, or is lost.
LEMMA Shrink ==
    ASSUME Placed, NEW D,
           \A i \in Slot : Live(i)' <=> Live(i) /\ ring[i].client \notin D,
           \A i \in Slot : ring'[i] = ring[i],
           \A j : Queued(j)' <=> Queued(j) /\ queue[j].client \notin D,
           \A j : Queued(j)' => queue'[j] = queue[j],
           \A t \in Thread : Held(t)' <=> Held(t) /\ ttask[t].client \notin D,
           \A t \in Thread : Held(t)' => ttask'[t] = ttask[t],
           \A c \in Client : \A n \in Request :
              Searched(c, n)' <=> Searched(c, n) /\ c \notin D,
           \A c \in Client \ D : Untouched(c),
           \A c \in Client \cap D : IF c \in lost' THEN Busy(c)' /\ ~Published(c)'
                                    ELSE ~Busy(c)' \/ Published(c)',
           lost' \subseteq Client
    PROVE  Placed'
<1>1. AllCurrent'
  <2>1. ASSUME NEW i \in Slot, Live(i)' PROVE Current(ring[i])'
    <3>1. Current(ring[i]) /\ ring[i].client \in Client \ D
      BY <2>1, TaskFields DEF Placed, AllCurrent, Current
    <3>2. Untouched(ring[i].client)
      BY <3>1
    <3> QED
      BY <3>1, <3>2 DEF Untouched, Current
  <2>2. ASSUME NEW j \in DOMAIN queue', Queued(j)'
        PROVE  Current(queue[j])' /\ queue'[j].type # "search"
    <3>1. Queued(j) /\ queue'[j] = queue[j] /\ queue[j].client \notin D
      BY <2>2
    <3>2. Current(queue[j]) /\ queue[j].type # "search" /\ queue[j].client \in Client \ D
      BY <3>1, TaskFields DEF Placed, AllCurrent, Current, Queued
    <3>3. Untouched(queue[j].client)
      BY <3>2
    <3> QED
      BY <3>1, <3>2, <3>3 DEF Untouched, Current
  <2>3. ASSUME NEW t \in Thread, Held(t)' PROVE Current(ttask[t])'
    <3>1. Held(t) /\ ttask'[t] = ttask[t] /\ ttask[t].client \notin D
      BY <2>3
    <3>2. Current(ttask[t]) /\ ttask[t].client \in Client \ D
      BY <3>1, TaskFields DEF Placed, AllCurrent, Current
    <3>3. Untouched(ttask[t].client)
      BY <3>2
    <3> QED
      BY <3>1, <3>2, <3>3 DEF Untouched, Current
  <2>4. ASSUME NEW c \in Client, NEW n \in Request, Searched(c, n)'
        PROVE  Current([type |-> "search", client |-> c, req |-> n])'
    <3>1. Current([type |-> "search", client |-> c, req |-> n]) /\ Untouched(c)
      BY <2>4 DEF Placed, AllCurrent
    <3> QED
      BY <3>1 DEF Untouched, Current
  <2> QED
    BY <2>1, <2>2, <2>3, <2>4 DEF AllCurrent
<1>2. Single'
  <2>0. \A j : Queued(j) => j \in DOMAIN queue
    BY DEF Queued
  <2>1. \A i, j \in Slot :
          Live(i)' /\ Live(j)' /\ ring'[i].client = ring'[j].client => i = j
    BY DEF Placed, Single
  <2>2. \A i \in Slot : Live(i)' =>
          /\ \A j \in DOMAIN queue' : Queued(j)' => queue'[j].client # ring'[i].client
          /\ \A t \in Thread : Held(t)' => ttask'[t].client # ring'[i].client
    BY <2>0 DEF Placed, Single
  <2>3. ASSUME NEW i \in Slot, Live(i)', NEW n \in Request
        PROVE  ~Searched(ring[i].client, n)'
    <3>1. ring[i].client \in Client /\ ~Searched(ring[i].client, n) /\ ring'[i] = ring[i]
      BY <2>3, TaskFields DEF Placed, Single, AllCurrent, Current
    <3> QED
      BY <3>1 DEF Searched
  <2>4. \A i, j \in DOMAIN queue' :
          Queued(i)' /\ Queued(j)' /\ queue'[i].client = queue'[j].client => i = j
    BY <2>0 DEF Placed, Single
  <2>5. \A j \in DOMAIN queue' : Queued(j)' =>
          \A t \in Thread : Held(t)' => ttask'[t].client # queue'[j].client
    BY <2>0 DEF Placed, Single
  <2>6. \A t, u \in Thread :
          Held(t)' /\ Held(u)' /\ ttask'[t].client = ttask'[u].client => t = u
    BY DEF Placed, Single
  <2> QED
    BY <2>1, <2>2, <2>3, <2>4, <2>5, <2>6 DEF Single
<1>3. Somewhere'
  <2> SUFFICES ASSUME NEW c \in Client \ lost', Busy(c)', ~Published(c)'
               PROVE  \/ \E i \in Slot : Live(i)' /\ ring'[i].client = c
                      \/ \E j \in DOMAIN queue' : Queued(j)' /\ queue'[j].client = c
                      \/ \E t \in Thread : Held(t)' /\ ttask'[t].client = c
                      \/ \E n \in Request : Searched(c, n)'
    BY DEF Somewhere
  <2>1. c \notin D /\ c \notin lost /\ Busy(c) /\ ~Published(c)
    BY DEF Untouched
  <2>2. CASE \E i \in Slot : Live(i) /\ ring[i].client = c
    BY <2>1, <2>2
  <2>3. CASE \E j \in DOMAIN queue : Queued(j) /\ queue[j].client = c
    BY <2>1, <2>3 DEF Queued
  <2>4. CASE \E t \in Thread : Held(t) /\ ttask[t].client = c
    BY <2>1, <2>4
  <2>5. CASE \E n \in Request : Searched(c, n)
    BY <2>1, <2>5
  <2> QED
    BY <2>1, <2>2, <2>3, <2>4, <2>5 DEF Placed, Somewhere
<1>4. LostWaits'
  BY DEF Placed, LostWaits, Untouched
<1> QED
  BY <1>1, <1>2, <1>3, <1>4 DEF Placed

\* A client that is not waiting has no task anywhere.
LEMMA NoTaskOf ==
    ASSUME Placed, NEW c \in Client, ~Busy(c) \/ Published(c) \/ c \in lost
    PROVE  /\ \A i \in Slot : Live(i) => ring[i].client # c
           /\ \A j : Queued(j) => queue[j].client # c
           /\ \A t \in Thread : Held(t) => ttask[t].client # c
           /\ \A n \in Request : ~Searched(c, n)
<1>1. \A t : Current(t) => t.client # c
  BY DEF Current
<1>2. \A i \in Slot : Live(i) => ring[i].client # c
  BY <1>1 DEF Placed, AllCurrent
<1>3. \A j : Queued(j) => queue[j].client # c
  BY <1>1 DEF Placed, AllCurrent, Queued
<1>4. \A t \in Thread : Held(t) => ttask[t].client # c
  BY <1>1 DEF Placed, AllCurrent
<1>5. ASSUME NEW n \in Request, Searched(c, n) PROVE FALSE
  BY <1>1, <1>5, [type |-> "search", client |-> c, req |-> n].client = c
    DEF Placed, AllCurrent
<1> QED
  BY <1>2, <1>3, <1>4, <1>5

\* A client that sends gets its task into the ring, and nowhere else.
LEMMA SendPlaced ==
    ASSUME Placed, TypeOK, NEW c \in Client, NEW k \in {"search", "load", "update"},
           pc[c] = "idle", count < ring_size, reqs[c] + 1 \in Request,
           Enqueue([type |-> k, client |-> c, req |-> reqs[c] + 1]),
           reqs'[c] = reqs[c] + 1, kind'[c] = k, Busy(c)', ~Published(c)',
           \A d \in Client \ {c} : Untouched(d),
           UNCHANGED <<queue, ttask, ctx, lost>>
    PROVE  Placed'
<1>0. PICK new \in Task : /\ new = [type |-> k, client |-> c, req |-> reqs[c] + 1]
                         /\ new.client = c /\ new.req = reqs[c] + 1 /\ new.type = k
  BY DEF Task
<1>1. ~Busy(c) /\ c \notin lost
  BY DEF Busy, Placed, LostWaits
<1>2. /\ \A i \in Slot : Live(i) => ring[i].client # c
      /\ \A j : Queued(j) => queue[j].client # c
      /\ \A t \in Thread : Held(t) => ttask[t].client # c
      /\ \A n \in Request : ~Searched(c, n)
  BY <1>1, NoTaskOf
<1>3. /\ ~Live(tail) /\ tail \in Slot
      /\ \A i \in Slot : Live(i)' <=> Live(i) \/ i = tail
      /\ \A i \in Slot : i # tail => ring'[i] = ring[i]
      /\ ring'[tail] = new
  BY <1>0, EnqueueLive
<1>4. /\ \A j : Queued(j)' <=> Queued(j)
      /\ \A t \in Thread : Held(t)' <=> Held(t)
      /\ \A d \in Client : \A n \in Request : Searched(d, n)' <=> Searched(d, n)
  BY DEF Queued, Held, Searched
<1>5. Current(new)'
  BY <1>0, <1>1 DEF Current
<1>6. \A t : Current(t) => t.client # c /\ t.client \in Client
  BY <1>1, TaskFields DEF Current
<1>7. ASSUME NEW t, Current(t) PROVE Current(t)'
  <2>1. Untouched(t.client)
    BY <1>6, <1>7
  <2> QED
    BY <1>7, <2>1 DEF Untouched, Current
<1>8. AllCurrent'
  <2>1. ASSUME NEW i \in Slot, Live(i)' PROVE Current(ring[i])'
    <3>1. CASE i = tail
      BY <1>3, <1>5, <3>1 DEF Current
    <3>2. CASE i # tail
      <4>1. Current(ring[i]) /\ ring'[i] = ring[i]
        BY <1>3, <2>1, <3>2 DEF Placed, AllCurrent
      <4> QED
        BY <1>7, <4>1 DEF Current
    <3> QED
      BY <3>1, <3>2
  <2>2. ASSUME NEW j \in DOMAIN queue', Queued(j)'
        PROVE  Current(queue[j])' /\ queue'[j].type # "search"
    <3>1. Current(queue[j]) /\ queue[j].type # "search" /\ queue' = queue
      BY <1>4, <2>2 DEF Placed, AllCurrent
    <3> QED
      BY <1>7, <3>1 DEF Current
  <2>3. ASSUME NEW t \in Thread, Held(t)' PROVE Current(ttask[t])'
    <3>1. Current(ttask[t]) /\ ttask' = ttask
      BY <1>4, <2>3 DEF Placed, AllCurrent
    <3> QED
      BY <1>7, <3>1 DEF Current
  <2>4. ASSUME NEW d \in Client, NEW n \in Request, Searched(d, n)'
        PROVE  Current([type |-> "search", client |-> d, req |-> n])'
    <3>1. Current([type |-> "search", client |-> d, req |-> n])
      BY <1>4, <2>4 DEF Placed, AllCurrent
    <3> QED
      BY <1>7, <3>1
  <2> QED
    BY <2>1, <2>2, <2>3, <2>4 DEF AllCurrent
<1>9. Single'
  <2>1. \A i, j \in Slot :
          Live(i)' /\ Live(j)' /\ ring'[i].client = ring'[j].client => i = j
    BY <1>0, <1>2, <1>3 DEF Placed, Single
  <2>2. \A i \in Slot : Live(i)' =>
          /\ \A j \in DOMAIN queue' : Queued(j)' => queue'[j].client # ring'[i].client
          /\ \A t \in Thread : Held(t)' => ttask'[t].client # ring'[i].client
          /\ \A n \in Request : ~Searched(ring[i].client, n)'
    <3> SUFFICES ASSUME NEW i \in Slot, Live(i)'
                 PROVE  /\ \A j : Queued(j) => queue[j].client # ring'[i].client
                        /\ \A t \in Thread : Held(t) => ttask[t].client # ring'[i].client
                        /\ \A n \in Request : ~Searched(ring[i].client, n)'
      BY <1>4
    <3>1. CASE i = tail
      <4>1. ring'[i].client = c
        BY <1>0, <1>3, <3>1
      <4> QED
        BY <1>2, <4>1 DEF Searched
    <3>2. CASE i # tail
      <4>1. Live(i) /\ ring'[i] = ring[i]
        BY <1>3, <3>2
      <4> QED
        BY <4>1 DEF Placed, Single, Queued, Searched
    <3> QED
      BY <3>1, <3>2
  <2>3. \A i, j \in DOMAIN queue' :
          Queued(i)' /\ Queued(j)' /\ queue'[i].client = queue'[j].client => i = j
    BY <1>4 DEF Placed, Single
  <2>4. \A j \in DOMAIN queue' : Queued(j)' =>
          \A t \in Thread : Held(t)' => ttask'[t].client # queue'[j].client
    BY <1>4 DEF Placed, Single
  <2>5. \A t, u \in Thread :
          Held(t)' /\ Held(u)' /\ ttask'[t].client = ttask'[u].client => t = u
    BY <1>4 DEF Placed, Single
  <2> QED
    BY <2>1, <2>2, <2>3, <2>4, <2>5 DEF Single
<1>10. Somewhere'
  <2> SUFFICES ASSUME NEW d \in Client \ lost', Busy(d)', ~Published(d)'
               PROVE  \/ \E i \in Slot : Live(i)' /\ ring'[i].client = d
                      \/ \E j \in DOMAIN queue' : Queued(j)' /\ queue'[j].client = d
                      \/ \E t \in Thread : Held(t)' /\ ttask'[t].client = d
                      \/ \E n \in Request : Searched(d, n)'
    BY DEF Somewhere
  <2>1. CASE d = c
    BY <1>0, <1>3, <2>1
  <2>2. CASE d # c
    <3>1. d \notin lost /\ Busy(d) /\ ~Published(d)
      BY <2>2 DEF Untouched
    <3>2. CASE \E i \in Slot : Live(i) /\ ring[i].client = d
      BY <1>3, <3>2
    <3>3. CASE \E j \in DOMAIN queue : Queued(j) /\ queue[j].client = d
      BY <1>4, <3>3
    <3>4. CASE \E t \in Thread : Held(t) /\ ttask[t].client = d
      BY <1>4, <3>4
    <3>5. CASE \E n \in Request : Searched(d, n)
      BY <1>4, <3>5
    <3> QED
      BY <3>1, <3>2, <3>3, <3>4, <3>5 DEF Placed, Somewhere
  <2> QED
    BY <2>1, <2>2
<1>11. LostWaits'
  <2>1. lost \subseteq Client
    BY DEF TypeOK
  <2> QED
    BY <1>1, <2>1 DEF Placed, LostWaits, Untouched
<1> QED
  BY <1>8, <1>9, <1>10, <1>11 DEF Placed

\* When no client is touched, a current task stays current ...
LEMMA AllKept ==
    ASSUME \A c \in Client : Untouched(c), NEW t, Current(t)
    PROVE  Current(t)'
<1>1. t.client \in Client
  BY TaskFields DEF Current
<1> QED
  BY <1>1 DEF Untouched, Current

\* ... and so do the clients that wait and those that are lost.
LEMMA WaitKept ==
    ASSUME Placed, TypeOK, \A c \in Client : Untouched(c), lost' = lost
    PROVE  /\ LostWaits'
           /\ \A c \in Client \ lost' : Busy(c)' /\ ~Published(c)' =>
                \/ \E i \in Slot : Live(i) /\ ring[i].client = c
                \/ \E j \in DOMAIN queue : Queued(j) /\ queue[j].client = c
                \/ \E t \in Thread : Held(t) /\ ttask[t].client = c
                \/ \E n \in Request : Searched(c, n)
<1>1. lost \subseteq Client
  BY DEF TypeOK
<1>2. LostWaits'
  BY <1>1 DEF Placed, LostWaits, Untouched
<1> QED
  BY <1>2 DEF Placed, Somewhere, Untouched

\* vector_search moves the task at the head of the ring to a search.
LEMMA SearchPlaced ==
    ASSUME Placed, TypeOK, count > 0, ring[head].type = "search", HeadOn,
           \A c \in Client : Untouched(c), UNCHANGED <<queue, ttask, lost>>,
           \A c \in Client : \A n \in Request :
              Searched(c, n)' <=> Searched(c, n) \/ (c = ring[head].client /\ n = ring[head].req)
    PROVE  Placed'
<1>1. /\ Live(head) /\ head \in Slot /\ ring' = ring
      /\ \A i \in Slot : Live(i)' <=> Live(i) /\ i # head
  BY HeadOnLive
<1>2. PICK task \in Task : /\ task = ring[head] /\ Current(task)
                           /\ task = [type |-> "search", client |-> task.client, req |-> task.req]
  BY <1>1 DEF Placed, AllCurrent, Current, Task
<1>3. task.client \in Client /\ task.req \in Request
  BY TaskFields
<1>4. /\ \A j : Queued(j)' <=> Queued(j)
      /\ \A t \in Thread : Held(t)' <=> Held(t)
  BY DEF Queued, Held
<1>5. /\ \A i \in Slot : Live(i) /\ i # head => ring[i].client # task.client
      /\ \A j : Queued(j) => queue[j].client # task.client
      /\ \A t \in Thread : Held(t) => ttask[t].client # task.client
  BY <1>1, <1>2 DEF Placed, Single, Queued
<1>6. AllCurrent'
  <2>1. ASSUME NEW i \in Slot, Live(i)' PROVE Current(ring[i])'
    BY <1>1, <2>1, AllKept DEF Placed, AllCurrent, Current
  <2>2. ASSUME NEW j \in DOMAIN queue', Queued(j)'
        PROVE  Current(queue[j])' /\ queue'[j].type # "search"
    <3>1. Current(queue[j]) /\ queue[j].type # "search"
      BY <1>4, <2>2 DEF Placed, AllCurrent
    <3> QED
      BY <3>1, AllKept DEF Current
  <2>3. ASSUME NEW t \in Thread, Held(t)' PROVE Current(ttask[t])'
    <3>1. Current(ttask[t])
      BY <1>4, <2>3 DEF Placed, AllCurrent
    <3> QED
      BY <3>1, AllKept DEF Current
  <2>4. ASSUME NEW d \in Client, NEW n \in Request, Searched(d, n)'
        PROVE  Current([type |-> "search", client |-> d, req |-> n])'
    <3>1. Current([type |-> "search", client |-> d, req |-> n])
      BY <1>2, <2>4 DEF Placed, AllCurrent
    <3> QED
      BY <3>1, AllKept
  <2> QED
    BY <2>1, <2>2, <2>3, <2>4 DEF AllCurrent
<1>7. Single'
  <2>1. \A i \in Slot : Live(i)' =>
          /\ \A j \in DOMAIN queue' : Queued(j)' => queue'[j].client # ring'[i].client
          /\ \A t \in Thread : Held(t)' => ttask'[t].client # ring'[i].client
    BY <1>1, <1>4 DEF Placed, Single
  <2>2. ASSUME NEW i \in Slot, Live(i)', NEW n \in Request
        PROVE  ~Searched(ring[i].client, n)'
    <3>1. Live(i) /\ ring'[i] = ring[i] /\ ring[i].client # task.client
      BY <1>1, <1>5, <2>2
    <3>2. ring[i].client \in Client /\ ~Searched(ring[i].client, n)
      BY <3>1, TaskFields DEF Placed, AllCurrent, Single, Current
    <3>3. PICK d \in Client : d = ring[i].client
      BY <3>2
    <3>4. ~Searched(d, n)'
      BY <1>2, <3>1, <3>2, <3>3
    <3> QED
      BY <3>1, <3>3, <3>4 DEF Searched
  <2>3. \A i, j \in Slot :
          Live(i)' /\ Live(j)' /\ ring'[i].client = ring'[j].client => i = j
    BY <1>1 DEF Placed, Single
  <2>4. /\ \A i, j \in DOMAIN queue' :
             Queued(i)' /\ Queued(j)' /\ queue'[i].client = queue'[j].client => i = j
        /\ \A j \in DOMAIN queue' : Queued(j)' =>
             \A t \in Thread : Held(t)' => ttask'[t].client # queue'[j].client
        /\ \A t, u \in Thread :
             Held(t)' /\ Held(u)' /\ ttask'[t].client = ttask'[u].client => t = u
    BY <1>4 DEF Placed, Single
  <2> QED
    BY <2>1, <2>2, <2>3, <2>4 DEF Single
<1>8. Somewhere'
  <2> SUFFICES ASSUME NEW d \in Client \ lost', Busy(d)', ~Published(d)'
               PROVE  \/ \E i \in Slot : Live(i)' /\ ring'[i].client = d
                      \/ \E j \in DOMAIN queue' : Queued(j)' /\ queue'[j].client = d
                      \/ \E t \in Thread : Held(t)' /\ ttask'[t].client = d
                      \/ \E n \in Request : Searched(d, n)'
    BY DEF Somewhere
  <2>1. CASE \E i \in Slot : Live(i) /\ ring[i].client = d
    <3>1. PICK i \in Slot : Live(i) /\ ring[i].client = d
      BY <2>1
    <3>2. CASE i = head
      BY <1>2, <1>3, <3>1, <3>2
    <3> QED
      BY <1>1, <3>1, <3>2
  <2>2. CASE \E j \in DOMAIN queue : Queued(j) /\ queue[j].client = d
    BY <1>4, <2>2
  <2>3. CASE \E t \in Thread : Held(t) /\ ttask[t].client = d
    BY <1>4, <2>3
  <2>4. CASE \E n \in Request : Searched(d, n)
    BY <2>4
  <2> QED
    BY <2>1, <2>2, <2>3, <2>4, WaitKept
<1> QED
  BY <1>6, <1>7, <1>8, WaitKept DEF Placed

\* submit_maintenance_task moves it to the end of the maintenance queue.
LEMMA MaintPlaced ==
    ASSUME Placed, TypeOK, count > 0, ring[head].type # "search", HeadOn,
           \A c \in Client : Untouched(c), UNCHANGED <<ttask, ctx, lost>>,
           queue' = Append(queue, ring[head])
    PROVE  Placed'
<1>1. /\ Live(head) /\ head \in Slot /\ ring' = ring
      /\ \A i \in Slot : Live(i)' <=> Live(i) /\ i # head
  BY HeadOnLive
<1>2. PICK task \in Task : task = ring[head] /\ Current(task)
  BY <1>1 DEF Placed, AllCurrent, Current
<1>3. task.client \in Client /\ task.type \in {"load", "update"}
  BY <1>2, TaskFields
<1>4. PICK last \in Nat : /\ last = Len(queue) + 1 /\ DOMAIN queue' = (DOMAIN queue) \cup {last}
                          /\ last \notin DOMAIN queue
                          /\ queue'[last] = task
                          /\ \A j \in DOMAIN queue : queue'[j] = queue[j]
  BY <1>2 DEF TypeOK
<1>5. /\ \A j : Queued(j)' <=> Queued(j) \/ j = last
      /\ \A j : Queued(j) => j # last /\ queue'[j] = queue[j]
      /\ \A t \in Thread : Held(t)' <=> Held(t)
      /\ \A c \in Client : \A n \in Request : Searched(c, n)' <=> Searched(c, n)
  BY <1>3, <1>4 DEF Queued, Held, Searched
<1>6. /\ \A i \in Slot : Live(i) /\ i # head => ring[i].client # task.client
      /\ \A j : Queued(j) => queue[j].client # task.client
      /\ \A t \in Thread : Held(t) => ttask[t].client # task.client
      /\ \A n \in Request : ~Searched(task.client, n)
  BY <1>1, <1>2 DEF Placed, Single, Queued
<1>7. AllCurrent'
  <2>1. ASSUME NEW i \in Slot, Live(i)' PROVE Current(ring[i])'
    BY <1>1, <2>1, AllKept DEF Placed, AllCurrent, Current
  <2>2. ASSUME NEW j \in DOMAIN queue', Queued(j)'
        PROVE  Current(queue[j])' /\ queue'[j].type # "search"
    <3>1. CASE j = last
      BY <1>2, <1>3, <1>4, <3>1, AllKept DEF Current
    <3>2. CASE j # last
      <4>1. Current(queue[j]) /\ queue[j].type # "search" /\ queue'[j] = queue[j]
        BY <1>5, <2>2, <3>2 DEF Placed, AllCurrent, Queued
      <4> QED
        BY <4>1, AllKept DEF Current
    <3> QED
      BY <3>1, <3>2
  <2>3. ASSUME NEW t \in Thread, Held(t)' PROVE Current(ttask[t])'
    <3>1. Current(ttask[t])
      BY <1>5, <2>3 DEF Placed, AllCurrent
    <3> QED
      BY <3>1, AllKept DEF Current
  <2>4. ASSUME NEW d \in Client, NEW n \in Request, Searched(d, n)'
        PROVE  Current([type |-> "search", client |-> d, req |-> n])'
    <3>1. Current([type |-> "search", client |-> d, req |-> n])
      BY <1>5, <2>4 DEF Placed, AllCurrent
    <3> QED
      BY <3>1, AllKept
  <2> QED
    BY <2>1, <2>2, <2>3, <2>4 DEF AllCurrent
<1>8. Single'
  <2>1. \A i \in Slot : Live(i)' =>
          /\ \A j \in DOMAIN queue' : Queued(j)' => queue'[j].client # ring'[i].client
          /\ \A t \in Thread : Held(t)' => ttask'[t].client # ring'[i].client
    BY <1>1, <1>4, <1>5, <1>6 DEF Placed, Single, Queued
  <2>2. \A i \in Slot : Live(i)' => \A n \in Request : ~Searched(ring[i].client, n)'
    BY <1>1 DEF Placed, Single, Searched
  <2>3. \A i, j \in Slot :
          Live(i)' /\ Live(j)' /\ ring'[i].client = ring'[j].client => i = j
    BY <1>1 DEF Placed, Single
  <2>4. \A i, j \in DOMAIN queue' :
             Queued(i)' /\ Queued(j)' /\ queue'[i].client = queue'[j].client => i = j
    BY <1>4, <1>5, <1>6 DEF Placed, Single, Queued
  <2>5. \A j \in DOMAIN queue' : Queued(j)' =>
             \A t \in Thread : Held(t)' => ttask'[t].client # queue'[j].client
    BY <1>4, <1>5, <1>6 DEF Placed, Single, Queued
  <2>6. \A t, u \in Thread :
             Held(t)' /\ Held(u)' /\ ttask'[t].client = ttask'[u].client => t = u
    BY <1>5 DEF Placed, Single
  <2> QED
    BY <2>1, <2>2, <2>3, <2>4, <2>5, <2>6 DEF Single
<1>9. Somewhere'
  <2> SUFFICES ASSUME NEW d \in Client \ lost', Busy(d)', ~Published(d)'
               PROVE  \/ \E i \in Slot : Live(i)' /\ ring'[i].client = d
                      \/ \E j \in DOMAIN queue' : Queued(j)' /\ queue'[j].client = d
                      \/ \E t \in Thread : Held(t)' /\ ttask'[t].client = d
                      \/ \E n \in Request : Searched(d, n)'
    BY DEF Somewhere
  <2>1. CASE \E i \in Slot : Live(i) /\ ring[i].client = d
    <3>1. PICK i \in Slot : Live(i) /\ ring[i].client = d
      BY <2>1
    <3>2. CASE i = head
      BY <1>2, <1>4, <1>5, <3>1, <3>2
    <3> QED
      BY <1>1, <3>1, <3>2
  <2>2. CASE \E j \in DOMAIN queue : Queued(j) /\ queue[j].client = d
    BY <1>4, <1>5, <2>2
  <2>3. CASE \E t \in Thread : Held(t) /\ ttask[t].client = d
    BY <1>5, <2>3
  <2>4. CASE \E n \in Request : Searched(d, n)
    BY <1>5, <2>4
  <2> QED
    BY <2>1, <2>2, <2>3, <2>4, WaitKept
<1> QED
  BY <1>7, <1>8, <1>9, WaitKept DEF Placed

\* A thread takes the first task of the maintenance queue.
LEMMA TakePlaced ==
    ASSUME Placed, TypeOK, ThreadShape, NEW t \in Thread, Take(t)
    PROVE  Placed'
<1>0. \A c \in Client : Untouched(c)
  BY DEF Take, Untouched, Busy, Published
<1>1. /\ queue \in Seq(Task \cup {Upgrade}) /\ queue # <<>> /\ queue' = Tail(queue)
      /\ ttask' = [ttask EXCEPT ![t] = Head(queue)]
      /\ ttask \in [Thread -> Task \cup {NoTask, Upgrade}]
      /\ tpc[t] = "idle" /\ UNCHANGED <<ringVars, ctx, lost>>
  BY DEF Take, TypeOK
<1>2. PICK task \in Task \cup {Upgrade} :
         /\ task = queue[1] /\ 1 \in DOMAIN queue /\ ttask'[t] = task
  BY <1>1
<1>3. /\ \A u \in Thread \ {t} : ttask'[u] = ttask[u]
      /\ ~Held(t)
  BY <1>1 DEF ThreadShape, Held, NoTask
<1>4. /\ \A j : j \in DOMAIN queue' <=> j \in Nat \ {0} /\ j + 1 \in DOMAIN queue
      /\ \A j \in DOMAIN queue' : queue'[j] = queue[j + 1]
      /\ \A j \in DOMAIN queue : j \in Nat \ {0} /\ (j = 1 \/ j - 1 \in DOMAIN queue')
  BY <1>1
<1>5. /\ \A j : Queued(j)' <=> j \in Nat \ {0} /\ Queued(j + 1)
      /\ \A j : Queued(j)' => queue'[j] = queue[j + 1]
  BY <1>4 DEF Queued
<1>6. /\ \A u \in Thread \ {t} : Held(u)' <=> Held(u)
      /\ Held(t)' <=> Queued(1)
      /\ \A i \in Slot : Live(i)' <=> Live(i)
      /\ \A c \in Client : \A n \in Request : Searched(c, n)' <=> Searched(c, n)
  <2>1. Queued(1) <=> task.type # "upgrade"
    BY <1>2 DEF Queued
  <2>2. Held(t)' <=> task.type \in {"load", "update"}
    BY <1>2 DEF Held
  <2>3. Queued(1) => task.type # "search"
    BY <1>2 DEF Placed, AllCurrent
  <2>4. task.type \in {"search", "load", "update", "upgrade"}
    BY TaskFields DEF Upgrade
  <2> QED
    BY <1>1, <1>3, <2>1, <2>2, <2>3, <2>4 DEF Held, Live, Searched
<1>7. AllCurrent'
  <2>1. ASSUME NEW i \in Slot, Live(i)' PROVE Current(ring[i])'
    <3>1. Current(ring[i])
      BY <1>6, <2>1 DEF Placed, AllCurrent
    <3> QED
      BY <1>0, <1>1, <3>1, AllKept DEF Current
  <2>2. ASSUME NEW j \in DOMAIN queue', Queued(j)'
        PROVE  Current(queue[j])' /\ queue'[j].type # "search"
    <3>1. Current(queue[j + 1]) /\ queue[j + 1].type # "search" /\ queue'[j] = queue[j + 1]
      BY <1>4, <1>5, <2>2 DEF Placed, AllCurrent
    <3>2. PICK x : x = queue[j + 1]
      OBVIOUS
    <3>3. Current(x)'
      BY <1>0, <3>1, <3>2, AllKept
    <3> QED
      BY <3>1, <3>2, <3>3 DEF Current
  <2>3. ASSUME NEW u \in Thread, Held(u)' PROVE Current(ttask[u])'
    <3>1. CASE u = t
      <4>1. Current(task)
        BY <1>2, <1>6, <2>3, <3>1 DEF Placed, AllCurrent
      <4>2. Current(task)'
        BY <1>0, <4>1, AllKept
      <4> QED
        BY <1>2, <3>1, <4>2 DEF Current
    <3>2. CASE u # t
      <4>1. Current(ttask[u]) /\ ttask'[u] = ttask[u]
        BY <1>3, <1>6, <2>3, <3>2 DEF Placed, AllCurrent
      <4> QED
        BY <1>0, <4>1, AllKept DEF Current
    <3> QED
      BY <3>1, <3>2
  <2>4. ASSUME NEW d \in Client, NEW n \in Request, Searched(d, n)'
        PROVE  Current([type |-> "search", client |-> d, req |-> n])'
    <3>1. Current([type |-> "search", client |-> d, req |-> n])
      BY <1>6, <2>4 DEF Placed, AllCurrent
    <3> QED
      BY <1>0, <3>1, AllKept
  <2> QED
    BY <2>1, <2>2, <2>3, <2>4 DEF AllCurrent
<1>8. Single'
  <2>1. \A i \in Slot : Live(i)' =>
          \A j \in DOMAIN queue' : Queued(j)' => queue'[j].client # ring'[i].client
    BY <1>1, <1>4, <1>5, <1>6 DEF Placed, Single
  <2>2. \A i \in Slot : Live(i)' =>
          \A u \in Thread : Held(u)' => ttask'[u].client # ring'[i].client
    BY <1>1, <1>2, <1>3, <1>6 DEF Placed, Single
  <2>3. \A i \in Slot : Live(i)' => \A n \in Request : ~Searched(ring[i].client, n)'
    BY <1>1, <1>6 DEF Placed, Single, Searched
  <2>4. \A i, j \in Slot :
          Live(i)' /\ Live(j)' /\ ring'[i].client = ring'[j].client => i = j
    BY <1>1, <1>6 DEF Placed, Single
  <2>5. \A i, j \in DOMAIN queue' :
             Queued(i)' /\ Queued(j)' /\ queue'[i].client = queue'[j].client => i = j
    BY <1>4, <1>5 DEF Placed, Single
  <2>6. ASSUME NEW j \in DOMAIN queue', Queued(j)', NEW u \in Thread, Held(u)'
        PROVE  ttask'[u].client # queue'[j].client
    <3>1. Queued(j + 1) /\ queue'[j] = queue[j + 1] /\ j + 1 # 1 /\ j + 1 \in DOMAIN queue
      BY <1>4, <1>5, <2>6
    <3>2. CASE u = t
      BY <1>2, <1>6, <2>6, <3>1, <3>2 DEF Placed, Single
    <3>3. CASE u # t
      BY <1>3, <1>6, <2>6, <3>1, <3>3 DEF Placed, Single
    <3> QED
      BY <3>2, <3>3
  <2>7. \A u, v \in Thread :
             Held(u)' /\ Held(v)' /\ ttask'[u].client = ttask'[v].client => u = v
    BY <1>2, <1>3, <1>6 DEF Placed, Single
  <2> QED
    BY <2>1, <2>2, <2>3, <2>4, <2>5, <2>6, <2>7 DEF Single
<1>9. Somewhere'
  <2> SUFFICES ASSUME NEW d \in Client \ lost', Busy(d)', ~Published(d)'
               PROVE  \/ \E i \in Slot : Live(i)' /\ ring'[i].client = d
                      \/ \E j \in DOMAIN queue' : Queued(j)' /\ queue'[j].client = d
                      \/ \E u \in Thread : Held(u)' /\ ttask'[u].client = d
                      \/ \E n \in Request : Searched(d, n)'
    BY DEF Somewhere
  <2>1. CASE \E i \in Slot : Live(i) /\ ring[i].client = d
    BY <1>1, <1>6, <2>1
  <2>2. CASE \E j \in DOMAIN queue : Queued(j) /\ queue[j].client = d
    <3>1. PICK j \in DOMAIN queue : Queued(j) /\ queue[j].client = d
      BY <2>2
    <3>2. CASE j = 1
      BY <1>2, <1>6, <3>1, <3>2
    <3>3. CASE j # 1
      <4>1. j - 1 \in DOMAIN queue' /\ (j - 1) + 1 = j
        BY <1>4, <3>3
      <4> QED
        BY <1>4, <1>5, <3>1, <4>1
    <3> QED
      BY <3>2, <3>3
  <2>3. CASE \E u \in Thread : Held(u) /\ ttask[u].client = d
    BY <1>3, <1>6, <2>3
  <2>4. CASE \E n \in Request : Searched(d, n)
    BY <1>6, <2>4
  <2> QED
    BY <1>0, <1>1, <2>1, <2>2, <2>3, <2>4, WaitKept
<1> QED
  BY <1>0, <1>1, <1>7, <1>8, <1>9, WaitKept DEF Placed

\* A step that moves no task and touches no client.
LEMMA QuietPlaced ==
    ASSUME Placed, TypeOK, UNCHANGED <<ring, head, count, lost>>,
           \A j : Queued(j)' <=> Queued(j),
           \A j : Queued(j) => queue'[j] = queue[j],
           \A t \in Thread : Held(t)' <=> Held(t),
           \A t \in Thread : Held(t) => ttask'[t] = ttask[t],
           \A c \in Client : \A n \in Request : Searched(c, n)' <=> Searched(c, n),
           \A c \in Client : Untouched(c)
    PROVE  Placed'
<1>1. \A i \in Slot : Live(i)' <=> Live(i)
  BY DEF Live
<1>2. PICK D : D = {}
  OBVIOUS
<1>3. /\ \A i \in Slot : Live(i)' <=> Live(i) /\ ring[i].client \notin D
      /\ \A i \in Slot : ring'[i] = ring[i]
      /\ \A j : Queued(j)' <=> Queued(j) /\ queue[j].client \notin D
      /\ \A j : Queued(j)' => queue'[j] = queue[j]
      /\ \A t \in Thread : Held(t)' <=> Held(t) /\ ttask[t].client \notin D
      /\ \A t \in Thread : Held(t)' => ttask'[t] = ttask[t]
      /\ \A c \in Client : \A n \in Request :
              Searched(c, n)' <=> Searched(c, n) /\ c \notin D
      /\ \A c \in Client \ D : Untouched(c)
      /\ \A c \in Client \cap D : IF c \in lost' THEN Busy(c)' /\ ~Published(c)'
                                    ELSE ~Busy(c)' \/ Published(c)'
      /\ lost' \subseteq Client
  BY <1>1, <1>2 DEF TypeOK
<1> HIDE <1>2
<1> QED
  BY <1>3, Shrink

\* A step after which the one client c has no task and needs none.
LEMMA GonePlaced ==
    ASSUME Placed, TypeOK, NEW c \in Client,
           \A i \in Slot : Live(i)' <=> Live(i) /\ ring[i].client # c,
           ring' = ring,
           \A j : Queued(j)' <=> Queued(j) /\ queue[j].client # c,
           queue' = queue,
           \A t \in Thread : Held(t)' <=> Held(t) /\ ttask[t].client # c,
           \A t \in Thread : Held(t)' => ttask'[t] = ttask[t],
           \A d \in Client : \A n \in Request : Searched(d, n)' <=> Searched(d, n) /\ d # c,
           \A d \in Client \ {c} : Untouched(d),
           IF c \in lost' THEN Busy(c)' /\ ~Published(c)' ELSE ~Busy(c)' \/ Published(c)',
           lost' \subseteq Client
    PROVE  Placed'
<1>1. PICK D : D = {c}
  OBVIOUS
<1>2. /\ \A i \in Slot : Live(i)' <=> Live(i) /\ ring[i].client \notin D
      /\ \A i \in Slot : ring'[i] = ring[i]
      /\ \A j : Queued(j)' <=> Queued(j) /\ queue[j].client \notin D
      /\ \A j : Queued(j)' => queue'[j] = queue[j]
      /\ \A t \in Thread : Held(t)' <=> Held(t) /\ ttask[t].client \notin D
      /\ \A t \in Thread : Held(t)' => ttask'[t] = ttask[t]
      /\ \A d \in Client : \A n \in Request :
              Searched(d, n)' <=> Searched(d, n) /\ d \notin D
      /\ \A d \in Client \ D : Untouched(d)
      /\ \A d \in Client \cap D : IF d \in lost' THEN Busy(d)' /\ ~Published(d)'
                                    ELSE ~Busy(d)' \/ Published(d)'
  BY <1>1
<1> HIDE <1>1
<1> QED
  BY <1>2, Shrink

\* The task of a client is in one place: who finds it at the head of the ring,
LEMMA HeadAlone ==
    ASSUME Placed, TypeOK, count > 0, HeadOn
    PROVE  /\ ring[head].client \in Client /\ ring[head].req \in Request
           /\ Current(ring[head])
           /\ \A i \in Slot : Live(i)' <=> Live(i) /\ ring[i].client # ring[head].client
           /\ \A j : Queued(j) => queue[j].client # ring[head].client
           /\ \A t \in Thread : Held(t) => ttask[t].client # ring[head].client
           /\ \A n \in Request : ~Searched(ring[head].client, n)
<1>1. /\ Live(head) /\ head \in Slot
      /\ \A i \in Slot : Live(i)' <=> Live(i) /\ i # head
  BY HeadOnLive
<1>2. /\ Current(ring[head]) /\ ring[head].client \in Client /\ ring[head].req \in Request
  BY <1>1, TaskFields DEF Placed, AllCurrent, Current
<1>3. \A i \in Slot : Live(i)' <=> Live(i) /\ ring[i].client # ring[head].client
  BY <1>1 DEF Placed, Single
<1> QED
  BY <1>1, <1>2, <1>3 DEF Placed, Single, Queued

\* in a thread,
LEMMA HeldAlone ==
    ASSUME Placed, TypeOK, NEW t \in Thread, Held(t)
    PROVE  /\ ttask[t].client \in Client /\ ttask[t].req \in Request
           /\ Current(ttask[t])
           /\ \A i \in Slot : Live(i) => ring[i].client # ttask[t].client
           /\ \A j : Queued(j) => queue[j].client # ttask[t].client
           /\ \A u \in Thread \ {t} : Held(u) => ttask[u].client # ttask[t].client
           /\ \A n \in Request : ~Searched(ttask[t].client, n)
<1>1. Current(ttask[t]) /\ ttask[t].client \in Client /\ ttask[t].req \in Request
  BY TaskFields DEF Placed, AllCurrent, Current
<1>2. kind[ttask[t].client] \in {"load", "update"}
  BY <1>1 DEF Current, Held
<1>3. ASSUME NEW n \in Request, Searched(ttask[t].client, n) PROVE FALSE
  <2>1. PICK c \in Client : c = ttask[t].client
    BY <1>1
  <2>2. Current([type |-> "search", client |-> c, req |-> n])
    BY <1>3, <2>1 DEF Placed, AllCurrent
  <2> QED
    BY <1>2, <2>1, <2>2 DEF Current
<1> QED
  BY <1>1, <1>3 DEF Placed, Single, Queued

\* or in a search, finds it nowhere else.
LEMMA SearchAlone ==
    ASSUME Placed, TypeOK, NEW c \in Client, NEW n \in Request, Searched(c, n)
    PROVE  /\ Busy(c) /\ ~Published(c) /\ c \notin lost /\ n = reqs[c] /\ kind[c] = "search"
           /\ \A i \in Slot : Live(i) => ring[i].client # c
           /\ \A j : Queued(j) => queue[j].client # c
           /\ \A t \in Thread : Held(t) => ttask[t].client # c
           /\ \A m \in Request : Searched(c, m) => m = n
<1>1. \A m \in Request : Searched(c, m) => Current([type |-> "search", client |-> c, req |-> m])
  BY DEF Placed, AllCurrent
<1>2. /\ Busy(c) /\ ~Published(c) /\ c \notin lost /\ n = reqs[c] /\ kind[c] = "search"
  BY <1>1 DEF Current
<1>3. \A m \in Request : Searched(c, m) => m = reqs[c]
  BY <1>1 DEF Current
<1>4. \A i \in Slot : Live(i) => ring[i].client # c
  BY DEF Placed, Single
<1>5. ASSUME NEW j, Queued(j) PROVE queue[j].client # c
  BY <1>2, <1>5 DEF Placed, AllCurrent, Queued, Current
<1>6. ASSUME NEW t \in Thread, Held(t) PROVE ttask[t].client # c
  BY <1>2, <1>6 DEF Placed, AllCurrent, Held, Current
<1> QED
  BY <1>2, <1>3, <1>4, <1>5, <1>6

\* Where the tasks are after a step of a client.
LEMMA ClientPlaced ==
    ASSUME Placed, TypeOK, Answered, NEW c \in Client,
           \/ SendSearch(c) \/ RingFull(c) \/ ClientStep(c)
           \/ \E k \in {"load", "update"} : MaintSend(c, k)
    PROVE  Placed'
<1>0. /\ pc \in [Client -> {"idle", "notify", "wait", "read"}]
      /\ kind \in [Client -> {"search", "load", "update"}]
      /\ reqs \in [Client -> {0} \cup Request]
      /\ status \in [Client -> {0, 1}] /\ maint_done \in [Client -> {0} \cup Request]
      /\ MaxRequests \in Nat /\ Request = 1 .. MaxRequests
      /\ lost \subseteq Client
  BY RingAssumption DEF TypeOK, Request
<1>1. CASE SendSearch(c)
  <2>1. /\ pc[c] = "idle" /\ count < ring_size /\ reqs[c] + 1 \in Request
        /\ reqs'[c] = reqs[c] + 1 /\ kind'[c] = "search" /\ Busy(c)' /\ ~Published(c)'
        /\ Enqueue([type |-> "search", client |-> c, req |-> reqs[c] + 1])
        /\ UNCHANGED <<queue, ttask, ctx, lost>>
    BY <1>0, <1>1 DEF SendSearch, MaySend, Goto, Busy, Published
  <2>2. \A d \in Client \ {c} : Untouched(d)
    BY <1>0, <1>1 DEF SendSearch, Goto, Untouched, Busy, Published
  <2> QED
    BY <2>1, <2>2, SendPlaced
<1>2. CASE \E k \in {"load", "update"} : MaintSend(c, k)
  <2>0. PICK k \in {"load", "update"} : MaintSend(c, k)
    BY <1>2
  <2>1. /\ pc[c] = "idle" /\ count < ring_size /\ reqs[c] + 1 \in Request
        /\ reqs'[c] = reqs[c] + 1 /\ kind'[c] = k /\ Busy(c)' /\ ~Published(c)'
        /\ Enqueue([type |-> k, client |-> c, req |-> reqs[c] + 1])
        /\ UNCHANGED <<queue, ttask, ctx, lost>>
    BY <1>0, <2>0 DEF MaintSend, MaySend, Goto, Busy, Published
  <2>2. \A d \in Client \ {c} : Untouched(d)
    BY <1>0, <2>0 DEF MaintSend, Goto, Untouched, Busy, Published
  <2> QED
    BY <2>1, <2>2, SendPlaced
<1>3. CASE RingFull(c) \/ Notify(c) \/ GetResult(c)
  <2>1. \A d \in Client : Untouched(d)
    BY <1>0, <1>3 DEF RingFull, Notify, GetResult, Goto, Untouched, Busy, Published
  <2>2. UNCHANGED <<ring, head, count, lost, queue, ttask, ctx>>
    BY <1>3 DEF RingFull, Notify, GetResult
  <2> QED
    BY <2>1, <2>2, QuietPlaced DEF Queued, Held, Searched
<1>4. CASE ReadPairs(c) \/ MaintReturn(c)
  <2>1. Busy(c) /\ Published(c) /\ ~Busy(c)'
    BY <1>0, <1>4 DEF ReadPairs, MaintReturn, Goto, Busy, Published, Answered, AnswerShape
  <2>2. \A d \in Client \ {c} : Untouched(d)
    BY <1>0, <1>4 DEF ReadPairs, MaintReturn, Goto, Untouched, Busy, Published
  <2>3. UNCHANGED <<ring, head, count, lost, queue, ttask, ctx>>
    BY <1>4 DEF ReadPairs, MaintReturn
  <2>4. /\ \A i \in Slot : Live(i) => ring[i].client # c
        /\ \A j : Queued(j) => queue[j].client # c
        /\ \A t \in Thread : Held(t) => ttask[t].client # c
        /\ \A n \in Request : ~Searched(c, n)
    BY <2>1, NoTaskOf
  <2>5. c \notin lost'
    BY <2>1, <2>3 DEF Placed, LostWaits
  <2>6. /\ \A i \in Slot : Live(i)' <=> Live(i)
        /\ \A j : Queued(j)' <=> Queued(j)
        /\ \A t \in Thread : Held(t)' <=> Held(t)
        /\ \A d \in Client : \A n \in Request : Searched(d, n)' <=> Searched(d, n)
    BY <2>3 DEF Live, Queued, Held, Searched
  <2> QED
    BY <1>0, <2>1, <2>2, <2>3, <2>4, <2>5, <2>6, GonePlaced
<1> QED
  BY <1>1, <1>2, <1>3, <1>4 DEF ClientStep

\* Where they are after a step of the worker's main loop.
LEMMA WorkerPlaced ==
    ASSUME Placed, TypeOK, WorkerStep
    PROVE  Placed'
<1>0. /\ pc \in [Client -> {"idle", "notify", "wait", "read"}]
      /\ status \in [Client -> {0, 1}] /\ lost \subseteq Client
      /\ ctx \in [Client -> [Request -> [segs : SUBSET (1 .. MaxSegments),
                 found : SUBSET (1 .. MaxSegments), remaining : 0 .. MaxSegments,
                 counted : SUBSET (1 .. MaxSegments),
                 stage : {"none", "search", "count", "pairs", "publish"}]]]
  BY DEF TypeOK
<1>1. CASE WorkerStart \/ WorkerReset \/ WorkerWake \/ RingEmpty
  <2>1. \A d \in Client : Untouched(d)
    BY <1>1 DEF WorkerStart, WorkerReset, WorkerWake, RingEmpty, Untouched, Busy, Published
  <2>2. UNCHANGED <<ring, head, count, lost, queue, ttask, ctx>>
    BY <1>1 DEF WorkerStart, WorkerReset, WorkerWake, RingEmpty
  <2> QED
    BY <2>1, <2>2, QuietPlaced DEF Queued, Held, Searched
<1>2. CASE HandleSearch
  <2>1. /\ count > 0 /\ ring[head].type = "search" /\ HeadOn
        /\ UNCHANGED <<queue, ttask, lost>>
    BY <1>2 DEF HandleSearch
  <2>2. \A d \in Client : Untouched(d)
    BY <1>2 DEF HandleSearch, Untouched, Busy, Published
  <2>3. ring[head].client \in Client /\ ring[head].req \in Request
    BY <2>1, HeadAlone
  <2>4. \A c \in Client : \A n \in Request :
          Searched(c, n)' <=> Searched(c, n) \/ (c = ring[head].client /\ n = ring[head].req)
    <3>0. PICK segs \in {1 .. k : k \in 1 .. MaxSegments} :
            ctx' = [ctx EXCEPT ![ring[head].client][ring[head].req] =
                      [segs |-> segs, found |-> {}, remaining |-> Cardinality(segs),
                       counted |-> {}, stage |-> "search"]]
      BY <1>2 DEF HandleSearch
    <3>1. /\ ctx'[ring[head].client][ring[head].req].stage = "search"
          /\ \A c \in Client : \A n \in Request :
               c # ring[head].client \/ n # ring[head].req => ctx'[c][n] = ctx[c][n]
      BY <1>0, <2>3, <3>0
    <3> QED
      BY <1>0, <2>3, <3>1 DEF Searched
  <2> QED
    BY <2>1, <2>2, <2>4, SearchPlaced
<1>3. CASE HandleEmptySearch
  <2>1. /\ count > 0 /\ ring[head].type = "search" /\ HeadOn
        /\ UNCHANGED <<queue, ttask, lost, ctx, pc, kind, reqs, maint_done>>
        /\ status' = [status EXCEPT ![ring[head].client] = 1]
    BY <1>3 DEF HandleEmptySearch
  <2>2. PICK c \in Client : c = ring[head].client
    BY <2>1, HeadAlone
  <2>3. Busy(c) /\ kind[c] = "search" /\ c \notin lost
    BY <2>1, <2>2, HeadAlone DEF Current
  <2>4. \A d \in Client \ {c} : Untouched(d)
    BY <1>0, <2>1, <2>2 DEF Untouched, Busy, Published
  <2>5. Published(c)' /\ c \notin lost'
    BY <1>0, <2>1, <2>2, <2>3 DEF Busy, Published
  <2>6. /\ \A i \in Slot : Live(i)' <=> Live(i) /\ ring[i].client # c
        /\ \A j : Queued(j) => queue[j].client # c
        /\ \A t \in Thread : Held(t) => ttask[t].client # c
        /\ \A n \in Request : ~Searched(c, n)
    BY <2>1, <2>2, HeadAlone
  <2>7. /\ \A j : Queued(j)' <=> Queued(j)
        /\ \A t \in Thread : Held(t)' <=> Held(t)
        /\ \A d \in Client : \A n \in Request : Searched(d, n)' <=> Searched(d, n)
        /\ ring' = ring
    BY <2>1 DEF Queued, Held, Searched, HeadOn
  <2> QED
    BY <1>0, <2>1, <2>4, <2>5, <2>6, <2>7, GonePlaced, SMTT(40)
<1>4. CASE HandleMaint
  <2>1. /\ count > 0 /\ ring[head].type # "search" /\ HeadOn
        /\ UNCHANGED <<ttask, ctx, lost>>
        /\ queue' = Append(queue, ring[head])
    BY <1>4 DEF HandleMaint
  <2>2. \A d \in Client : Untouched(d)
    BY <1>4 DEF HandleMaint, Untouched, Busy, Published
  <2> QED
    BY <2>1, <2>2, MaintPlaced
<1>5. CASE DropMaint
  <2>1. /\ count > 0 /\ HeadOn
        /\ UNCHANGED <<queue, ttask, ctx, pc, kind, reqs, status, maint_done>>
        /\ lost' = lost \cup {ring[head].client}
    BY <1>5 DEF DropMaint
  <2>2. PICK c \in Client : c = ring[head].client
    BY <2>1, HeadAlone
  <2>3. Busy(c) /\ ~Published(c)
    BY <2>1, <2>2, HeadAlone DEF Current
  <2>4. \A d \in Client \ {c} : Untouched(d)
    BY <2>1, <2>2 DEF Untouched, Busy, Published
  <2>5. Busy(c)' /\ ~Published(c)' /\ c \in lost' /\ lost' \subseteq Client
    BY <1>0, <2>1, <2>2, <2>3 DEF Busy, Published
  <2>6. /\ \A i \in Slot : Live(i)' <=> Live(i) /\ ring[i].client # c
        /\ \A j : Queued(j) => queue[j].client # c
        /\ \A t \in Thread : Held(t) => ttask[t].client # c
        /\ \A n \in Request : ~Searched(c, n)
    BY <2>1, <2>2, HeadAlone
  <2>7. /\ \A j : Queued(j)' <=> Queued(j)
        /\ \A t \in Thread : Held(t)' <=> Held(t)
        /\ \A d \in Client : \A n \in Request : Searched(d, n)' <=> Searched(d, n)
        /\ ring' = ring
    BY <2>1 DEF Queued, Held, Searched, HeadOn
  <2> QED
    BY <2>1, <2>4, <2>5, <2>6, <2>7, GonePlaced
<1> QED
  BY <1>1, <1>2, <1>3, <1>4, <1>5 DEF WorkerStep

\* Where they are when the worker ends with an error: what it had is lost.
LEMMA ErrorPlaced ==
    ASSUME Placed, TypeOK, WorkerError
    PROVE  Placed'
<1>1. /\ UNCHANGED <<ring, head, count, pc, kind, reqs, status, maint_done>>
      /\ lost' = lost \cup Inside /\ queue' = <<>>
      /\ ctx' = [c \in Client |-> [n \in Request |-> NoContext]]
      /\ ttask' = [t \in Thread |-> NoTask]
  BY DEF WorkerError
<1>2. Inside \subseteq Client /\ lost \subseteq Client
  BY DEF Inside, TypeOK
<1>3. ASSUME NEW c \in Inside PROVE Busy(c) /\ ~Published(c) /\ c \notin lost /\ c \in Client
  <2>1. \E t : Current(t) /\ t.client = c
    <3>1. CASE \E n \in Request : ctx[c][n].stage # "none"
      <4>1. PICK n \in Request : Searched(c, n)
        BY <3>1 DEF Searched
      <4>2. Current([type |-> "search", client |-> c, req |-> n])
        BY <1>2, <4>1 DEF Placed, AllCurrent
      <4> QED
        BY <4>2
    <3>2. CASE \E i \in DOMAIN queue : queue[i].type # "upgrade" /\ queue[i].client = c
      BY <3>2 DEF Placed, AllCurrent, Queued
    <3>3. CASE \E t \in Thread : ttask[t].type \in {"load", "update"} /\ ttask[t].client = c
      BY <3>3 DEF Placed, AllCurrent, Held
    <3> QED
      BY <3>1, <3>2, <3>3 DEF Inside
  <2> QED
    BY <1>2, <2>1 DEF Current
<1>4. \A i \in Slot : Live(i) => ring[i].client \notin Inside
  BY DEF Placed, Single, Inside, Queued, Held, Searched
<1>5. /\ \A j : Queued(j) => queue[j].client \in Inside
      /\ \A t \in Thread : Held(t) => ttask[t].client \in Inside
  BY TaskFields DEF Placed, AllCurrent, Current, Inside, Queued, Held
<1>6. \A c \in Client : \A n \in Request : Searched(c, n) => c \in Inside
  BY DEF Inside, Searched
<1>7. /\ \A i \in Slot : Live(i)' <=> Live(i)
      /\ \A j : ~Queued(j)'
      /\ \A t \in Thread : ~Held(t)'
      /\ \A c \in Client : \A n \in Request : ~Searched(c, n)'
  BY <1>1 DEF Live, Queued, Held, Searched, NoTask, NoContext
<1>8. \A c \in Client \ Inside : Untouched(c)
  BY <1>1 DEF Untouched, Busy, Published
<1>9. \A c \in Client \cap Inside : c \in lost' /\ Busy(c)' /\ ~Published(c)'
  BY <1>1, <1>3 DEF Busy, Published
<1>10. PICK D : D = Inside
  OBVIOUS
<1>11. /\ \A i \in Slot : Live(i)' <=> Live(i) /\ ring[i].client \notin D
       /\ \A i \in Slot : ring'[i] = ring[i]
       /\ \A j : Queued(j)' <=> Queued(j) /\ queue[j].client \notin D
       /\ \A j : Queued(j)' => queue'[j] = queue[j]
       /\ \A t \in Thread : Held(t)' <=> Held(t) /\ ttask[t].client \notin D
       /\ \A t \in Thread : Held(t)' => ttask'[t] = ttask[t]
       /\ \A c \in Client : \A n \in Request :
              Searched(c, n)' <=> Searched(c, n) /\ c \notin D
  BY <1>1, <1>4, <1>5, <1>6, <1>7, <1>10
<1>12. /\ \A c \in Client \ D : Untouched(c)
       /\ \A c \in Client \cap D : IF c \in lost' THEN Busy(c)' /\ ~Published(c)'
                                    ELSE ~Busy(c)' \/ Published(c)'
       /\ lost' \subseteq Client
  BY <1>1, <1>2, <1>8, <1>9, <1>10
<1> QED
  BY <1>11, <1>12, Shrink

\* A context is there when the search has begun.
LEMMA NoSearch ==
    ASSUME SearchShape, NEW c \in Client, NEW n \in Request, ctx[c][n].stage = "none"
    PROVE  ctx[c][n] = NoContext
  BY DEF SearchShape, ContextShape

\* What search_segment_task does to its context: a result is stored,
LEMMA SegmentMoves ==
    ASSUME TypeOK, SearchShape, NEW c \in Client, NEW n \in Request,
           NEW s \in 1 .. MaxSegments, SearchSegment(c, n, s)
    PROVE  /\ ctx[c][n].stage # "none"
           /\ ctx'[c][n] = [ctx[c][n] EXCEPT !.found = ctx[c][n].found \cup {s}]
           /\ ctx'[c][n].stage # "none"
           /\ \A d \in Client : \A m \in Request : d # c \/ m # n => ctx'[d][m] = ctx[d][m]
<1>0. /\ ctx \in [Client -> [Request -> [segs : SUBSET (1 .. MaxSegments),
                 found : SUBSET (1 .. MaxSegments), remaining : 0 .. MaxSegments,
                 counted : SUBSET (1 .. MaxSegments),
                 stage : {"none", "search", "count", "pairs", "publish"}]]]
  BY DEF TypeOK
<1>1. s \in ctx[c][n].segs /\ ctx' = [ctx EXCEPT ![c][n].found = @ \cup {s}]
  BY DEF SearchSegment
<1>2. ctx[c][n].stage # "none"
  BY <1>1, NoSearch DEF NoContext
<1>3. ctx'[c][n] = [ctx[c][n] EXCEPT !.found = ctx[c][n].found \cup {s}]
  BY <1>0, <1>1
<1>4. ctx'[c][n].stage = ctx[c][n].stage
  BY <1>0, <1>3
<1> QED
  BY <1>0, <1>1, <1>2, <1>3, <1>4

\* the number of segments left is counted down,
LEMMA CountMoves ==
    ASSUME TypeOK, SearchShape, NEW c \in Client, NEW n \in Request,
           NEW s \in 1 .. MaxSegments, CountDown(c, n, s)
    PROVE  /\ ctx[c][n].stage # "none"
           /\ ctx'[c][n].remaining = ctx[c][n].remaining - 1
           /\ ctx'[c][n].counted = ctx[c][n].counted \cup {s}
           /\ ctx'[c][n].segs = ctx[c][n].segs /\ ctx'[c][n].found = ctx[c][n].found
           /\ ctx'[c][n].stage = IF ctx[c][n].remaining = 1 THEN "count" ELSE ctx[c][n].stage
           /\ ctx'[c][n].stage # "none"
           /\ \A d \in Client : \A m \in Request : d # c \/ m # n => ctx'[d][m] = ctx[d][m]
<1>0. /\ ctx \in [Client -> [Request -> [segs : SUBSET (1 .. MaxSegments),
                 found : SUBSET (1 .. MaxSegments), remaining : 0 .. MaxSegments,
                 counted : SUBSET (1 .. MaxSegments),
                 stage : {"none", "search", "count", "pairs", "publish"}]]]
  BY DEF TypeOK
<1>1. /\ s \in ctx[c][n].found
      /\ ctx' = [ctx EXCEPT ![c][n].remaining = @ - 1,
                            ![c][n].counted = @ \cup {s},
                            ![c][n].stage = IF ctx[c][n].remaining = 1 THEN "count" ELSE @]
  BY DEF CountDown
<1>2. ctx[c][n].stage # "none"
  BY <1>1, NoSearch DEF NoContext
<1>3. ctx'[c][n] = [ctx[c][n] EXCEPT
                 !.remaining = ctx[c][n].remaining - 1,
                 !.counted = ctx[c][n].counted \cup {s},
                 !.stage = IF ctx[c][n].remaining = 1 THEN "count" ELSE ctx[c][n].stage]
  BY <1>0, <1>1
<1>4. /\ ctx'[c][n].remaining = ctx[c][n].remaining - 1
      /\ ctx'[c][n].counted = ctx[c][n].counted \cup {s}
      /\ ctx'[c][n].segs = ctx[c][n].segs /\ ctx'[c][n].found = ctx[c][n].found
      /\ ctx'[c][n].stage = IF ctx[c][n].remaining = 1 THEN "count" ELSE ctx[c][n].stage
  BY <1>0, <1>3
<1>5. \A d \in Client : \A m \in Request : d # c \/ m # n => ctx'[d][m] = ctx[d][m]
  BY <1>0, <1>1
<1> QED
  BY <1>0, <1>2, <1>3, <1>4, <1>5

\* and the parts of the answer are written.
LEMMA WriteMoves ==
    ASSUME TypeOK, NEW c \in Client, NEW n \in Request,
           WriteCount(c, n) \/ WritePairs(c, n)
    PROVE  /\ ctx[c][n].stage # "none"
           /\ ctx'[c][n] = [ctx[c][n] EXCEPT
                 !.stage = IF ctx[c][n].stage = "count" THEN "pairs" ELSE "publish"]
           /\ ctx'[c][n].stage # "none"
           /\ \A d \in Client : \A m \in Request : d # c \/ m # n => ctx'[d][m] = ctx[d][m]
<1>0. /\ ctx \in [Client -> [Request -> [segs : SUBSET (1 .. MaxSegments),
                 found : SUBSET (1 .. MaxSegments), remaining : 0 .. MaxSegments,
                 counted : SUBSET (1 .. MaxSegments),
                 stage : {"none", "search", "count", "pairs", "publish"}]]]
  BY DEF TypeOK
<1>1. PICK l \in {"pairs", "publish"} :
         /\ ctx' = [ctx EXCEPT ![c][n].stage = l]
         /\ ctx[c][n].stage \in {"count", "pairs"}
         /\ l = IF ctx[c][n].stage = "count" THEN "pairs" ELSE "publish"
  BY DEF WriteCount, WritePairs
<1>2. ctx'[c][n] = [ctx[c][n] EXCEPT !.stage = l]
  BY <1>0, <1>1
<1>3. ctx'[c][n].stage = l
  BY <1>0, <1>2
<1>4. \A d \in Client : \A m \in Request : d # c \/ m # n => ctx'[d][m] = ctx[d][m]
  BY <1>0, <1>1
<1> QED
  BY <1>1, <1>2, <1>3, <1>4

\* Where they are after a step of a search.
LEMMA SearchStepPlaced ==
    ASSUME Placed, TypeOK, SearchShape, NEW c \in Client, NEW n \in Request, SearchStep(c, n)
    PROVE  Placed'
<1>0. /\ ctx \in [Client -> [Request -> [segs : SUBSET (1 .. MaxSegments),
                 found : SUBSET (1 .. MaxSegments), remaining : 0 .. MaxSegments,
                 counted : SUBSET (1 .. MaxSegments),
                 stage : {"none", "search", "count", "pairs", "publish"}]]]
      /\ status \in [Client -> {0, 1}] /\ lost \subseteq Client
  BY DEF TypeOK
<1>1. CASE Publish(c, n)
  <2>1. /\ UNCHANGED <<ring, head, count, lost, queue, ttask, pc, kind, reqs, maint_done>>
        /\ status' = [status EXCEPT ![c] = 1]
        /\ ctx' = [ctx EXCEPT ![c][n] = NoContext] /\ Searched(c, n)
    BY <1>1 DEF Publish, Searched
  <2>2. /\ Busy(c) /\ c \notin lost /\ kind[c] = "search"
        /\ \A i \in Slot : Live(i) => ring[i].client # c
        /\ \A j : Queued(j) => queue[j].client # c
        /\ \A t \in Thread : Held(t) => ttask[t].client # c
        /\ \A m \in Request : Searched(c, m) => m = n
    BY <2>1, SearchAlone
  <2>3. \A d \in Client : \A m \in Request : Searched(d, m)' <=> Searched(d, m) /\ d # c
    BY <1>0, <2>1, <2>2 DEF Searched, NoContext
  <2>4. /\ \A i \in Slot : Live(i)' <=> Live(i)
        /\ \A j : Queued(j)' <=> Queued(j)
        /\ \A t \in Thread : Held(t)' <=> Held(t)
    BY <2>1 DEF Live, Queued, Held
  <2>5. \A d \in Client \ {c} : Untouched(d)
    BY <1>0, <2>1 DEF Untouched, Busy, Published
  <2>6. Published(c)' /\ c \notin lost'
    BY <1>0, <2>1, <2>2 DEF Busy, Published
  <2> QED
    BY <1>0, <2>1, <2>2, <2>3, <2>4, <2>5, <2>6, GonePlaced
<1>2. CASE WriteCount(c, n) \/ WritePairs(c, n)
           \/ \E s \in 1 .. MaxSegments : SearchSegment(c, n, s) \/ CountDown(c, n, s)
  <2>1. UNCHANGED <<ring, head, count, lost, queue, ttask, pc, kind, reqs, maint_done, status>>
    BY <1>2 DEF WriteCount, WritePairs, SearchSegment, CountDown
  <2>2. \A d \in Client : Untouched(d)
    BY <2>1 DEF Untouched, Busy, Published
  <2>3. /\ ctx'[c][n].stage # "none" /\ ctx[c][n].stage # "none"
        /\ \A d \in Client : \A m \in Request : d # c \/ m # n => ctx'[d][m] = ctx[d][m]
    <3>1. CASE WriteCount(c, n) \/ WritePairs(c, n)
      BY <3>1, WriteMoves
    <3>2. CASE \E s \in 1 .. MaxSegments : SearchSegment(c, n, s)
      BY <3>2, SegmentMoves
    <3>3. CASE \E s \in 1 .. MaxSegments : CountDown(c, n, s)
      BY <3>3, CountMoves
    <3> QED
      BY <1>2, <3>1, <3>2, <3>3
  <2>4. \A d \in Client : \A m \in Request : Searched(d, m)' <=> Searched(d, m)
    BY <1>0, <2>3 DEF Searched
  <2> QED
    BY <2>1, <2>2, <2>4, QuietPlaced, Zenon DEF Queued, Held
<1> QED
  BY <1>1, <1>2 DEF SearchStep

\* submit_internal_task: as many upgrade tasks as fit.
LEMMA UpgradesFit ==
    ASSUME queue \in Seq(Task \cup {Upgrade}), NEW k \in 1 .. MaxSegments
    PROVE  [i \in 1 .. Min({k, MAINTENANCE_TASK_QUEUE_SIZE - Len(queue)}) |-> Upgrade]
             \in Seq({Upgrade})
<1>1. PICK room \in Int : room = MAINTENANCE_TASK_QUEUE_SIZE - Len(queue)
  BY RingAssumption
<1>2. k \in Int
  BY RingAssumption
<1>3. \E x \in {k, room} : \A y \in {k, room} : x <= y
  <2>1. CASE k <= room
    BY <1>2, <2>1
  <2>2. CASE room <= k
    BY <1>2, <2>2
  <2> QED
    BY <1>1, <1>2, <2>1, <2>2
<1>4. Min({k, room}) \in {k, room}
  BY <1>3 DEF Min
<1>5. PICK m \in Int : m = Min({k, room})
  BY <1>1, <1>2, <1>4
<1>6. [i \in 1 .. m |-> Upgrade] \in Seq({Upgrade})
  <2>1. CASE m >= 0
    BY <2>1
  <2>2. CASE m < 0
    <3>1. [i \in 1 .. m |-> Upgrade] = <<>>
      BY <2>2
    <3> QED
      BY <3>1
  <2> QED
    BY <2>1, <2>2
<1> QED
  BY <1>1, <1>5, <1>6

\* Where they are after a step of a maintenance thread.
LEMMA ThreadPlaced ==
    ASSUME Placed, TypeOK, ThreadShape, NEW t \in Thread, ThreadStep(t)
    PROVE  Placed'
<1>0. /\ tpc \in [Thread -> {"idle", "load", "update", "upgrade", "submit", "done"}]
      /\ ttask \in [Thread -> Task \cup {NoTask, Upgrade}]
      /\ maint_done \in [Client -> {0} \cup Request] /\ lost \subseteq Client
      /\ queue \in Seq(Task \cup {Upgrade})
      /\ 0 \notin Request
  BY RingAssumption DEF TypeOK, Request
<1>1. CASE Take(t)
  BY <1>1, TakePlaced
<1>2. CASE RunLoad(t) \/ RunUpdate(t) \/ RunUpgrade(t)
  <2>1. UNCHANGED <<ring, head, count, lost, queue, ctx, pc, kind, reqs, maint_done, status>>
    BY <1>2 DEF RunLoad, RunUpdate, RunUpgrade
  <2>2. \A d \in Client : Untouched(d)
    BY <2>1 DEF Untouched, Busy, Published
  <2>3. /\ \A u \in Thread : Held(u)' <=> Held(u)
        /\ \A u \in Thread : Held(u) => ttask'[u] = ttask[u]
    <3>1. CASE ttask' = ttask
      BY <3>1 DEF Held
    <3>2. CASE RunUpgrade(t)
      <4>1. ttask[t] = Upgrade /\ ttask' = [ttask EXCEPT ![t] = NoTask]
        BY <3>2 DEF RunUpgrade, ThreadShape
      <4> QED
        BY <1>0, <4>1 DEF Held, Upgrade, NoTask
    <3> QED
      BY <1>2, <3>1, <3>2 DEF RunLoad, RunUpdate
  <2> QED
    BY <2>1, <2>2, <2>3, QuietPlaced DEF Queued, Searched
<1>3. CASE SubmitUpgrades(t)
  <2>1. UNCHANGED <<ring, head, count, lost, ttask, ctx, pc, kind, reqs, maint_done, status>>
    BY <1>3 DEF SubmitUpgrades
  <2>2. \A d \in Client : Untouched(d)
    BY <2>1 DEF Untouched, Busy, Published
  <2>3. PICK k \in 1 .. MaxSegments : queue' = queue \o
          [i \in 1 .. Min({k, MAINTENANCE_TASK_QUEUE_SIZE - Len(queue)}) |-> Upgrade]
    BY <1>3 DEF SubmitUpgrades
  <2>4. /\ \A j : Queued(j)' <=> Queued(j)
        /\ \A j : Queued(j) => queue'[j] = queue[j]
    <3>1. PICK more \in Seq({Upgrade}) : queue' = queue \o more
      BY <1>0, <2>3, UpgradesFit
    <3>2. /\ \A j \in DOMAIN queue : j \in DOMAIN queue' /\ queue'[j] = queue[j]
          /\ \A j \in DOMAIN queue' : j \in DOMAIN queue \/ queue'[j] = Upgrade
      <4>1. /\ DOMAIN queue = 1 .. Len(queue) /\ DOMAIN queue' = 1 .. Len(queue) + Len(more)
            /\ Len(queue) \in Nat /\ Len(more) \in Nat
        BY <1>0, <3>1
      <4>2. ASSUME NEW j \in DOMAIN queue PROVE j \in DOMAIN queue' /\ queue'[j] = queue[j]
        BY <1>0, <3>1, <4>1
      <4>3. ASSUME NEW j \in DOMAIN queue', j \notin DOMAIN queue PROVE queue'[j] = Upgrade
        <5>1. queue'[j] = more[j - Len(queue)] /\ j - Len(queue) \in 1 .. Len(more)
          BY <1>0, <3>1, <4>1, <4>3
        <5> QED
          BY <3>1, <5>1
      <4> QED
        BY <4>2, <4>3
    <3> QED
      BY <3>2 DEF Queued, Upgrade
  <2> QED
    BY <2>1, <2>2, <2>4, QuietPlaced DEF Held, Searched
<1>4. CASE RunMmapLoad(t) \/ Done(t)
  <2>1. /\ UNCHANGED <<ring, head, count, lost, queue, ctx, pc, kind, reqs, status>>
        /\ maint_done' = [maint_done EXCEPT ![ttask[t].client] = ttask[t].req]
        /\ ttask' = [ttask EXCEPT ![t] = NoTask]
    BY <1>4 DEF RunMmapLoad, Done
  <2>2. Held(t)
    BY <1>4 DEF RunMmapLoad, Done, ThreadShape, Held
  <2>3. PICK c \in Client : c = ttask[t].client
    BY <2>2, HeldAlone
  <2>4. /\ Busy(c) /\ c \notin lost /\ kind[c] # "search" /\ ttask[t].req \in Request
    BY <2>2, <2>3, HeldAlone DEF Current, Held
  <2>5. /\ \A i \in Slot : Live(i) => ring[i].client # c
        /\ \A j : Queued(j) => queue[j].client # c
        /\ \A u \in Thread \ {t} : Held(u) => ttask[u].client # c
        /\ \A n \in Request : ~Searched(c, n)
    BY <2>2, <2>3, HeldAlone
  <2>6. /\ \A u \in Thread : Held(u)' <=> Held(u) /\ ttask[u].client # c
        /\ \A u \in Thread : Held(u)' => ttask'[u] = ttask[u]
    BY <1>0, <2>1, <2>3, <2>5 DEF Held, NoTask
  <2>7. /\ \A i \in Slot : Live(i)' <=> Live(i)
        /\ \A j : Queued(j)' <=> Queued(j)
        /\ \A d \in Client : \A n \in Request : Searched(d, n)' <=> Searched(d, n)
    BY <2>1 DEF Live, Queued, Searched
  <2>8. \A d \in Client \ {c} : Untouched(d)
    BY <1>0, <2>1, <2>3 DEF Untouched, Busy, Published
  <2>9. Published(c)' /\ c \notin lost'
    BY <1>0, <2>1, <2>3, <2>4 DEF Busy, Published
  <2> QED
    BY <1>0, <2>1, <2>5, <2>6, <2>7, <2>8, <2>9, GonePlaced
<1> QED
  BY <1>1, <1>2, <1>3, <1>4 DEF ThreadStep

\* A step leaves every request that waits in one place.
LEMMA PlacedStep ==
    ASSUME IndInv, Next
    PROVE  Placed'
<1>1. Placed /\ TypeOK /\ ThreadShape /\ SearchShape /\ Answered
  BY DEF IndInv, Placed
<1>2. ASSUME NEW c \in Client,
             \/ SendSearch(c) \/ RingFull(c) \/ ClientStep(c)
             \/ \E k \in {"load", "update"} : MaintSend(c, k)
      PROVE  Placed'
  BY <1>1, <1>2, ClientPlaced
<1>3. ASSUME NEW c \in Client, NEW n \in Request, SearchStep(c, n) PROVE Placed'
  BY <1>1, <1>3, SearchStepPlaced
<1>4. CASE WorkerStep
  BY <1>1, <1>4, WorkerPlaced
<1>5. CASE WorkerError
  BY <1>1, <1>5, ErrorPlaced
<1>6. ASSUME NEW t \in Thread, ThreadStep(t) PROVE Placed'
  BY <1>1, <1>6, ThreadPlaced
<1> QED
  BY <1>2, <1>3, <1>4, <1>5, <1>6 DEF Next

-----------------------------------------------------------------------------
(* Types.                                                                  *)

\* The types of what clients and the result slots hold.
SlotTypes ==
    /\ status \in [Client -> {0, 1}]
    /\ result_count \in [Client -> Cell] /\ payload \in [Client -> Cell]
    /\ maint_status \in [Client -> MaintResult]
    /\ maint_done \in [Client -> {0} \cup Request]
    /\ pc \in [Client -> {"idle", "notify", "wait", "read"}]
    /\ kind \in [Client -> {"search", "load", "update"}]
    /\ reqs \in [Client -> {0} \cup Request]
    /\ expect \in [Client -> 0 .. 1 + MaxSegments]

\* The types of what the ring holds.
RingTypes ==
    /\ ring \in [Slot -> Task \cup {NoTask}]
    /\ head \in Slot /\ tail \in Slot /\ count \in 0 .. ring_size
    /\ tail = (head + count) % ring_size

\* The types of what is in the worker's memory.
WorkTypes ==
    /\ wpc \in {"down", "start", "sleep", "drain"}
    /\ ctx \in [Client -> [Request -> [segs : SUBSET (1 .. MaxSegments),
                 found : SUBSET (1 .. MaxSegments), remaining : 0 .. MaxSegments,
                 counted : SUBSET (1 .. MaxSegments),
                 stage : {"none", "search", "count", "pairs", "publish"}]]]
    /\ queue \in Seq(Task \cup {Upgrade})
    /\ tpc \in [Thread -> {"idle", "load", "update", "upgrade", "submit", "done"}]
    /\ ttask \in [Thread -> Task \cup {NoTask, Upgrade}]
    /\ lost \subseteq Client

LEMMA Types == TypeOK <=> RingTypes /\ SlotTypes /\ WorkTypes
  BY DEF TypeOK, RingTypes, SlotTypes, WorkTypes

\* The number of segments in a set of them.
LEMMA SegmentCount ==
    ASSUME NEW S \in SUBSET (1 .. MaxSegments)
    PROVE  IsFiniteSet(S) /\ Cardinality(S) \in 0 .. MaxSegments
<1>1. IsFiniteSet(1 .. MaxSegments) /\ Cardinality(1 .. MaxSegments) = MaxSegments
  BY FS_Interval, RingAssumption
<1>2. IsFiniteSet(S) /\ Cardinality(S) <= Cardinality(1 .. MaxSegments)
  BY <1>1, FS_Subset
<1> QED
  BY <1>1, <1>2, FS_CardinalityType, RingAssumption

\* Types after a step of a client.
LEMMA ClientTypes ==
    ASSUME TypeOK, NEW c \in Client,
           \/ SendSearch(c) \/ RingFull(c) \/ ClientStep(c)
           \/ \E k \in {"load", "update"} : MaintSend(c, k)
    PROVE  TypeOK'
<1>0. RingTypes /\ SlotTypes /\ WorkTypes
  BY Types
<1>1. MaxRequests \in Nat /\ Request = 1 .. MaxRequests
  BY RingAssumption DEF Request
<1>2. CASE SendSearch(c)
  <2>0. /\ reqs[c] + 1 \in Request /\ count < ring_size
        /\ Enqueue([type |-> "search", client |-> c, req |-> reqs[c] + 1])
    <3>1. reqs[c] \in {0} \cup Request /\ reqs[c] < MaxRequests
      BY <1>0, <1>2 DEF SendSearch, MaySend, SlotTypes
    <3>2. reqs[c] + 1 \in Request
      BY <1>1, <3>1
    <3> QED
      BY <1>2, <3>2 DEF SendSearch
  <2>1. PICK task \in Task : Enqueue(task)
    BY <2>0 DEF Task
  <2>2. RingTypes'
    BY <1>0, <2>0, <2>1, EnqueueLive DEF RingTypes
  <2>3. SlotTypes'
    BY <1>0, <2>0, <1>2 DEF SendSearch, Goto, SlotTypes
  <2>4. WorkTypes'
    BY <1>0, <1>2 DEF SendSearch, WorkTypes
  <2> QED
    BY <2>2, <2>3, <2>4 DEF TypeOK, RingTypes, SlotTypes, WorkTypes
<1>3. ASSUME NEW k \in {"load", "update"}, MaintSend(c, k) PROVE TypeOK'
  <2>0. /\ reqs[c] + 1 \in Request /\ count < ring_size
        /\ Enqueue([type |-> k, client |-> c, req |-> reqs[c] + 1])
    BY <1>0, <1>1, <1>3 DEF MaintSend, MaySend, SlotTypes
  <2>1. PICK task \in Task : Enqueue(task)
    BY <2>0 DEF Task
  <2>2. RingTypes'
    BY <1>0, <2>0, <2>1, EnqueueLive DEF RingTypes
  <2>3. SlotTypes'
    BY <1>0, <2>0, <1>3 DEF MaintSend, Goto, SlotTypes, MaintResult
  <2>4. WorkTypes'
    BY <1>0, <1>3 DEF MaintSend, WorkTypes
  <2> QED
    BY <2>2, <2>3, <2>4 DEF TypeOK, RingTypes, SlotTypes, WorkTypes
<1>4. CASE RingFull(c) \/ ClientStep(c)
  <2>1. RingTypes'
    BY <1>0, <1>4 DEF RingTypes, RingFull, ClientStep, Notify, GetResult, ReadPairs, MaintReturn
  <2>2. SlotTypes'
    BY <1>0, <1>4 DEF SlotTypes, RingFull, ClientStep, Notify, GetResult, ReadPairs,
                      MaintReturn, Goto
  <2>3. WorkTypes'
    BY <1>0, <1>4 DEF WorkTypes, RingFull, ClientStep, Notify, GetResult, ReadPairs, MaintReturn
  <2> QED
    BY <2>1, <2>2, <2>3 DEF TypeOK, RingTypes, SlotTypes, WorkTypes
<1> QED
  BY <1>2, <1>3, <1>4

\* Types after a step of the worker's main loop, or its end.
LEMMA WorkerTypes ==
    ASSUME TypeOK, Placed, WorkerStep \/ WorkerError
    PROVE  TypeOK'
<1>0. RingTypes /\ SlotTypes /\ WorkTypes
  BY Types
<1>1. CASE WorkerStart \/ WorkerReset \/ WorkerWake \/ RingEmpty
  <2>1. RingTypes'
    BY <1>0, <1>1 DEF RingTypes, WorkerStart, WorkerReset, WorkerWake, RingEmpty
  <2>2. SlotTypes'
    BY <1>0, <1>1 DEF SlotTypes, WorkerStart, WorkerReset, WorkerWake, RingEmpty
  <2>3. WorkTypes'
    BY <1>0, <1>1 DEF WorkTypes, WorkerStart, WorkerReset, WorkerWake, RingEmpty
  <2> QED
    BY <2>1, <2>2, <2>3 DEF TypeOK, RingTypes, SlotTypes, WorkTypes
<1>2. CASE HandleSearch \/ HandleEmptySearch \/ HandleMaint \/ DropMaint
  <2>1. count > 0 /\ HeadOn
    BY <1>2 DEF HandleSearch, HandleEmptySearch, HandleMaint, DropMaint
  <2>2. RingTypes'
    BY <1>0, <2>1, HeadOnLive DEF RingTypes
  <2>3. PICK task \in Task : /\ task = ring[head] /\ task.client \in Client
                             /\ task.req \in Request
    BY <2>1, HeadAlone DEF Current
  <2>4. CASE HandleSearch
    <3>1. PICK segs \in {1 .. k : k \in 1 .. MaxSegments} :
             /\ ctx' = [ctx EXCEPT ![task.client][task.req] =
                      [segs |-> segs, found |-> {}, remaining |-> Cardinality(segs),
                       counted |-> {}, stage |-> "search"]]
             /\ expect' = [expect EXCEPT ![task.client] = Cardinality(segs)]
      BY <2>3, <2>4 DEF HandleSearch
    <3>2. segs \in SUBSET (1 .. MaxSegments)
      BY RingAssumption
    <3>3. PICK num \in 0 .. MaxSegments : num = Cardinality(segs) /\ num \in 0 .. 1 + MaxSegments
      BY <3>2, SegmentCount, RingAssumption
    <3>4. SlotTypes'
      BY <1>0, <2>3, <2>4, <3>1, <3>3 DEF HandleSearch, SlotTypes
    <3>5. WorkTypes'
      BY <1>0, <2>3, <2>4, <3>1, <3>2, <3>3 DEF HandleSearch, WorkTypes
    <3> QED
      BY <2>2, <3>4, <3>5 DEF TypeOK, RingTypes, SlotTypes, WorkTypes
  <2>5. CASE HandleEmptySearch
    <3>1. SlotTypes'
      BY <1>0, <2>3, <2>5, RingAssumption DEF HandleEmptySearch, SlotTypes, Cell
    <3>2. WorkTypes'
      BY <1>0, <2>5 DEF HandleEmptySearch, WorkTypes
    <3> QED
      BY <2>2, <3>1, <3>2 DEF TypeOK, RingTypes, SlotTypes, WorkTypes
  <2>6. CASE HandleMaint \/ DropMaint
    <3>1. SlotTypes'
      BY <1>0, <2>6 DEF HandleMaint, DropMaint, SlotTypes
    <3>2. queue' \in Seq(Task \cup {Upgrade}) /\ lost' \subseteq Client
      <4>1. queue' = Append(queue, task) \/ queue' = queue
        BY <2>3, <2>6 DEF HandleMaint, DropMaint
      <4>2. lost' \in {lost, lost \cup {task.client}}
        BY <2>3, <2>6 DEF HandleMaint, DropMaint
      <4>3. queue \in Seq(Task \cup {Upgrade}) /\ lost \subseteq Client
        BY <1>0 DEF WorkTypes
      <4>4. queue' \in Seq(Task \cup {Upgrade})
        BY <4>1, <4>3
      <4> QED
        BY <2>3, <4>2, <4>3, <4>4
    <3>3. WorkTypes'
      BY <1>0, <2>6, <3>2 DEF HandleMaint, DropMaint, WorkTypes
    <3> QED
      BY <2>2, <3>1, <3>3 DEF TypeOK, RingTypes, SlotTypes, WorkTypes
  <2> QED
    BY <1>2, <2>4, <2>5, <2>6
<1>3. CASE WorkerError
  <2>1. RingTypes' /\ SlotTypes'
    BY <1>0, <1>3 DEF WorkerError, RingTypes, SlotTypes
  <2>2. WorkTypes'
    BY <1>0, <1>3, RingAssumption DEF WorkerError, WorkTypes, NoContext, Inside
  <2> QED
    BY <2>1, <2>2 DEF TypeOK, RingTypes, SlotTypes, WorkTypes
<1> QED
  BY <1>1, <1>2, <1>3 DEF WorkerStep

\* The count-down of a search: while a segment is not counted, something
\* remains, and when one remains it is that segment.
LEMMA CountPositive ==
    ASSUME TypeOK, SearchShape, NEW c \in Client, NEW n \in Request,
           NEW s \in ctx[c][n].found \ ctx[c][n].counted
    PROVE  /\ ctx[c][n].stage = "search"
           /\ ctx[c][n].remaining \in 1 .. MaxSegments
           /\ ctx[c][n].remaining - 1 =
                Cardinality(ctx[c][n].segs \ (ctx[c][n].counted \cup {s}))
           /\ ctx[c][n].remaining = 1 => ctx[c][n].counted \cup {s} = ctx[c][n].segs
<1> DEFINE k == ctx[c][n]
           S == k.segs \ k.counted
<1>1. k.stage # "none"
  BY NoSearch DEF NoContext
<1>2. /\ k.counted \subseteq k.found /\ k.found \subseteq k.segs
      /\ k.remaining = Cardinality(S)
      /\ k.stage # "search" => k.counted = k.segs
  BY <1>1 DEF SearchShape, ContextShape
<1>3. k.segs \in SUBSET (1 .. MaxSegments)
      /\ k.stage \in {"none", "search", "count", "pairs", "publish"}
  BY DEF TypeOK
<1>4. s \in S
  BY <1>2
<1>5. IsFiniteSet(S) /\ Cardinality(S) \in 0 .. MaxSegments
  BY <1>3, SegmentCount
<1>6. IsFiniteSet(S \ {s}) /\ Cardinality(S \ {s}) = Cardinality(S) - 1
  BY <1>4, <1>5, FS_RemoveElement
<1>7. S \ {s} = k.segs \ (k.counted \cup {s})
  OBVIOUS
<1>8. Cardinality(S) # 0
  BY <1>4, <1>5, FS_EmptySet
<1>9. ASSUME k.remaining = 1 PROVE k.counted \cup {s} = k.segs
  <2>1. S \ {s} = {}
    BY <1>2, <1>6, <1>9, FS_EmptySet
  <2> QED
    BY <1>2, <1>4, <2>1
<1> QED
  BY <1>2, <1>3, <1>4, <1>5, <1>6, <1>7, <1>8, <1>9, RingAssumption

\* Types after a step of a search.
LEMMA SearchTypes ==
    ASSUME TypeOK, SearchShape, NEW c \in Client, NEW n \in Request, SearchStep(c, n)
    PROVE  TypeOK'
<1> DEFINE Context == [segs : SUBSET (1 .. MaxSegments),
                 found : SUBSET (1 .. MaxSegments), remaining : 0 .. MaxSegments,
                 counted : SUBSET (1 .. MaxSegments),
                 stage : {"none", "search", "count", "pairs", "publish"}]
           k == ctx[c][n]
<1>0. RingTypes /\ SlotTypes /\ WorkTypes
  BY Types
<1>1. ctx \in [Client -> [Request -> Context]] /\ k \in Context
  BY <1>0, SMTT(40) DEF WorkTypes
<1>2. RingTypes'
  BY <1>0 DEF RingTypes, SearchStep, WriteCount, WritePairs, Publish, SearchSegment, CountDown
<1>3. k.found \in SUBSET (1 .. MaxSegments) /\ k.counted \in SUBSET (1 .. MaxSegments)
  BY <1>1
<1>4. [req |-> n, num |-> Cardinality(k.found)] \in Cell
  BY <1>3, SegmentCount DEF Cell
<1>5. SlotTypes'
  <2>1. CASE WriteCount(c, n) \/ WritePairs(c, n)
    BY <1>0, <1>4, <2>1 DEF SlotTypes, WriteCount, WritePairs
  <2>2. CASE Publish(c, n)
    BY <1>0, <2>2, Zenon DEF SlotTypes, Publish
  <2>3. CASE \E s \in 1 .. MaxSegments : SearchSegment(c, n, s) \/ CountDown(c, n, s)
    BY <1>0, <2>3 DEF SlotTypes, SearchSegment, CountDown
  <2> QED
    BY <2>1, <2>2, <2>3 DEF SearchStep
<1>6. PICK r \in Context : ctx' = [ctx EXCEPT ![c] = [ctx[c] EXCEPT ![n] = r]]
  <2>1. CASE WriteCount(c, n)
    <3>1. ctx' = [ctx EXCEPT ![c] = [ctx[c] EXCEPT ![n] = [k EXCEPT !.stage = "pairs"]]]
      BY <1>1, <2>1 DEF WriteCount
    <3> QED
      BY <1>1, <3>1
  <2>2. CASE WritePairs(c, n)
    <3>1. ctx' = [ctx EXCEPT ![c] = [ctx[c] EXCEPT ![n] = [k EXCEPT !.stage = "publish"]]]
      BY <1>1, <2>2 DEF WritePairs
    <3> QED
      BY <1>1, <3>1
  <2>3. CASE Publish(c, n)
    <3>1. ctx' = [ctx EXCEPT ![c] = [ctx[c] EXCEPT ![n] = NoContext]]
      BY <1>1, <2>3 DEF Publish
    <3>2. NoContext \in Context
      BY RingAssumption DEF NoContext
    <3> QED
      BY <3>1, <3>2
  <2>4. ASSUME NEW s \in 1 .. MaxSegments, SearchSegment(c, n, s)
        PROVE  \E r \in Context : ctx' = [ctx EXCEPT ![c] = [ctx[c] EXCEPT ![n] = r]]
    <3>1. ctx' = [ctx EXCEPT ![c] = [ctx[c] EXCEPT ![n] = [k EXCEPT !.found = k.found \cup {s}]]]
      BY <1>1, <2>4 DEF SearchSegment
    <3>2. [k EXCEPT !.found = k.found \cup {s}] \in Context
      BY <1>1, <1>3
    <3> QED
      BY <3>1, <3>2
  <2>5. ASSUME NEW s \in 1 .. MaxSegments, CountDown(c, n, s)
        PROVE  \E r \in Context : ctx' = [ctx EXCEPT ![c] = [ctx[c] EXCEPT ![n] = r]]
    <3> DEFINE r == [k EXCEPT
                 !.remaining = k.remaining - 1,
                 !.counted = k.counted \cup {s},
                 !.stage = IF k.remaining = 1 THEN "count" ELSE k.stage]
    <3>1. ctx' = [ctx EXCEPT ![c] = [ctx[c] EXCEPT ![n] = r]]
      BY <1>1, <2>5, ZenonT(40) DEF CountDown
    <3>2. k.remaining - 1 \in 0 .. MaxSegments
      BY <1>1, <2>5, CountPositive DEF CountDown
    <3>3. r \in Context
      BY <1>1, <1>3, <3>2
    <3> QED
      BY <3>1, <3>3
  <2> QED
    BY <2>1, <2>2, <2>3, <2>4, <2>5 DEF SearchStep
<1>7. WorkTypes'
  <2>1. ctx' \in [Client -> [Request -> Context]]
    BY <1>1, <1>6
  <2> QED
    BY <1>0, <2>1 DEF WorkTypes, SearchStep, WriteCount, WritePairs, Publish, SearchSegment,
                      CountDown
<1> QED
  BY <1>2, <1>5, <1>7 DEF TypeOK, RingTypes, SlotTypes, WorkTypes

\* Types after a step of a maintenance thread.
LEMMA ThreadTypes ==
    ASSUME TypeOK, Placed, ThreadShape, NEW t \in Thread, ThreadStep(t)
    PROVE  TypeOK'
<1>0. RingTypes /\ SlotTypes /\ WorkTypes
  BY Types
<1>1. RingTypes'
  BY <1>0 DEF RingTypes, ThreadStep, Take, RunLoad, RunMmapLoad, SubmitUpgrades, RunUpdate,
              Done, RunUpgrade
<1>2. CASE Take(t)
  <2>1. SlotTypes'
    BY <1>0, <1>2 DEF SlotTypes, Take
  <2>2. queue \in Seq(Task \cup {Upgrade}) /\ queue # <<>>
    BY <1>0, <1>2 DEF WorkTypes, Take
  <2>3. PICK task \in Task \cup {Upgrade} :
          /\ task = Head(queue) /\ Tail(queue) \in Seq(Task \cup {Upgrade})
          /\ task = queue[1] /\ 1 \in DOMAIN queue
    BY <2>2
  <2>4. task.type \in {"load", "update", "upgrade"}
    BY <2>3, TaskFields DEF Placed, AllCurrent, Queued, Upgrade
  <2>5. WorkTypes'
    BY <1>0, <1>2, <2>3, <2>4 DEF WorkTypes, Take
  <2> QED
    BY <1>1, <2>1, <2>5 DEF TypeOK, RingTypes, SlotTypes, WorkTypes
<1>3. CASE RunLoad(t) \/ RunUpgrade(t)
  <2>1. SlotTypes' /\ WorkTypes'
    BY <1>0, <1>3, ZenonT(40) DEF SlotTypes, WorkTypes, RunLoad, RunUpgrade
  <2> QED
    BY <1>1, <2>1 DEF TypeOK, RingTypes, SlotTypes, WorkTypes
<1>4. CASE SubmitUpgrades(t)
  <2>1. PICK more \in Seq({Upgrade}) : queue' = queue \o more
    BY <1>0, <1>4, UpgradesFit DEF SubmitUpgrades, WorkTypes
  <2>2. queue' \in Seq(Task \cup {Upgrade})
    <3>1. more \in Seq(Task \cup {Upgrade})
      BY <2>1
    <3> QED
      BY <1>0, <2>1, <3>1 DEF WorkTypes
  <2>3. SlotTypes' /\ WorkTypes'
    BY <1>0, <1>4, <2>2 DEF SlotTypes, WorkTypes, SubmitUpgrades
  <2> QED
    BY <1>1, <2>3 DEF TypeOK, RingTypes, SlotTypes, WorkTypes
<1>5. CASE RunUpdate(t) \/ Done(t) \/ RunMmapLoad(t)
  <2>1. Held(t)
    BY <1>5 DEF RunUpdate, RunMmapLoad, Done, ThreadShape, Held
  <2>2. ttask[t].client \in Client /\ ttask[t].req \in Request
    BY <2>1, HeldAlone
  <2>3. SlotTypes'
    BY <1>0, <1>5, <2>2, RingAssumption
      DEF SlotTypes, RunUpdate, Done, RunMmapLoad, MaintResult
  <2>4. WorkTypes'
    BY <1>0, <1>5 DEF WorkTypes, RunUpdate, Done, RunMmapLoad
  <2> QED
    BY <1>1, <2>3, <2>4 DEF TypeOK, RingTypes, SlotTypes, WorkTypes
<1> QED
  BY <1>2, <1>3, <1>4, <1>5 DEF ThreadStep

\* A step keeps the types.
LEMMA TypeStep ==
    ASSUME IndInv, Next
    PROVE  TypeOK'
<1>1. Placed /\ TypeOK /\ ThreadShape /\ SearchShape
  BY DEF IndInv, Placed
<1>2. ASSUME NEW c \in Client,
             \/ SendSearch(c) \/ RingFull(c) \/ ClientStep(c)
             \/ \E k \in {"load", "update"} : MaintSend(c, k)
      PROVE  TypeOK'
  BY <1>1, <1>2, ClientTypes
<1>3. ASSUME NEW c \in Client, NEW n \in Request, SearchStep(c, n) PROVE TypeOK'
  BY <1>1, <1>3, SearchTypes
<1>4. CASE WorkerStep \/ WorkerError
  BY <1>1, <1>4, WorkerTypes
<1>5. ASSUME NEW t \in Thread, ThreadStep(t) PROVE TypeOK'
  BY <1>1, <1>5, ThreadTypes
<1> QED
  BY <1>2, <1>3, <1>4, <1>5 DEF Next

-----------------------------------------------------------------------------
(* Threads.                                                                *)

\* Threads are not concerned by a step that leaves them their tasks and the
\* clients of these tasks their slots.
LEMMA ThreadKept ==
    ASSUME ThreadShape, UNCHANGED <<tpc, ttask>>,
           \A t \in Thread : Held(t) =>
              /\ maint_status'[ttask[t].client] = maint_status[ttask[t].client]
              /\ expect'[ttask[t].client] = expect[ttask[t].client]
    PROVE  ThreadShape'
  BY DEF ThreadShape, Held

\* A step keeps every thread with the task its stage is about.
LEMMA ThreadShapeStep ==
    ASSUME IndInv, Next
    PROVE  ThreadShape'
<1>1. Placed /\ TypeOK /\ ThreadShape
  BY DEF IndInv, Placed
<1>0. /\ maint_status \in [Client -> MaintResult] /\ expect \in [Client -> 0 .. 1 + MaxSegments]
      /\ tpc \in [Thread -> {"idle", "load", "update", "upgrade", "submit", "done"}]
      /\ ttask \in [Thread -> Task \cup {NoTask, Upgrade}]
      /\ queue \in Seq(Task \cup {Upgrade})
  BY <1>1 DEF TypeOK
<1>2. CASE UNCHANGED <<tpc, ttask, maint_status, expect>>
  BY <1>1, <1>2, ThreadKept
<1>3. ASSUME NEW c \in Client, NEW k \in {"load", "update"}, MaintSend(c, k)
      PROVE  ThreadShape'
  <2>1. /\ UNCHANGED <<tpc, ttask, expect>> /\ ~Busy(c)
        /\ \A d \in Client \ {c} : maint_status'[d] = maint_status[d]
    BY <1>0, <1>3 DEF MaintSend, Busy
  <2>2. \A t \in Thread : Held(t) => ttask[t].client \in Client \ {c}
    BY <1>1, <2>1, NoTaskOf, HeldAlone
  <2> QED
    BY <1>1, <2>1, <2>2, ThreadKept
<1>4. CASE HandleSearch \/ HandleEmptySearch
  <2>1. /\ UNCHANGED <<tpc, ttask, maint_status>>
        /\ count > 0 /\ HeadOn
        /\ \A d \in Client \ {ring[head].client} : expect'[d] = expect[d]
    BY <1>0, <1>4 DEF HandleSearch, HandleEmptySearch
  <2>2. \A t \in Thread : Held(t) => ttask[t].client \in Client \ {ring[head].client}
    BY <1>1, <2>1, HeadAlone, HeldAlone
  <2> QED
    BY <1>1, <2>1, <2>2, ThreadKept
<1>5. CASE WorkerError
  BY <1>5 DEF WorkerError, ThreadShape
<1>6. ASSUME NEW t \in Thread, ThreadStep(t) PROVE ThreadShape'
  <2>0. \A u \in Thread : Held(u) => ttask[u].client \in Client
    BY <1>1, HeldAlone
  <2>1. CASE Take(t)
    <3>1. /\ UNCHANGED <<maint_status, expect>> /\ queue # <<>>
          /\ ttask' = [ttask EXCEPT ![t] = Head(queue)]
          /\ tpc' = [tpc EXCEPT ![t] = Head(queue).type]
      BY <2>1 DEF Take
    <3>2. PICK task \in Task \cup {Upgrade} :
            task = Head(queue) /\ task = queue[1] /\ 1 \in DOMAIN queue
      BY <1>0, <3>1
    <3>3. /\ task.type \in {"load", "update", "upgrade"}
          /\ task.type = "upgrade" => task = Upgrade
      BY <1>1, <3>2, TaskFields DEF Placed, AllCurrent, Queued, Upgrade
    <3>4. \A u \in Thread : IF u = t THEN ttask'[u] = task /\ tpc'[u] = task.type
                                     ELSE ttask'[u] = ttask[u] /\ tpc'[u] = tpc[u]
      BY <1>0, <3>1, <3>2
    <3> QED
      BY <1>1, <3>1, <3>3, <3>4 DEF ThreadShape, Held
  <2>2. CASE RunLoad(t) \/ SubmitUpgrades(t)
    <3>1. /\ UNCHANGED <<maint_status, expect, ttask>>
          /\ \A u \in Thread \ {t} : tpc'[u] = tpc[u]
          /\ \/ tpc[t] = "load" /\ tpc'[t] = "done"
             \/ tpc[t] = "submit" /\ tpc'[t] = "idle"
      BY <1>0, <2>2 DEF RunLoad, SubmitUpgrades
    <3> QED
      BY <1>1, <3>1 DEF ThreadShape, Held
  <2>3. CASE RunMmapLoad(t) \/ Done(t) \/ RunUpgrade(t)
    <3>1. /\ UNCHANGED <<maint_status, expect>>
          /\ \A u \in Thread \ {t} : tpc'[u] = tpc[u] /\ ttask'[u] = ttask[u]
          /\ tpc'[t] \in {"submit", "idle"} /\ ttask'[t] = NoTask
      BY <1>0, <2>3 DEF RunMmapLoad, Done, RunUpgrade
    <3> QED
      BY <1>1, <3>1 DEF ThreadShape, Held
  <2>4. CASE RunUpdate(t)
    <3>1. Held(t) /\ ttask[t].type = "update"
      BY <1>1, <2>4 DEF RunUpdate, ThreadShape, Held
    <3>2. PICK c \in Client : c = ttask[t].client
      BY <2>0, <3>1
    <3>3. /\ UNCHANGED ttask /\ maint_status'[c] = expect'[c]
          /\ \A d \in Client \ {c} : maint_status'[d] = maint_status[d] /\ expect'[d] = expect[d]
          /\ tpc' = [tpc EXCEPT ![t] = "done"]
      BY <1>0, <2>4, <3>2 DEF RunUpdate
    <3>4. \A u \in Thread \ {t} : Held(u) => ttask[u].client \in Client \ {c}
      BY <1>1, <2>0, <3>1, <3>2, HeldAlone
    <3> QED
      BY <1>0, <1>1, <3>1, <3>2, <3>3, <3>4 DEF ThreadShape, Held
  <2> QED
    BY <1>6, <2>1, <2>2, <2>3, <2>4 DEF ThreadStep
<1>7. CASE WorkerStep
  <2>1. HandleSearch \/ HandleEmptySearch \/ UNCHANGED <<tpc, ttask, maint_status, expect>>
    BY <1>7 DEF WorkerStep, WorkerStart, WorkerReset, WorkerWake, RingEmpty, HandleMaint,
                DropMaint
  <2> QED
    BY <1>2, <1>4, <2>1
<1>8. ASSUME NEW c \in Client, SendSearch(c) \/ RingFull(c) \/ ClientStep(c)
      PROVE  UNCHANGED <<tpc, ttask, maint_status, expect>>
  BY <1>8, Zenon DEF SendSearch, RingFull, ClientStep, Notify, GetResult,
     ReadPairs, MaintReturn
<1>9. ASSUME NEW c \in Client, NEW n \in Request, SearchStep(c, n)
      PROVE  UNCHANGED <<tpc, ttask, maint_status, expect>>
  BY <1>9 DEF SearchStep, WriteCount, WritePairs, Publish, SearchSegment, CountDown
<1> QED
  BY <1>2, <1>3, <1>5, <1>6, <1>7, <1>8, <1>9 DEF Next

-----------------------------------------------------------------------------
(* Searches.                                                               *)

\* A search is not concerned by a step that leaves its context alone and, when
\* it is under way, the slot of its client.
LEMMA ContextKept ==
    ASSUME NEW c \in Client, NEW n \in Request, ContextShape(c, n),
           ctx'[c][n] = ctx[c][n],
           Searched(c, n) => /\ expect'[c] = expect[c]
                             /\ result_count'[c] = result_count[c]
                             /\ payload'[c] = payload[c]
    PROVE  ContextShape(c, n)'
<1>1. CASE Searched(c, n)
  BY <1>1 DEF ContextShape, Searched
<1>2. CASE ~Searched(c, n)
  BY <1>2 DEF ContextShape, Searched
<1> QED
  BY <1>1, <1>2

\* A step of a search keeps its own context in shape.
LEMMA ContextStep ==
    ASSUME TypeOK, SearchShape, NEW c \in Client, NEW n \in Request, SearchStep(c, n)
    PROVE  ContextShape(c, n)'
<1> DEFINE k == ctx[c][n]
           Context == [segs : SUBSET (1 .. MaxSegments),
                 found : SUBSET (1 .. MaxSegments), remaining : 0 .. MaxSegments,
                 counted : SUBSET (1 .. MaxSegments),
                 stage : {"none", "search", "count", "pairs", "publish"}]
<1>1. /\ ctx \in [Client -> [Request -> Context]] /\ k \in Context
      /\ result_count \in [Client -> Cell] /\ payload \in [Client -> Cell]
  BY SMTT(40) DEF TypeOK
<1>2. ContextShape(c, n)
  BY DEF SearchShape
<1>3. ASSUME NEW s \in 1 .. MaxSegments, SearchSegment(c, n, s)
      PROVE  ContextShape(c, n)'
  <2>1. /\ k.stage # "none" /\ s \in k.segs \ k.found
        /\ ctx'[c][n] = [k EXCEPT !.found = k.found \cup {s}]
        /\ UNCHANGED <<expect, result_count, payload>>
    <3>1. /\ k.stage # "none"
          /\ ctx'[c][n] = [k EXCEPT !.found = k.found \cup {s}]
      BY <1>3, SegmentMoves
    <3> QED
      BY <1>3, <3>1 DEF SearchSegment
  <2>2. /\ ctx'[c][n].found = k.found \cup {s} /\ ctx'[c][n].segs = k.segs
        /\ ctx'[c][n].counted = k.counted /\ ctx'[c][n].remaining = k.remaining
        /\ ctx'[c][n].stage = k.stage
    BY <1>1, <2>1
  <2> QED
    BY <1>2, <2>1, <2>2 DEF ContextShape
<1>4. ASSUME NEW s \in 1 .. MaxSegments, CountDown(c, n, s)
      PROVE  ContextShape(c, n)'
  <2>1. /\ s \in k.found \ k.counted /\ UNCHANGED <<expect, result_count, payload>>
    BY <1>4 DEF CountDown
  <2>2. /\ k.stage # "none"
        /\ ctx'[c][n].counted = k.counted \cup {s} /\ ctx'[c][n].segs = k.segs
        /\ ctx'[c][n].found = k.found /\ ctx'[c][n].remaining = k.remaining - 1
        /\ ctx'[c][n].stage = IF k.remaining = 1 THEN "count" ELSE k.stage
    BY <1>4, CountMoves
  <2>3. /\ k.stage = "search"
        /\ k.remaining - 1 = Cardinality(k.segs \ (k.counted \cup {s}))
        /\ k.remaining = 1 => k.counted \cup {s} = k.segs
    BY <2>1, CountPositive
  <2> HIDE DEF k
  <2> QED
    BY <1>2, <2>1, <2>2, <2>3 DEF ContextShape, k
<1>5. CASE WriteCount(c, n)
  <2>1. /\ k.stage = "count"
        /\ ctx'[c][n] = [k EXCEPT !.stage = "pairs"]
        /\ UNCHANGED <<expect, payload>>
        /\ result_count' = [result_count EXCEPT ![c] =
                              [req |-> n, num |-> Cardinality(k.found)]]
    <3>1. ctx'[c][n] = [k EXCEPT !.stage = IF k.stage = "count" THEN "pairs" ELSE "publish"]
      BY <1>5, WriteMoves
    <3> QED
      BY <1>5, <3>1 DEF WriteCount
  <2>2. k.counted = k.segs /\ k.found = k.segs /\ expect[c] = Cardinality(k.segs)
    BY <1>2, <2>1 DEF ContextShape
  <2>3. result_count'[c] = [req |-> n, num |-> expect'[c]]
    BY <1>1, <2>1, <2>2
  <2>4. /\ ctx'[c][n].counted = k.counted /\ ctx'[c][n].segs = k.segs
        /\ ctx'[c][n].found = k.found /\ ctx'[c][n].remaining = k.remaining
        /\ ctx'[c][n].stage = "pairs"
    BY <1>1, <2>1
  <2> QED
    BY <1>2, <2>1, <2>3, <2>4 DEF ContextShape
<1>6. CASE WritePairs(c, n)
  <2>1. /\ k.stage = "pairs"
        /\ ctx'[c][n] = [k EXCEPT !.stage = "publish"]
        /\ UNCHANGED <<expect, result_count>>
        /\ payload' = [payload EXCEPT ![c] =
                         [req |-> n, num |-> Cardinality(k.found)]]
    <3>1. ctx'[c][n] = [k EXCEPT !.stage = IF k.stage = "count" THEN "pairs" ELSE "publish"]
      BY <1>6, WriteMoves
    <3> QED
      BY <1>6, <3>1 DEF WritePairs
  <2>2. /\ k.counted = k.segs /\ k.found = k.segs /\ expect[c] = Cardinality(k.segs)
        /\ result_count[c] = [req |-> n, num |-> expect[c]]
    BY <1>2, <2>1 DEF ContextShape
  <2>3. payload'[c] = result_count'[c]
    BY <1>1, <2>1, <2>2
  <2>4. /\ ctx'[c][n].counted = k.counted /\ ctx'[c][n].segs = k.segs
        /\ ctx'[c][n].found = k.found /\ ctx'[c][n].remaining = k.remaining
        /\ ctx'[c][n].stage = "publish"
    BY <1>1, <2>1
  <2> QED
    BY <1>2, <2>1, <2>3, <2>4 DEF ContextShape
<1>7. CASE Publish(c, n)
  BY <1>1, <1>7 DEF Publish, ContextShape, NoContext
<1> QED
  BY <1>3, <1>4, <1>5, <1>6, <1>7 DEF SearchStep

\* A step keeps every search in shape.
LEMMA SearchShapeStep ==
    ASSUME IndInv, Next
    PROVE  SearchShape'
<1>1. Placed /\ TypeOK /\ SearchShape /\ ThreadShape
  BY DEF IndInv, Placed
<1>0. /\ ctx \in [Client -> [Request -> [segs : SUBSET (1 .. MaxSegments),
                 found : SUBSET (1 .. MaxSegments), remaining : 0 .. MaxSegments,
                 counted : SUBSET (1 .. MaxSegments),
                 stage : {"none", "search", "count", "pairs", "publish"}]]]
      /\ expect \in [Client -> 0 .. 1 + MaxSegments]
      /\ result_count \in [Client -> Cell] /\ payload \in [Client -> Cell]
  BY <1>1 DEF TypeOK
<1>2. CASE UNCHANGED <<ctx, expect, result_count, payload>>
  BY <1>1, <1>2, ContextKept DEF SearchShape
<1>3. ASSUME NEW c \in Client, NEW n \in Request, SearchStep(c, n) PROVE SearchShape'
  <2>1. Searched(c, n)
    <3>1. CASE Publish(c, n) \/ WriteCount(c, n) \/ WritePairs(c, n)
      BY <3>1 DEF Publish, WriteCount, WritePairs, Searched
    <3>2. CASE \E s \in 1 .. MaxSegments : SearchSegment(c, n, s)
      BY <1>1, <3>2, SegmentMoves DEF Searched
    <3>3. CASE \E s \in 1 .. MaxSegments : CountDown(c, n, s)
      BY <1>1, <3>3, CountMoves DEF Searched
    <3> QED
      BY <1>3, <3>1, <3>2, <3>3 DEF SearchStep
  <2>2. \A m \in Request : Searched(c, m) => m = n
    BY <1>1, <2>1, SearchAlone
  <2>3. /\ UNCHANGED expect
        /\ \A d \in Client \ {c} : result_count'[d] = result_count[d] /\ payload'[d] = payload[d]
    BY <1>0, <1>3 DEF SearchStep, WriteCount, WritePairs, Publish, SearchSegment, CountDown
  <2>4. \A d \in Client : \A m \in Request : d # c \/ m # n => ctx'[d][m] = ctx[d][m]
    <3>1. CASE WriteCount(c, n) \/ WritePairs(c, n)
      BY <1>1, <3>1, WriteMoves, ZenonT(40)
    <3>2. CASE \E s \in 1 .. MaxSegments : SearchSegment(c, n, s)
      BY <1>1, <3>2, SegmentMoves, ZenonT(40)
    <3>3. CASE \E s \in 1 .. MaxSegments : CountDown(c, n, s)
      BY <1>1, <3>3, CountMoves
    <3>4. CASE Publish(c, n)
      BY <1>0, <3>4 DEF Publish
    <3> QED
      BY <1>3, <3>1, <3>2, <3>3, <3>4 DEF SearchStep
  <2>5. ASSUME NEW d \in Client, NEW m \in Request PROVE ContextShape(d, m)'
    <3>1. CASE d = c /\ m = n
      BY <1>1, <1>3, <3>1, ContextStep
    <3>2. CASE d # c \/ m # n
      BY <1>1, <2>2, <2>3, <2>4, <3>2, ContextKept DEF SearchShape
    <3> QED
      BY <3>1, <3>2
  <2> QED
    BY <2>5 DEF SearchShape
<1>4. CASE HandleSearch
  <2>1. /\ count > 0 /\ HeadOn /\ UNCHANGED <<result_count, payload>>
    BY <1>4 DEF HandleSearch
  <2>2. PICK c \in Client, n \in Request : c = ring[head].client /\ n = ring[head].req
    BY <1>1, <2>1, HeadAlone
  <2>3. \A m \in Request : ~Searched(c, m)
    BY <1>1, <2>1, <2>2, HeadAlone
  <2>4. PICK segs \in {1 .. k : k \in 1 .. MaxSegments} :
         /\ ctx' = [ctx EXCEPT ![c][n] =
                      [segs |-> segs, found |-> {}, remaining |-> Cardinality(segs),
                       counted |-> {}, stage |-> "search"]]
         /\ expect' = [expect EXCEPT ![c] = Cardinality(segs)]
    BY <1>4, <2>2 DEF HandleSearch
  <2>5. /\ ctx'[c][n] = [segs |-> segs, found |-> {}, remaining |-> Cardinality(segs),
                         counted |-> {}, stage |-> "search"]
        /\ expect'[c] = Cardinality(segs)
        /\ \A d \in Client : \A m \in Request : d # c \/ m # n => ctx'[d][m] = ctx[d][m]
        /\ \A d \in Client \ {c} : expect'[d] = expect[d]
    BY <1>0, <2>4
  <2>6. segs \ {} = segs
    OBVIOUS
  <2>7. ContextShape(c, n)'
    BY <2>5, <2>6 DEF ContextShape
  <2>8. ASSUME NEW d \in Client, NEW m \in Request, d # c \/ m # n PROVE ContextShape(d, m)'
    BY <1>1, <2>1, <2>3, <2>5, <2>8, ContextKept DEF SearchShape
  <2> QED
    BY <2>7, <2>8 DEF SearchShape
<1>5. CASE HandleEmptySearch
  <2>1. /\ count > 0 /\ HeadOn /\ UNCHANGED <<ctx, payload>>
    BY <1>5 DEF HandleEmptySearch
  <2>2. PICK c \in Client : c = ring[head].client
    BY <1>1, <2>1, HeadAlone
  <2>3. \A m \in Request : ~Searched(c, m)
    BY <1>1, <2>1, <2>2, HeadAlone
  <2>4. \A d \in Client \ {c} : expect'[d] = expect[d] /\ result_count'[d] = result_count[d]
    BY <1>0, <1>5, <2>2 DEF HandleEmptySearch
  <2>5. ASSUME NEW d \in Client, NEW m \in Request PROVE ContextShape(d, m)'
    BY <1>1, <2>1, <2>3, <2>4, ContextKept DEF SearchShape
  <2> QED
    BY <2>5 DEF SearchShape
<1>6. CASE WorkerError
  BY <1>6 DEF WorkerError, SearchShape, ContextShape, NoContext
<1>7. ASSUME NEW t \in Thread, RunUpdate(t) PROVE SearchShape'
  <2>1. Held(t) /\ UNCHANGED <<ctx, result_count, payload>>
    BY <1>1, <1>7 DEF RunUpdate, ThreadShape, Held
  <2>2. PICK c \in Client : c = ttask[t].client
    BY <1>1, <2>1, HeldAlone
  <2>3. \A m \in Request : ~Searched(c, m)
    BY <1>1, <2>1, <2>2, HeldAlone
  <2>4. \A d \in Client \ {c} : expect'[d] = expect[d]
    BY <1>0, <1>7, <2>2 DEF RunUpdate
  <2>5. ASSUME NEW d \in Client, NEW m \in Request PROVE ContextShape(d, m)'
    BY <1>1, <2>1, <2>3, <2>4, ContextKept DEF SearchShape
  <2> QED
    BY <2>5 DEF SearchShape
<1>8. CASE WorkerStep
  <2>1. HandleSearch \/ HandleEmptySearch \/ UNCHANGED <<ctx, expect, result_count, payload>>
    BY <1>8 DEF WorkerStep, WorkerStart, WorkerReset, WorkerWake, RingEmpty, HandleMaint,
                DropMaint
  <2> QED
    BY <1>2, <1>4, <1>5, <2>1
<1>9. ASSUME NEW c \in Client,
             \/ SendSearch(c) \/ RingFull(c) \/ ClientStep(c)
             \/ \E k \in {"load", "update"} : MaintSend(c, k)
      PROVE  UNCHANGED <<ctx, expect, result_count, payload>>
  BY <1>9 DEF SendSearch, RingFull, ClientStep, Notify, GetResult, ReadPairs, MaintReturn,
              MaintSend
<1>10. ASSUME NEW t \in Thread, ThreadStep(t), ~RunUpdate(t)
       PROVE  UNCHANGED <<ctx, expect, result_count, payload>>
  BY <1>10 DEF ThreadStep, Take, RunLoad, RunMmapLoad, SubmitUpgrades, Done, RunUpgrade
<1> QED
  BY <1>2, <1>3, <1>6, <1>7, <1>8, <1>9, <1>10 DEF Next

-----------------------------------------------------------------------------
(* Answers.                                                                *)

\* What concerns client c in a result slot, and what it has asked.
ClientView(c) ==
    <<pc[c], kind[c], reqs[c], expect[c], status[c], result_count[c], payload[c],
      maint_status[c], maint_done[c]>>

\* A client is not concerned by a step that leaves its slot alone.
LEMMA AnswerKept ==
    ASSUME NEW c \in Client, AnswerShape(c), UNCHANGED ClientView(c)
    PROVE  AnswerShape(c)'
  BY DEF AnswerShape, ClientView, Published, Busy, SlotRight

\* A client that waits is not concerned by what is written to its slot before
\* the answer is published.
LEMMA AnswerPending ==
    ASSUME NEW c \in Client, AnswerShape(c), ~Published(c), ~Published(c)', pc'[c] = pc[c]
    PROVE  AnswerShape(c)'
  BY DEF AnswerShape

\* A step keeps what is published right.
LEMMA AnsweredStep ==
    ASSUME IndInv, Next
    PROVE  Answered'
<1>1. Placed /\ TypeOK /\ SearchShape /\ ThreadShape /\ Answered
  BY DEF IndInv, Placed
<1>0. SlotTypes
  BY <1>1, Types
<1>2. ASSUME NEW c \in Client, AnswerShape(c)',
             \A d \in Client \ {c} : UNCHANGED ClientView(d)
      PROVE  Answered'
  <2>1. ASSUME NEW d \in Client \ {c} PROVE AnswerShape(d)'
    BY <1>1, <1>2, AnswerKept DEF Answered
  <2> QED
    BY <1>2, <2>1 DEF Answered
<1>3. ASSUME \A d \in Client : UNCHANGED ClientView(d) PROVE Answered'
  BY <1>1, <1>3, AnswerKept DEF Answered
<1>4. ASSUME NEW c \in Client,
             \/ SendSearch(c) \/ RingFull(c) \/ ClientStep(c)
             \/ \E k \in {"load", "update"} : MaintSend(c, k)
      PROVE  Answered'
  <2>1. \A d \in Client \ {c} : UNCHANGED ClientView(d)
    BY <1>0, <1>4 DEF SlotTypes, ClientView, SendSearch, RingFull, ClientStep, Notify, GetResult,
                      ReadPairs, MaintReturn, MaintSend, Goto
  <2>2. AnswerShape(c)'
    <3>0. AnswerShape(c)
      BY <1>1 DEF Answered
    <3>1. CASE SendSearch(c)
      BY <1>0, <3>1 DEF SendSearch, Goto, SlotTypes, AnswerShape, Published, Busy
    <3>2. ASSUME NEW k \in {"load", "update"}, MaintSend(c, k) PROVE AnswerShape(c)'
      BY <1>0, <3>2 DEF MaintSend, Goto, SlotTypes, AnswerShape, Published, Busy
    <3>3. CASE RingFull(c) \/ ReadPairs(c) \/ MaintReturn(c)
      BY <1>0, <3>3 DEF RingFull, ReadPairs, MaintReturn, Goto, SlotTypes, AnswerShape,
                        Published, Busy
    <3>4. CASE Notify(c) \/ GetResult(c)
      BY <1>0, <3>0, <3>4 DEF Notify, GetResult, Goto, SlotTypes, AnswerShape, Published, Busy,
                              SlotRight
    <3> QED
      BY <1>4, <3>1, <3>2, <3>3, <3>4 DEF ClientStep
  <2> QED
    BY <1>2, <2>1, <2>2
<1>5. ASSUME NEW c \in Client, NEW n \in Request, SearchStep(c, n) PROVE Answered'
  <2>0. AnswerShape(c) /\ ContextShape(c, n)
    BY <1>1 DEF Answered, SearchShape
  <2>1. \A d \in Client \ {c} : UNCHANGED ClientView(d)
    BY <1>0, <1>5, ZenonT(40) DEF SlotTypes, ClientView, SearchStep, WriteCount,
       WritePairs, Publish,
                      SearchSegment, CountDown
  <2>2. CASE \E s \in 1 .. MaxSegments : SearchSegment(c, n, s) \/ CountDown(c, n, s)
    <3>1. UNCHANGED ClientView(c)
      BY <2>2 DEF ClientView, SearchSegment, CountDown
    <3> QED
      BY <1>3, <2>1, <3>1
  <2>3. CASE WriteCount(c, n) \/ WritePairs(c, n)
    <3>1. Searched(c, n)
      BY <2>3 DEF WriteCount, WritePairs, Searched
    <3>2. ~Published(c)
      BY <1>1, <3>1, SearchAlone
    <3>3. ~Published(c)' /\ pc'[c] = pc[c]
      BY <2>3, <3>2 DEF WriteCount, WritePairs, Published, Busy
    <3>4. AnswerShape(c)'
      BY <2>0, <3>2, <3>3, AnswerPending
    <3> QED
      BY <1>2, <2>1, <3>4
  <2>4. CASE Publish(c, n)
    <3>1. Searched(c, n) /\ ctx[c][n].stage = "publish"
      BY <2>4 DEF Publish, Searched
    <3>2. ~Published(c) /\ Busy(c) /\ n = reqs[c] /\ kind[c] = "search"
      BY <1>1, <3>1, SearchAlone
    <3>3. result_count[c] = [req |-> n, num |-> expect[c]] /\ payload[c] = result_count[c]
      BY <2>0, <3>1 DEF ContextShape
    <3>4. /\ UNCHANGED <<pc, kind, reqs, expect, result_count, payload>>
      BY <2>4 DEF Publish
    <3>5. SlotRight(c)' /\ pc[c] # "read"
      BY <2>0, <3>2, <3>3, <3>4 DEF SlotRight, AnswerShape
    <3>6. AnswerShape(c)'
      BY <3>4, <3>5 DEF AnswerShape
    <3> QED
      BY <1>2, <2>1, <3>6
  <2> QED
    BY <1>5, <2>2, <2>3, <2>4 DEF SearchStep
<1>6. CASE HandleSearch \/ HandleEmptySearch
  <2>1. count > 0 /\ HeadOn /\ ring[head].type = "search"
        /\ UNCHANGED <<pc, kind, reqs, payload, maint_status, maint_done>>
    BY <1>6 DEF HandleSearch, HandleEmptySearch
  <2>2. PICK c \in Client : c = ring[head].client
    BY <1>1, <2>1, HeadAlone
  <2>3. ~Published(c) /\ Busy(c) /\ ring[head].req = reqs[c] /\ kind[c] = "search"
    BY <1>1, <2>1, <2>2, HeadAlone DEF Current
  <2>4. \A d \in Client \ {c} : UNCHANGED ClientView(d)
    BY <1>0, <1>6, <2>2, ZenonT(40) DEF SlotTypes, ClientView, HandleSearch,
       HandleEmptySearch
  <2>5. AnswerShape(c)
    BY <1>1 DEF Answered
  <2>6. CASE HandleSearch
    <3>1. ~Published(c)'
      BY <2>3, <2>6 DEF HandleSearch, Published, Busy
    <3>2. AnswerShape(c)'
      BY <2>1, <2>3, <2>5, <3>1, AnswerPending
    <3> QED
      BY <1>2, <2>4, <3>2
  <2>7. CASE HandleEmptySearch
    <3>1. /\ result_count'[c] = [req |-> reqs[c], num |-> 0] /\ expect'[c] = 0
      BY <1>0, <2>2, <2>3, <2>7 DEF HandleEmptySearch, SlotTypes
    <3>2. SlotRight(c)' /\ pc[c] # "read"
      BY <2>1, <2>3, <2>5, <3>1 DEF SlotRight, AnswerShape
    <3>3. AnswerShape(c)'
      BY <2>1, <3>2 DEF AnswerShape
    <3> QED
      BY <1>2, <2>4, <3>3
  <2> QED
    BY <1>6, <2>6, <2>7
<1>7. CASE WorkerStep \/ WorkerError
  <2>1. HandleSearch \/ HandleEmptySearch \/ UNCHANGED <<slotVars, clientVars>>
    BY <1>7 DEF WorkerStep, WorkerStart, WorkerReset, WorkerWake, RingEmpty, HandleMaint,
                DropMaint, WorkerError
  <2>2. CASE UNCHANGED <<slotVars, clientVars>>
    BY <1>3, <2>2 DEF ClientView
  <2> QED
    BY <1>6, <2>1, <2>2
<1>8. ASSUME NEW t \in Thread, RunMmapLoad(t) \/ RunUpdate(t) \/ Done(t) PROVE Answered'
  <2>1. Held(t) /\ UNCHANGED <<pc, kind, reqs, status, result_count, payload>>
    BY <1>1, <1>8 DEF RunMmapLoad, RunUpdate, Done, ThreadShape, Held
  <2>2. PICK c \in Client : c = ttask[t].client
    BY <1>1, <2>1, HeldAlone
  <2>3. /\ ~Published(c) /\ Busy(c) /\ ttask[t].req = reqs[c] /\ kind[c] = ttask[t].type
        /\ kind[c] \in {"load", "update"}
    BY <1>1, <2>1, <2>2, HeldAlone DEF Current, Held
  <2>4. \A d \in Client \ {c} : UNCHANGED ClientView(d)
    BY <1>0, <1>8, <2>2 DEF SlotTypes, ClientView, RunMmapLoad, RunUpdate, Done
  <2>5. AnswerShape(c)
    BY <1>1 DEF Answered
  <2>6. CASE RunUpdate(t)
    <3>1. ~Published(c)'
      BY <2>1, <2>3, <2>6 DEF RunUpdate, Published, Busy
    <3>2. AnswerShape(c)'
      BY <2>1, <2>3, <2>5, <3>1, AnswerPending
    <3> QED
      BY <1>2, <2>4, <3>2
  <2>7. CASE RunMmapLoad(t) \/ Done(t)
    <3>1. maint_done'[c] = reqs[c] /\ UNCHANGED <<maint_status, expect>>
      BY <1>0, <2>2, <2>3, <2>7 DEF RunMmapLoad, Done, SlotTypes
    <3>2. kind[c] = "update" => maint_status[c] = expect[c]
      BY <1>1, <2>2, <2>3, <2>7 DEF RunMmapLoad, Done, ThreadShape
    <3>3. SlotRight(c)' /\ pc[c] # "read"
      BY <2>1, <2>3, <2>5, <3>1, <3>2 DEF SlotRight, AnswerShape
    <3>4. AnswerShape(c)'
      BY <2>1, <3>3 DEF AnswerShape
    <3> QED
      BY <1>2, <2>4, <3>4
  <2> QED
    BY <1>8, <2>6, <2>7
<1>9. ASSUME NEW t \in Thread, ThreadStep(t) PROVE Answered'
  <2>1. \/ RunMmapLoad(t) \/ RunUpdate(t) \/ Done(t)
        \/ UNCHANGED <<slotVars, clientVars>>
    BY <1>9 DEF ThreadStep, Take, RunLoad, SubmitUpgrades, RunUpgrade
  <2>2. CASE UNCHANGED <<slotVars, clientVars>>
    BY <1>3, <2>2 DEF ClientView
  <2> QED
    BY <1>8, <2>1, <2>2
<1> QED
  BY <1>4, <1>5, <1>7, <1>9 DEF Next

-----------------------------------------------------------------------------
(* The theorems.                                                           *)

\* The inductive invariant holds of the empty ring and idle processes.
LEMMA InitInv ==
    ASSUME Init
    PROVE  IndInv
<1>1. /\ \A i \in Slot : ~Live(i)
  <2>1. ASSUME NEW i \in Slot PROVE (i - head) % ring_size \in Nat
    BY RingSize, Distance DEF Init, Slot
  <2> QED
    BY <2>1 DEF Live, Init
<1>2. /\ \A j : ~Queued(j)
      /\ \A t \in Thread : ~Held(t)
      /\ \A c \in Client : \A n \in Request : ~Searched(c, n)
      /\ \A c \in Client : ~Busy(c) /\ ~Published(c)
  BY DEF Init, Queued, Held, NoTask, Searched, NoContext, Busy, Published
<1>3. AllCurrent /\ Single
  BY <1>1, <1>2 DEF AllCurrent, Single
<1>4. Somewhere /\ LostWaits
  BY <1>2 DEF Somewhere, LostWaits, Init
<1>5. ThreadShape
  BY DEF Init, ThreadShape
<1>6. SearchShape
  BY DEF Init, SearchShape, ContextShape, NoContext
<1>7. Answered
  BY <1>2 DEF Init, Answered, AnswerShape
<1>8. TypeOK
  <2>1. RingTypes
    <3>1. 0 \in Slot /\ (0 + 0) % ring_size = 0
      BY RingSize, Small DEF Slot
    <3> QED
      BY <3>1, RingSize DEF Init, RingTypes
  <2>2. SlotTypes
    BY RingAssumption DEF Init, SlotTypes, Cell, NoCell, MaintResult
  <2>3. WorkTypes
    BY RingAssumption DEF Init, WorkTypes, NoContext
  <2> QED
    BY <2>1, <2>2, <2>3, Types
<1> QED
  BY <1>3, <1>4, <1>5, <1>6, <1>7, <1>8 DEF IndInv

\* It is preserved by every step, a stuttering one included.
LEMMA IndInvStep ==
    ASSUME IndInv, [Next]_vars
    PROVE  IndInv'
<1>1. CASE Next
  BY <1>1, PlacedStep, TypeStep, ThreadShapeStep, SearchShapeStep, AnsweredStep
    DEF IndInv, Placed
<1>2. CASE UNCHANGED vars
  <2>0. UNCHANGED <<ringVars, slotVars, clientVars, wpc, ctx, poolVars, lost>>
    BY <1>2 DEF vars
  <2>1. TypeOK'
    BY <2>0 DEF IndInv, TypeOK
  <2>2. Placed'
    <3>1. \A c \in Client : Untouched(c)
      BY <2>0 DEF Untouched, Busy, Published
    <3> QED
      BY <2>0, <3>1, QuietPlaced DEF IndInv, Placed, Queued, Held, Searched
  <2>3. ThreadShape'
    BY <2>0, ThreadKept DEF IndInv
  <2>4. SearchShape'
    BY <2>0, ContextKept DEF IndInv, SearchShape
  <2>5. Answered'
    BY <2>0, AnswerKept DEF IndInv, Answered, ClientView
  <2> QED
    BY <2>1, <2>2, <2>3, <2>4, <2>5 DEF IndInv, Placed
<1> QED
  BY <1>1, <1>2

\* IndInv holds of every reachable state.
THEOREM Invariant == Spec => []IndInv
<1>1. Init => IndInv
  BY InitInv
<1>2. IndInv /\ [Next]_vars => IndInv'
  BY IndInvStep
<1> QED
  BY <1>1, <1>2, PTL DEF Spec

\* What c waits for is in one place, before its answer is published.
LEMMA PlacesOf ==
    ASSUME IndInv, NEW c \in Client \ lost, Busy(c)
    PROVE  IF Published(c) THEN Places(c) = {} ELSE \E p : Places(c) = {p}
<1>0. Placed /\ TypeOK
  BY DEF IndInv, Placed
<1>1. /\ \A i \in Slot : Live(i) /\ ring[i].client = c => ring[i].req = reqs[c]
      /\ \A j : Queued(j) /\ queue[j].client = c => queue[j].req = reqs[c]
      /\ \A t \in Thread : Held(t) /\ ttask[t].client = c => ttask[t].req = reqs[c]
  BY <1>0 DEF Placed, AllCurrent, Current, Queued
<1>2. \A n \in Request : Searched(c, n) => n = reqs[c]
  BY <1>0, SearchAlone
<1> DEFINE R == {j \in Slot : Live(j) /\ ring[j].client = c}
           X == {m \in Request : Searched(c, m)}
           Q == {j \in DOMAIN queue : Queued(j) /\ queue[j].client = c}
           T == {u \in Thread : Held(u) /\ ttask[u].client = c}
<1>3. Places(c) = {<<"ring", i>> : i \in R} \cup {<<"ctx", n>> : n \in X}
                  \cup {<<"queue", j>> : j \in Q} \cup {<<"thread", t>> : t \in T}
  <2>1. {j \in Slot : Live(j) /\ ring[j].client = c /\ ring[j].req = reqs[c]}
          = {j \in Slot : Live(j) /\ ring[j].client = c}
    BY <1>1
  <2>2. {m \in Request : m = reqs[c] /\ ctx[c][m].stage # "none"}
          = {m \in Request : Searched(c, m)}
    BY <1>2 DEF Searched
  <2>3. {j \in DOMAIN queue : queue[j].type # "upgrade" /\ queue[j].client = c
                              /\ queue[j].req = reqs[c]}
          = {j \in DOMAIN queue : Queued(j) /\ queue[j].client = c}
    BY <1>1 DEF Queued
  <2>4. {u \in Thread : ttask[u].type \in {"load", "update"} /\ ttask[u].client = c
                        /\ ttask[u].req = reqs[c]}
          = {u \in Thread : Held(u) /\ ttask[u].client = c}
    BY <1>1 DEF Held
  <2> QED
    BY <2>1, <2>2, <2>3, <2>4 DEF Places
<1>4. CASE Published(c)
  <2>1. R = {} /\ X = {} /\ Q = {} /\ T = {}
    BY <1>0, <1>4, NoTaskOf
  <2> QED
    BY <1>3, <1>4, <2>1
<1>5. CASE ~Published(c)
  <2>1. \/ \E i \in Slot : Live(i) /\ ring[i].client = c
        \/ \E j \in DOMAIN queue : Queued(j) /\ queue[j].client = c
        \/ \E t \in Thread : Held(t) /\ ttask[t].client = c
        \/ \E n \in Request : Searched(c, n)
    BY <1>0, <1>5 DEF Placed, Somewhere
  <2>2. ASSUME NEW i \in Slot, Live(i), ring[i].client = c PROVE \E p : Places(c) = {p}
    <3>1. R = {i} /\ X = {} /\ Q = {} /\ T = {}
      BY <1>0, <2>2 DEF Placed, Single
    <3> HIDE DEF R, X, Q, T
    <3>3. Places(c) = {<<"ring", i>>}
      BY <1>3, <3>1
    <3> QED
      BY <3>3
  <2>3. ASSUME NEW j \in DOMAIN queue, Queued(j), queue[j].client = c
        PROVE \E p : Places(c) = {p}
    <3>1. R = {} /\ Q = {j} /\ T = {}
      BY <1>0, <2>3 DEF Placed, Single
    <3>2. X = {}
      BY <1>0, <2>3, SearchAlone
    <3> HIDE DEF R, X, Q, T
    <3>3. Places(c) = {<<"queue", j>>}
      BY <1>3, <3>1, <3>2
    <3> QED
      BY <3>3
  <2>4. ASSUME NEW t \in Thread, Held(t), ttask[t].client = c PROVE \E p : Places(c) = {p}
    <3>1. R = {} /\ Q = {} /\ T = {t}
      BY <1>0, <2>4 DEF Placed, Single
    <3>2. X = {}
      BY <1>0, <2>4, SearchAlone
    <3> HIDE DEF R, X, Q, T
    <3>3. Places(c) = {<<"thread", t>>}
      BY <1>3, <3>1, <3>2
    <3> QED
      BY <3>3
  <2>5. ASSUME NEW n \in Request, Searched(c, n) PROVE \E p : Places(c) = {p}
    <3>1. R = {} /\ X = {n} /\ Q = {} /\ T = {}
      BY <1>0, <2>5, SearchAlone
    <3> HIDE DEF R, X, Q, T
    <3>3. Places(c) = {<<"ctx", n>>}
      BY <1>3, <3>1
    <3> QED
      BY <3>3
  <2> QED
    BY <1>5, <2>1, <2>2, <2>3, <2>4, <2>5
<1> QED
  BY <1>4, <1>5

\* A request that waits is in exactly one of the ring, the maintenance queue, a
\* thread and a search until it is answered, unless the worker dropped it or
\* ended with it (handle_task, submit_maintenance_task, search_segment_task).
THEOREM RequestsConserved == Spec => []Conserved
<1>1. ASSUME IndInv PROVE Conserved
  <2> SUFFICES ASSUME NEW c \in Client \ lost, Busy(c)
               PROVE  Cardinality(Places(c)) = (IF Published(c) THEN 0 ELSE 1)
    BY DEF Conserved
  <2>1. CASE Published(c)
    BY <1>1, <2>1, PlacesOf, FS_EmptySet
  <2>2. CASE ~Published(c)
    BY <1>1, <2>2, PlacesOf, FS_Singleton
  <2> QED
    BY <2>1, <2>2
<1>2. IndInv => Conserved
  BY <1>1
<1> QED
  BY <1>2, Invariant, PTL

-----------------------------------------------------------------------------
(* The refinement.                                                         *)

\* The service does not see a step that leaves every client as busy as it was
\* and with the answer it had.
LEMMA Unseen ==
    ASSUME reqs' = reqs,
           \A c \in Client : (Busy(c)' <=> Busy(c)) /\ AnswerOf(c)' = AnswerOf(c)
    PROVE  UNCHANGED Service!vars
<1>1. [c \in Client |-> Busy(c)]' = [c \in Client |-> Busy(c)]
  BY DEF Busy
<1>2. [c \in Client |-> AnswerOf(c)]' = [c \in Client |-> AnswerOf(c)]
  OBVIOUS
<1> QED
  BY <1>1, <1>2 DEF Service!vars

\* A client whose slot is left alone, or that waits before and after the step.
LEMMA SameAnswer ==
    ASSUME NEW c \in Client,
           UNCHANGED ClientView(c) \/ (~Published(c) /\ ~Published(c)' /\ pc'[c] = pc[c])
    PROVE  (Busy(c)' <=> Busy(c)) /\ AnswerOf(c)' = AnswerOf(c)
<1>1. CASE UNCHANGED ClientView(c)
  BY <1>1 DEF ClientView, Busy, Published, AnswerOf, SlotRight
<1>2. CASE ~Published(c) /\ ~Published(c)' /\ pc'[c] = pc[c]
  BY <1>2 DEF Busy, AnswerOf
<1> QED
  BY <1>1, <1>2

\* Sending a task asks,
LEMMA Asks ==
    ASSUME TypeOK, NEW c \in Client, pc[c] = "idle", Busy(c)', ~Published(c)',
           reqs' = [reqs EXCEPT ![c] = @ + 1],
           \A d \in Client \ {c} : UNCHANGED ClientView(d)
    PROVE  Service!Ask(c)
<1>1. ~Busy(c) /\ ~Published(c)
  BY DEF Busy, Published
<1>2. \A d \in Client \ {c} : (Busy(d)' <=> Busy(d)) /\ AnswerOf(d)' = AnswerOf(d)
  BY SameAnswer
<1>3. [d \in Client |-> Busy(d)]' = [[d \in Client |-> Busy(d)] EXCEPT ![c] = TRUE]
  <2>1. ASSUME NEW d \in Client PROVE Busy(d)' = (IF d = c THEN TRUE ELSE Busy(d))
    <3>1. Busy(d)' \in BOOLEAN /\ Busy(d) \in BOOLEAN
      BY DEF Busy
    <3>2. IF d = c THEN Busy(d)' <=> TRUE ELSE Busy(d)' <=> Busy(d)
      BY <1>2
    <3> QED
      BY <3>1, <3>2, Zenon
  <2>2. [d \in Client |-> Busy(d)]' = [d \in Client |-> IF d = c THEN TRUE ELSE Busy(d)]
    BY <2>1
  <2>3. [[d \in Client |-> Busy(d)] EXCEPT ![c] = TRUE]
          = [d \in Client |-> IF d = c THEN TRUE ELSE Busy(d)]
    BY Zenon
  <2> QED
    BY <2>2, <2>3
<1>4. AnswerOf(c)' = AnswerOf(c)
  BY <1>1 DEF AnswerOf
<1>5. [d \in Client |-> AnswerOf(d)]' = [d \in Client |-> AnswerOf(d)]
  BY <1>2, <1>4
<1>6. ~[d \in Client |-> Busy(d)][c]
  BY <1>1
<1> QED
  BY <1>3, <1>5, <1>6 DEF Service!Ask

\* publishing the right answer replies,
LEMMA Replies ==
    ASSUME NEW c \in Client, Busy(c), ~Published(c), UNCHANGED <<pc, kind, reqs>>,
           Published(c)', SlotRight(c)', expect'[c] \in 0 .. 1 + MaxSegments,
           \A d \in Client \ {c} : UNCHANGED ClientView(d)
    PROVE  Service!Reply(c)
<1>1. \A d \in Client \ {c} : (Busy(d)' <=> Busy(d)) /\ AnswerOf(d)' = AnswerOf(d)
  BY SameAnswer
<1>2. [d \in Client |-> Busy(d)]' = [d \in Client |-> Busy(d)]
  BY DEF Busy
<1>3. PICK a \in 0 .. 1 + MaxSegments : AnswerOf(c)' = {[req |-> reqs[c], says |-> a]}
  BY RingAssumption DEF AnswerOf
<1>4. [d \in Client |-> AnswerOf(d)]' =
        [[d \in Client |-> AnswerOf(d)] EXCEPT ![c] = {[req |-> reqs[c], says |-> a]}]
  BY <1>1, <1>3
<1>5. [d \in Client |-> Busy(d)][c] /\ [d \in Client |-> AnswerOf(d)][c] = {}
  BY DEF AnswerOf
<1> QED
  BY <1>2, <1>4, <1>5 DEF Service!Reply

\* and going on with a published answer returns.
LEMMA Returns ==
    ASSUME NEW c \in Client, Published(c), SlotRight(c), ~Busy(c)', reqs' = reqs,
           \A d \in Client \ {c} : UNCHANGED ClientView(d)
    PROVE  Service!Return(c)
<1>1. \A d \in Client \ {c} : (Busy(d)' <=> Busy(d)) /\ AnswerOf(d)' = AnswerOf(d)
  BY SameAnswer
<1>2. [d \in Client |-> Busy(d)]' = [[d \in Client |-> Busy(d)] EXCEPT ![c] = FALSE]
  <2>1. ASSUME NEW d \in Client PROVE Busy(d)' = (IF d = c THEN FALSE ELSE Busy(d))
    <3>1. Busy(d)' \in BOOLEAN /\ Busy(d) \in BOOLEAN
      BY DEF Busy
    <3>2. IF d = c THEN Busy(d)' <=> FALSE ELSE Busy(d)' <=> Busy(d)
      BY <1>1
    <3> QED
      BY <3>1, <3>2, Zenon
  <2>2. [d \in Client |-> Busy(d)]' = [d \in Client |-> IF d = c THEN FALSE ELSE Busy(d)]
    BY <2>1
  <2>3. [[d \in Client |-> Busy(d)] EXCEPT ![c] = FALSE]
          = [d \in Client |-> IF d = c THEN FALSE ELSE Busy(d)]
    BY Zenon
  <2> QED
    BY <2>2, <2>3
<1>3. AnswerOf(c)' = {}
  BY DEF AnswerOf, Published
<1>4. [d \in Client |-> AnswerOf(d)]' = [[d \in Client |-> AnswerOf(d)] EXCEPT ![c] = {}]
  BY <1>1, <1>3
<1>5. [d \in Client |-> Busy(d)][c] /\ [d \in Client |-> AnswerOf(d)][c] # {}
  BY DEF AnswerOf, Published
<1> QED
  BY <1>2, <1>4, <1>5 DEF Service!Return

\* A step of the ring, of the worker or of a client is a step of the service or
\* is not seen by it.
LEMMA ServiceStep ==
    ASSUME IndInv, IndInv', [Next]_vars
    PROVE  [Service!Next]_(Service!vars)
<1>1. Placed /\ TypeOK /\ SearchShape /\ ThreadShape /\ Answered /\ Answered' /\ TypeOK'
  BY DEF IndInv, Placed
<1>0. SlotTypes
  BY <1>1, Types
<1>2. \A c \in Client : Published(c)' => SlotRight(c)' /\ expect'[c] \in 0 .. 1 + MaxSegments
  BY <1>1 DEF Answered, AnswerShape, TypeOK
<1>3. ASSUME \A c \in Client : \/ UNCHANGED ClientView(c)
                               \/ ~Published(c) /\ ~Published(c)' /\ pc'[c] = pc[c],
             reqs' = reqs
      PROVE  UNCHANGED Service!vars
  BY <1>3, SameAnswer, Unseen
<1>4. ASSUME NEW c \in Client,
             \/ SendSearch(c) \/ RingFull(c) \/ ClientStep(c)
             \/ \E k \in {"load", "update"} : MaintSend(c, k)
      PROVE  [Service!Next]_(Service!vars)
  <2>1. \A d \in Client \ {c} : UNCHANGED ClientView(d)
    BY <1>0, <1>4 DEF SlotTypes, ClientView, SendSearch, RingFull, ClientStep, Notify, GetResult,
                      ReadPairs, MaintReturn, MaintSend, Goto
  <2>2. CASE SendSearch(c)
    <3>1. /\ pc[c] = "idle" /\ Busy(c)' /\ ~Published(c)'
          /\ reqs' = [reqs EXCEPT ![c] = @ + 1]
      BY <1>0, <2>2 DEF SendSearch, SlotTypes, Goto, Busy, Published
    <3>2. Service!Ask(c)
      BY <1>1, <2>1, <3>1, Asks
    <3> QED
      BY <3>2 DEF Service!Next
  <2>3. ASSUME NEW k \in {"load", "update"}, MaintSend(c, k)
        PROVE  [Service!Next]_(Service!vars)
    <3>1. /\ pc[c] = "idle" /\ Busy(c)' /\ ~Published(c)'
          /\ reqs' = [reqs EXCEPT ![c] = @ + 1]
      BY <1>0, <2>3 DEF MaintSend, SlotTypes, Goto, Busy, Published
    <3>2. Service!Ask(c)
      BY <1>1, <2>1, <3>1, Asks
    <3> QED
      BY <3>2 DEF Service!Next
  <2>4. CASE ReadPairs(c) \/ MaintReturn(c)
    <3>1. Published(c) /\ ~Busy(c)' /\ reqs' = reqs
      BY <1>0, <1>1, <2>4 DEF ReadPairs, MaintReturn, SlotTypes, Goto, Busy, Published, Answered,
                              AnswerShape
    <3>2. SlotRight(c)
      BY <1>1, <3>1 DEF Answered, AnswerShape
    <3>3. Service!Return(c)
      BY <2>1, <3>1, <3>2, Returns
    <3> QED
      BY <3>3 DEF Service!Next
  <2>5. CASE RingFull(c)
    <3>1. ~Published(c) /\ ~Published(c)' /\ UNCHANGED <<pc, reqs>>
      BY <2>5 DEF RingFull, Published, Busy
    <3> QED
      BY <1>3, <2>1, <3>1
  <2>6. CASE Notify(c) \/ GetResult(c)
    <3>1. (Busy(c)' <=> Busy(c)) /\ AnswerOf(c)' = AnswerOf(c) /\ reqs' = reqs
      BY <1>0, <2>6 DEF Notify, GetResult, SlotTypes, Goto, Busy, Published, AnswerOf, SlotRight
    <3>2. \A d \in Client \ {c} : (Busy(d)' <=> Busy(d)) /\ AnswerOf(d)' = AnswerOf(d)
      BY <2>1, SameAnswer
    <3> QED
      BY <3>1, <3>2, Unseen
  <2> QED
    BY <1>4, <2>2, <2>3, <2>4, <2>5, <2>6 DEF ClientStep
<1>5. ASSUME NEW c \in Client, NEW n \in Request, SearchStep(c, n)
      PROVE  [Service!Next]_(Service!vars)
  <2>1. \A d \in Client \ {c} : UNCHANGED ClientView(d)
    BY <1>0, <1>5, ZenonT(40) DEF SlotTypes, ClientView, SearchStep, WriteCount,
       WritePairs, Publish,
                      SearchSegment, CountDown
  <2>2. CASE \E s \in 1 .. MaxSegments : SearchSegment(c, n, s) \/ CountDown(c, n, s)
    <3>1. UNCHANGED ClientView(c) /\ reqs' = reqs
      BY <2>2 DEF ClientView, SearchSegment, CountDown
    <3> QED
      BY <1>3, <2>1, <3>1
  <2>3. CASE WriteCount(c, n) \/ WritePairs(c, n)
    <3>1. Searched(c, n)
      BY <2>3 DEF WriteCount, WritePairs, Searched
    <3>2. ~Published(c)
      BY <1>1, <3>1, SearchAlone
    <3>3. ~Published(c)' /\ pc'[c] = pc[c] /\ reqs' = reqs
      BY <2>3, <3>2 DEF WriteCount, WritePairs, Published, Busy
    <3> QED
      BY <1>3, <2>1, <3>2, <3>3
  <2>4. CASE Publish(c, n)
    <3>1. Searched(c, n) /\ UNCHANGED <<pc, kind, reqs>> /\ status'[c] = 1
      BY <1>0, <2>4 DEF Publish, Searched, SlotTypes
    <3>2. Busy(c) /\ ~Published(c) /\ kind[c] = "search"
      BY <1>1, <3>1, SearchAlone
    <3>3. Published(c)'
      BY <3>1, <3>2 DEF Published, Busy
    <3>4. Service!Reply(c)
      BY <1>2, <2>1, <3>1, <3>2, <3>3, Replies
    <3> QED
      BY <3>4 DEF Service!Next
  <2> QED
    BY <1>5, <2>2, <2>3, <2>4 DEF SearchStep
<1>6. CASE HandleSearch \/ HandleEmptySearch
  <2>1. count > 0 /\ HeadOn /\ ring[head].type = "search" /\ UNCHANGED <<pc, kind, reqs>>
    BY <1>6 DEF HandleSearch, HandleEmptySearch
  <2>2. PICK c \in Client : c = ring[head].client
    BY <1>1, <2>1, HeadAlone
  <2>3. ~Published(c) /\ Busy(c) /\ kind[c] = "search"
    BY <1>1, <2>1, <2>2, HeadAlone DEF Current
  <2>4. \A d \in Client \ {c} : UNCHANGED ClientView(d)
    BY <1>0, <1>6, <2>2 DEF SlotTypes, ClientView, HandleSearch, HandleEmptySearch
  <2>5. CASE HandleSearch
    <3>1. ~Published(c)' /\ pc'[c] = pc[c] /\ reqs' = reqs
      BY <2>3, <2>5 DEF HandleSearch, Published, Busy
    <3> QED
      BY <1>3, <2>3, <2>4, <3>1
  <2>6. CASE HandleEmptySearch
    <3>1. status'[c] = 1
      BY <1>0, <2>2, <2>6 DEF HandleEmptySearch, SlotTypes
    <3>2. Published(c)'
      BY <2>1, <2>3, <3>1 DEF Published, Busy
    <3>3. Service!Reply(c)
      BY <1>2, <2>1, <2>3, <2>4, <3>2, Replies
    <3> QED
      BY <3>3 DEF Service!Next
  <2> QED
    BY <1>6, <2>5, <2>6
<1>7. CASE UNCHANGED <<slotVars, clientVars>>
  BY <1>3, <1>7 DEF ClientView
<1>8. CASE WorkerStep \/ WorkerError
  <2>1. HandleSearch \/ HandleEmptySearch \/ UNCHANGED <<slotVars, clientVars>>
    BY <1>8 DEF WorkerStep, WorkerStart, WorkerReset, WorkerWake, RingEmpty, HandleMaint,
                DropMaint, WorkerError
  <2> QED
    BY <1>6, <1>7, <2>1
<1>9. ASSUME NEW t \in Thread, RunMmapLoad(t) \/ RunUpdate(t) \/ Done(t)
      PROVE  [Service!Next]_(Service!vars)
  <2>1. Held(t) /\ UNCHANGED <<pc, kind, reqs, status>>
    BY <1>1, <1>9 DEF RunMmapLoad, RunUpdate, Done, ThreadShape, Held
  <2>2. PICK c \in Client : c = ttask[t].client
    BY <1>1, <2>1, HeldAlone
  <2>3. /\ ~Published(c) /\ Busy(c) /\ kind[c] \in {"load", "update"} /\ ttask[t].req \in Request
    BY <1>1, <2>1, <2>2, HeldAlone DEF Current, Held
  <2>4. \A d \in Client \ {c} : UNCHANGED ClientView(d)
    BY <1>0, <1>9, <2>2 DEF SlotTypes, ClientView, RunMmapLoad, RunUpdate, Done
  <2>5. CASE RunUpdate(t)
    <3>1. ~Published(c)' /\ pc'[c] = pc[c]
      BY <2>1, <2>3, <2>5 DEF RunUpdate, Published, Busy
    <3> QED
      BY <1>3, <2>1, <2>3, <2>4, <3>1
  <2>6. CASE RunMmapLoad(t) \/ Done(t)
    <3>1. maint_done'[c] # 0
      BY <1>0, <2>2, <2>3, <2>6, RingAssumption DEF RunMmapLoad, Done, SlotTypes, Request
    <3>2. Published(c)'
      BY <2>1, <2>3, <3>1 DEF Published, Busy
    <3>3. Service!Reply(c)
      BY <1>2, <2>1, <2>3, <2>4, <3>2, Replies
    <3> QED
      BY <3>3 DEF Service!Next
  <2> QED
    BY <1>9, <2>5, <2>6
<1>10. ASSUME NEW t \in Thread, ThreadStep(t) PROVE [Service!Next]_(Service!vars)
  <2>1. \/ RunMmapLoad(t) \/ RunUpdate(t) \/ Done(t)
        \/ UNCHANGED <<slotVars, clientVars>>
    BY <1>10 DEF ThreadStep, Take, RunLoad, SubmitUpgrades, RunUpgrade
  <2> QED
    BY <1>7, <1>9, <2>1
<1>11. CASE UNCHANGED vars
  BY <1>7, <1>11 DEF vars
<1>12. CASE Next
  BY <1>4, <1>5, <1>8, <1>10, <1>12 DEF Next
<1> QED
  BY <1>11, <1>12

\* The task ring, the worker with its threads, and the result slots implement a
\* synchronous call: what a client finds in its slot when it is told so is the
\* whole answer to the request it has sent, and stays until the client is back
\* (tasksend.c, vector_index_worker.c).
THEOREM RingImplementsService == Spec => Implements
<1>1. Init => Service!Init
  <2> SUFFICES ASSUME Init PROVE Service!Init
    OBVIOUS
  <2>1. \A c \in Client : ~Busy(c) /\ AnswerOf(c) = {}
    BY DEF Init, Busy, Published, AnswerOf
  <2>2. [c \in Client |-> Busy(c)] = [c \in Client |-> FALSE]
    <3>1. ASSUME NEW c \in Client PROVE Busy(c) = FALSE
      BY <2>1 DEF Busy
    <3> QED
      BY <3>1, Zenon
  <2>3. [c \in Client |-> AnswerOf(c)] = [c \in Client |-> {}]
    BY <2>1
  <2> QED
    BY <2>2, <2>3 DEF Init, Service!Init
<1>2. IndInv /\ IndInv' /\ [Next]_vars => [Service!Next]_(Service!vars)
  BY ServiceStep
<1> QED
  BY <1>1, <1>2, Invariant, PTL DEF Spec, Implements, Service!Spec

===============================================================================
