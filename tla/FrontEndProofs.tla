--------------------------- MODULE FrontEndProofs ---------------------------
(***************************************************************************)
(* TLAPS proofs about the way of a packet in: JobQueue, for every finite   *)
(* pool of workers, every ring size and every number of packets, and       *)
(* RateLimit, for every set of clients, every bucket size, every horizon   *)
(* and every number of queries per second.                                 *)
(***************************************************************************)
EXTENDS JobQueue, RateLimit, FiniteSetTheorems, SequenceTheorems, TLAPS

(* JobQueue.                                                               *)

\* Ring indexes wrap at most once.
LEMMA WrapOnce ==
    ASSUME NEW n \in Nat, n < 2 * Size
    PROVE  n % Size = IF n < Size THEN n ELSE n - Size
<1>1. Size \in Nat /\ Size > 0
    BY JobQueueAssumption
<1>2. ASSUME n >= Size PROVE n % Size = n - Size
    <2>1. n - Size \in 0..(Size - 1) /\ n = Size * 1 + (n - Size)
        BY <1>1, <1>2
    <2>. QED  BY <1>1, <2>1
<1>. QED  BY <1>1, <1>2

\* An index that has moved on by one slot counts from there.
LEMMA WrapShift ==
    ASSUME NEW r \in Slots, NEW i \in 0..(Size - 1)
    PROVE  /\ (r + 1) % Size \in Slots
           /\ (((r + 1) % Size) + i) % Size = (r + (i + 1)) % Size
           /\ (((r + i) % Size) + 1) % Size = (r + (i + 1)) % Size
<1>1. Size \in Nat /\ Size > 0 /\ r \in Nat /\ r < Size /\ i \in Nat /\ i < Size
    BY JobQueueAssumption DEF Slots
<1>2. (r + 1) % Size = IF r + 1 < Size THEN r + 1 ELSE 0
    BY <1>1, WrapOnce
<1>3. (r + i) % Size = IF r + i < Size THEN r + i ELSE r + i - Size
    BY <1>1, WrapOnce
<1>4. (r + (i + 1)) % Size = IF r + i + 1 < Size THEN r + i + 1 ELSE r + i + 1 - Size
    BY <1>1, WrapOnce
<1>5. (((r + 1) % Size) + i) % Size = (r + (i + 1)) % Size
    <2>1. CASE r + 1 < Size
        BY <1>1, <1>2, <2>1
    <2>2. CASE r + 1 = Size
        <3>1. (0 + i) % Size = i
            BY <1>1, WrapOnce
        <3>. QED  BY <1>1, <1>2, <1>4, <2>2, <3>1
    <2>. QED  BY <1>1, <2>1, <2>2
<1>6. (((r + i) % Size) + 1) % Size = (r + (i + 1)) % Size
    <2>1. CASE r + i < Size
        BY <1>1, <1>3, <2>1
    <2>2. CASE r + i >= Size
        <3>1. (r + i - Size + 1) % Size = r + i - Size + 1
            BY <1>1, <2>2, WrapOnce
        <3>. QED  BY <1>1, <1>3, <1>4, <2>2, <3>1
    <2>. QED  BY <1>1, <2>1, <2>2
<1>. QED  BY <1>1, <1>2, <1>5, <1>6 DEF Slots

\* Sets of workers can be counted.
LEMMA CountWorkers ==
    ASSUME NEW S \in SUBSET Workers
    PROVE  /\ IsFiniteSet(S) /\ Cardinality(S) \in Nat
           /\ \A w \in Workers \ S : Cardinality(S \cup {w}) = Cardinality(S) + 1
           /\ \A w \in S : Cardinality(S \ {w}) = Cardinality(S) - 1
<1>1. IsFiniteSet(S)
    BY JobQueueAssumption, FS_Subset
<1>. QED  BY <1>1, FS_CardinalityType, FS_AddElement, FS_RemoveElement

-----------------------------------------------------------------------------
(* The invariant.                                                          *)

\* At the start the ring is empty and nobody waits.
LEMMA InitIInv == Init => IInv
<1>. SUFFICES ASSUME Init PROVE IInv
    OBVIOUS
<1>1. Size \in Nat /\ Size > 0 /\ MaxPackets \in Nat
    BY JobQueueAssumption
<1>2. TypeOK
    <2>1. started \in Seq(Packets)
        BY DEF Init
    <2>. QED  BY <1>1, <2>1 DEF Init, TypeOK, Slots
<1>3. RingOK
    <2>1. (0 + 0) % Size = 0
        BY <1>1, WrapOnce
    <2>. QED  BY <1>1, <2>1 DEF Init, RingOK
<1>4. WaitsUnderLock /\ NoLostWakeup
    BY DEF Init, WaitsUnderLock, NoLostWakeup, Waiting
<1>. QED  BY <1>2, <1>3, <1>4 DEF IInv

\* While job_mutex is free and the firewall is in service, nobody is about to wait.
LEMMA FreeMutex ==
    ASSUME WaitsUnderLock, g_running, job_mutex = NoThread, NEW w \in Workers
    PROVE  pc[w] # "prewait"
BY JobQueueAssumption DEF WaitsUnderLock

\* A worker takes a job: the ring keeps its shape, and one awake worker fewer is
\* matched by one job fewer.
LEMMA TakePreserves ==
    ASSUME IInv, NEW w \in Workers, worker_take(w)
    PROVE  IInv'
<1>1. /\ Size \in Nat /\ Size > 0 /\ MaxPackets \in Nat
      /\ job_count \in 0..Size /\ job_count > 0 /\ job_read \in Slots
      /\ pc[w] = "idle" /\ job_mutex = NoThread
      /\ job_read' = (job_read + 1) % Size /\ job_count' = job_count - 1
      /\ pc' = [pc EXCEPT ![w] = "busy"]
      /\ UNCHANGED <<job_queue, job_write, job_mutex, g_running, phase, handler, arrived>>
    BY JobQueueAssumption DEF IInv, TypeOK, worker_take
<1>2. (job_read + 0) % Size = job_read
    BY <1>1, WrapOnce DEF Slots
<1>3. job_queue[job_read] \in Packets
    BY <1>1, <1>2 DEF IInv, RingOK
<1>4. TypeOK'
    <2>1. started' \in Seq(Packets)
        BY <1>3 DEF IInv, TypeOK, worker_take
    <2>2. job_read' \in Slots
        BY <1>1, WrapShift
    <2>. QED  BY <1>1, <2>1, <2>2 DEF IInv, TypeOK
<1>5. RingOK'
    <2>1. \A i \in 0..(Size - 1) :
             (job_read' + i) % Size = (job_read + (i + 1)) % Size
        BY <1>1, WrapShift
    <2>2. job_write' = (job_read' + job_count') % Size
        BY <1>1, <2>1 DEF IInv, RingOK
    <2>3. ASSUME NEW i \in 0..(job_count' - 1)
          PROVE  job_queue'[(job_read' + i) % Size] \in Packets
        <3>1. i \in 0..(Size - 1) /\ i + 1 \in 0..(job_count - 1)
            BY <1>1
        <3>. QED  BY <1>1, <2>1, <3>1 DEF IInv, RingOK
    <2>. QED  BY <2>2, <2>3 DEF RingOK, Packets
<1>6. WaitsUnderLock'
    BY <1>1, FreeMutex DEF IInv, TypeOK, WaitsUnderLock
<1>7. NoLostWakeup'
    <2>1. Waiting' = Waiting /\ Idle' = Idle \ {w} /\ w \in Idle /\ Idle \in SUBSET Workers
        BY <1>1 DEF IInv, TypeOK, Waiting, Idle
    <2>2. Cardinality(Idle') = Cardinality(Idle) - 1 /\ Cardinality(Idle) \in Nat
        BY <2>1, CountWorkers
    <2>. QED  BY <1>1, <2>1, <2>2 DEF IInv, NoLostWakeup
<1>. QED  BY <1>4, <1>5, <1>6, <1>7 DEF IInv

\* The other steps of a worker leave the ring alone and only add awake workers, or
\* find it empty, or happen after the flag is down.
LEMMA WorkerPreserves ==
    ASSUME IInv, NEW w \in Workers,
           \/ worker_prewait(w) \/ worker_wait(w) \/ worker_spurious_wakeup(w)
           \/ worker_exit(w) \/ worker_done(w)
    PROVE  IInv'
<1>. USE DEF IInv, TypeOK
<1>1. UNCHANGED <<ring, g_running, phase, handler, arrived, started>>
    BY DEF worker_prewait, worker_wait, worker_spurious_wakeup, worker_exit, worker_done
<1>2. TypeOK'
    <2>1. pc' \in [Workers -> {"idle", "prewait", "waiting", "busy", "exited"}]
        BY DEF worker_prewait, worker_wait, worker_spurious_wakeup, worker_exit, worker_done
    <2>2. job_mutex' \in Workers \cup {Main, NoThread}
        BY DEF worker_prewait, worker_wait, worker_spurious_wakeup, worker_exit, worker_done
    <2>. QED  BY <1>1, <2>1, <2>2 DEF ring
<1>3. RingOK'
    BY <1>1 DEF RingOK, ring
<1>4. WaitsUnderLock'
    <2>. SUFFICES ASSUME g_running PROVE WaitsUnderLock'
        BY <1>1 DEF WaitsUnderLock
    <2>1. CASE worker_prewait(w)
        BY <2>1, <1>1, FreeMutex DEF worker_prewait, WaitsUnderLock, ring
    <2>2. CASE worker_wait(w)
        BY <2>2, <1>1 DEF worker_wait, WaitsUnderLock, ring
    <2>3. CASE worker_spurious_wakeup(w)
        BY <2>3, <1>1 DEF worker_spurious_wakeup, WaitsUnderLock, ring
    <2>4. CASE worker_done(w)
        BY <2>4, <1>1 DEF worker_done, WaitsUnderLock, ring
    <2>. QED  BY <2>1, <2>2, <2>3, <2>4 DEF worker_exit
<1>5. NoLostWakeup'
    <2>. SUFFICES ASSUME g_running PROVE NoLostWakeup'
        BY <1>1 DEF NoLostWakeup
    <2>1. Idle \in SUBSET Workers /\ Idle' \in SUBSET Workers
        BY DEF Idle
    <2>2. Cardinality(Idle) \in Nat /\ Cardinality(Idle') \in Nat
        BY <2>1, CountWorkers
    <2>3. CASE worker_prewait(w) \/ worker_wait(w)
        <3>1. job_count' = 0
            BY <2>3, <1>1 DEF worker_prewait, worker_wait, WaitsUnderLock, ring
        <3>. QED  BY <2>2, <3>1 DEF NoLostWakeup
    <2>4. CASE worker_spurious_wakeup(w) \/ worker_done(w)
        <3>1. Waiting' \subseteq Waiting /\ w \in Workers \ Idle /\ Idle' = Idle \cup {w}
            BY <2>4 DEF worker_spurious_wakeup, worker_done, Waiting, Idle
        <3>2. Cardinality(Idle') = Cardinality(Idle) + 1
            BY <2>1, <3>1, CountWorkers
        <3>. QED  BY <1>1, <2>2, <3>1, <3>2 DEF NoLostWakeup, ring
    <2>. QED  BY <2>3, <2>4 DEF worker_exit
<1>. QED  BY <1>2, <1>3, <1>4, <1>5

\* main accepts a packet: the new job lies behind the others, and if anybody was
\* asleep the signal has added an awake worker for it.
LEMMA EnqueuePreserves ==
    ASSUME IInv, main_enqueue
    PROVE  IInv'
<1>1. /\ Size \in Nat /\ Size > 0 /\ MaxPackets \in Nat
      /\ job_count \in 0..Size /\ job_count < Size /\ job_count' = job_count + 1
      /\ job_read \in Slots /\ job_write \in Slots
      /\ job_mutex = NoThread
      /\ job_queue \in [Slots -> 0..MaxPackets]
      /\ job_queue' = [job_queue EXCEPT ![job_write] = arrived']
      /\ job_write' = (job_write + 1) % Size
      /\ arrived' \in Packets
      /\ pc' \in Signalled
      /\ UNCHANGED <<job_read, job_mutex, g_running, phase, handler, started>>
    BY JobQueueAssumption DEF IInv, TypeOK, main_enqueue, Receive, HasRoom, Packets
<1>2. \/ Waiting = {} /\ pc' = pc
      \/ \E w \in Waiting : pc' = [pc EXCEPT ![w] = "idle"]
    BY <1>1 DEF Signalled, Wakings
<1>3. TypeOK'
    <2>1. pc' \in [Workers -> {"idle", "prewait", "waiting", "busy", "exited"}]
        BY <1>2 DEF IInv, TypeOK, Waiting
    <2>2. job_write' \in Slots
        BY <1>1, WrapShift
    <2>3. job_queue' \in [Slots -> 0..MaxPackets]
        BY <1>1 DEF Packets
    <2>. QED  BY <1>1, <2>1, <2>2, <2>3 DEF IInv, TypeOK, Packets
<1>4. RingOK'
    <2>1. job_write' = (job_read' + job_count') % Size
        BY <1>1, WrapShift DEF IInv, RingOK
    <2>2. ASSUME NEW i \in 0..(job_count' - 1)
          PROVE  job_queue'[(job_read' + i) % Size] \in Packets
        <3>. DEFINE s == (job_read + i) % Size
        <3>1. s \in Slots
            BY <1>1, WrapOnce DEF Slots
        <3>2. CASE i = job_count
            BY <1>1, <3>1, <3>2 DEF IInv, RingOK
        <3>3. CASE i < job_count
            BY <1>1, <3>1, <3>3 DEF IInv, RingOK
        <3>. QED  BY <1>1, <3>2, <3>3
    <2>. QED  BY <2>1, <2>2 DEF RingOK, Packets
<1>5. WaitsUnderLock'
    BY <1>1, <1>2, FreeMutex DEF IInv, TypeOK, WaitsUnderLock, Waiting
<1>6. NoLostWakeup'
    <2>1. CASE Waiting = {} /\ pc' = pc
        BY <2>1 DEF NoLostWakeup, Waiting
    <2>2. ASSUME NEW w \in Waiting, pc' = [pc EXCEPT ![w] = "idle"]
          PROVE  NoLostWakeup'
        <3>1. Idle \in SUBSET Workers /\ w \in Workers \ Idle /\ Idle' = Idle \cup {w}
            BY <2>2 DEF IInv, TypeOK, Waiting, Idle
        <3>2. Cardinality(Idle') = Cardinality(Idle) + 1 /\ Cardinality(Idle) \in Nat
            BY <3>1, CountWorkers
        <3>. QED  BY <1>1, <3>2 DEF IInv, NoLostWakeup
    <2>. QED  BY <1>2, <2>1, <2>2
<1>. QED  BY <1>3, <1>4, <1>5, <1>6 DEF IInv

\* A dropped packet and the steps of cleanup: the flag goes down, or the workers
\* asleep are all woken.
LEMMA OthersPreserve ==
    ASSUME IInv, main_drop \/ cleanup
    PROVE  IInv'
<1>1. CASE main_drop
    <2>1. arrived' \in 0..MaxPackets
        BY <1>1, JobQueueAssumption DEF main_drop, Receive, IInv, TypeOK
    <2>. QED  BY <1>1, <2>1 DEF main_drop, ring, IInv, TypeOK, RingOK, WaitsUnderLock,
                    NoLostWakeup, Waiting, Idle
<1>2. ASSUME NEW t \in Workers \cup {Main}, cleanup_flag(t) PROVE IInv'
    BY <1>2 DEF cleanup_flag, ring, IInv, TypeOK, RingOK, WaitsUnderLock, NoLostWakeup
<1>3. CASE cleanup_broadcast
    <2>1. Waiting' = {}
        BY <1>3 DEF cleanup_broadcast, Waiting
    <2>. QED  BY <1>3, <2>1 DEF cleanup_broadcast, ring, IInv, TypeOK, RingOK,
                    WaitsUnderLock, NoLostWakeup
<1>4. CASE cleanup_destroy \/ exit
    <2>1. /\ UNCHANGED <<job_queue, job_read, job_write, job_count>>
          /\ UNCHANGED <<job_mutex, g_running, pc, handler, arrived, started>>
          /\ phase' \in {"destroyed", "exited"}
        BY <1>4 DEF cleanup_destroy, exit, ring
    <2>2. TypeOK'
        BY <2>1 DEF IInv, TypeOK
    <2>3. RingOK' /\ WaitsUnderLock' /\ NoLostWakeup'
        BY <2>1 DEF IInv, RingOK, WaitsUnderLock, NoLostWakeup, Waiting, Idle
    <2>. QED  BY <2>2, <2>3 DEF IInv
<1>. QED  BY <1>1, <1>2, <1>3, <1>4 DEF cleanup

\* Every step preserves the invariant.
LEMMA NextIInv == IInv /\ [Next]_vars => IInv'
<1>. SUFFICES ASSUME IInv, [Next]_vars PROVE IInv'
    OBVIOUS
<1>1. ASSUME NEW w \in Workers, worker_thread(w) PROVE IInv'
    BY <1>1, TakePreserves, WorkerPreserves DEF worker_thread
<1>2. CASE main_enqueue
    BY <1>2, EnqueuePreserves
<1>3. CASE main_drop \/ cleanup
    BY <1>3, OthersPreserve
<1>4. CASE UNCHANGED vars
    BY <1>4 DEF vars, ring, IInv, TypeOK, RingOK, WaitsUnderLock, NoLostWakeup, Waiting, Idle
<1>. QED  BY <1>1, <1>2, <1>3, <1>4 DEF Next

\* The ring and the lock discipline of worker_thread and main hold for ever.
THEOREM Invariance == Spec => []IInv
BY InitIInv, NextIInv, PTL DEF Spec

\* One pthread_cond_signal per job is enough: no accepted job ever waits for a
\* worker that sleeps, however many workers there are.
THEOREM NoLostWakeupHolds == Spec => []NoLostWakeup
<1>1. IInv => NoLostWakeup
    BY DEF IInv
<1>. QED  BY <1>1, Invariance, PTL

-----------------------------------------------------------------------------
(* The ring is a bounded queue.                                            *)

\* The jobs in the ring are a sequence of packets, job_count long.
PendingOK ==
    /\ Pending \in Seq(Packets) /\ Len(Pending) = job_count
    /\ \A i \in 1..job_count : Pending[i] = job_queue[(job_read + (i - 1)) % Size]

\* That is what the invariant says of the ring.
LEMMA PendingIsSeq == IInv => PendingOK
<1>. SUFFICES ASSUME IInv PROVE PendingOK
    OBVIOUS
<1>1. job_count \in Nat /\ job_read \in Nat /\ Size \in Nat
    BY JobQueueAssumption DEF IInv, TypeOK, Slots
<1>2. ASSUME NEW i \in 1..job_count
      PROVE  /\ Pending[i] = job_queue[(job_read + (i - 1)) % Size]
             /\ job_queue[(job_read + (i - 1)) % Size] \in Packets
    <2>1. job_read + i - 1 = job_read + (i - 1) /\ i - 1 \in 0..(job_count - 1)
        BY <1>1
    <2>. QED  BY <2>1 DEF IInv, RingOK, Pending
<1>3. Pending \in [1..job_count -> Packets]
    BY <1>2 DEF Pending
<1>. QED  BY <1>1, <1>2, <1>3 DEF PendingOK

\* worker_take starts the oldest job.
LEMMA TakeStarts ==
    ASSUME IInv, IInv', NEW w \in Workers, worker_take(w)
    PROVE  Fifo!Start
<1>1. /\ Size \in Nat /\ Size > 0
      /\ job_count \in 0..Size /\ job_count > 0 /\ job_read \in Slots
      /\ job_read' = (job_read + 1) % Size /\ job_count' = job_count - 1
      /\ started' = Append(started, job_queue[job_read])
      /\ UNCHANGED <<job_queue, arrived>>
    BY JobQueueAssumption DEF IInv, TypeOK, worker_take
<1>2. /\ Pending \in Seq(Packets) /\ Len(Pending) = job_count
      /\ \A i \in 1..job_count : Pending[i] = job_queue[(job_read + (i - 1)) % Size]
    BY PendingIsSeq DEF PendingOK
<1>3. /\ Pending' \in Seq(Packets) /\ Len(Pending') = job_count'
      /\ \A i \in 1..job_count' : Pending'[i] = job_queue'[(job_read' + (i - 1)) % Size]
    <2>1. PendingOK'
        BY PendingIsSeq, PTL
    <2>. QED  BY <2>1 DEF PendingOK, Packets
<1>4. Pending # << >> /\ Head(Pending) = job_queue[job_read]
    <2>1. (job_read + (1 - 1)) % Size = job_read
        BY <1>1, WrapOnce DEF Slots
    <2>2. Pending[1] = job_queue[job_read]
        BY <1>1, <1>2, <2>1
    <2>. QED  BY <1>1, <1>2, <2>2
<1>5. Pending' = Tail(Pending)
    <2>1. Tail(Pending) \in Seq(Packets) /\ Len(Tail(Pending)) = job_count'
        BY <1>1, <1>2, <1>4
    <2>2. ASSUME NEW i \in 1..job_count' PROVE Pending'[i] = Tail(Pending)[i]
        <3>1. i - 1 \in 0..(Size - 1) /\ i + 1 \in 1..job_count /\ (i - 1) + 1 = (i + 1) - 1
            BY <1>1
        <3>2. (job_read' + (i - 1)) % Size = (job_read + ((i + 1) - 1)) % Size
            BY <1>1, <3>1, WrapShift
        <3>3. Pending'[i] = Pending[i + 1]
            BY <1>1, <1>2, <1>3, <3>1, <3>2
        <3>. QED  BY <1>1, <1>2, <1>4, <3>1, <3>3
    <2>. QED  BY <1>1, <1>3, <2>1, <2>2, SeqEqual
<1>. QED  BY <1>1, <1>4, <1>5 DEF Fifo!Start

\* main_enqueue appends the packet.
LEMMA EnqueueAccepts ==
    ASSUME IInv, IInv', main_enqueue
    PROVE  Fifo!Accept
<1>1. /\ Size \in Nat /\ Size > 0
      /\ job_count \in 0..Size /\ job_count < Size /\ job_count' = job_count + 1
      /\ job_read \in Slots /\ job_write \in Slots
      /\ job_queue \in [Slots -> 0..MaxPackets]
      /\ job_queue' = [job_queue EXCEPT ![job_write] = arrived']
      /\ arrived + 1 \in Packets /\ arrived' = arrived + 1
      /\ UNCHANGED <<job_read, started>>
    BY JobQueueAssumption DEF IInv, TypeOK, main_enqueue, Receive, HasRoom, Packets
<1>2. /\ Pending \in Seq(Packets) /\ Len(Pending) = job_count
      /\ \A i \in 1..job_count : Pending[i] = job_queue[(job_read + (i - 1)) % Size]
    BY PendingIsSeq DEF PendingOK
<1>3. /\ Pending' \in Seq(Packets) /\ Len(Pending') = job_count'
      /\ \A i \in 1..job_count' : Pending'[i] = job_queue'[(job_read' + (i - 1)) % Size]
    <2>1. PendingOK'
        BY PendingIsSeq, PTL
    <2>. QED  BY <2>1 DEF PendingOK, Packets
<1>4. Pending' = Append(Pending, arrived')
    <2>1. /\ Append(Pending, arrived') \in Seq(Packets)
          /\ Len(Append(Pending, arrived')) = job_count'
        BY <1>1, <1>2
    <2>2. ASSUME NEW i \in 1..job_count' PROVE Pending'[i] = Append(Pending, arrived')[i]
        <3>. DEFINE n == job_read + (i - 1)
                    s == n % Size
        <3>1. i - 1 \in Nat /\ job_read + (i - 1) \in Nat /\ job_read + (i - 1) < 2 * Size
            BY <1>1 DEF Slots
        <3>2. s \in Slots
            BY <1>1, <3>1, WrapOnce DEF Slots
        <3>3. CASE i = job_count + 1
            <4>1. s = job_write
                BY <1>1, <3>3 DEF IInv, RingOK
            <4>. QED  BY <1>1, <1>2, <1>3, <3>2, <3>3, <4>1
        <3>4. CASE i \in 1..job_count
            <4>1. s # job_write
                <5>1. s = IF n < Size THEN n ELSE n - Size
                    <6>1. n \in Nat /\ n < 2 * Size
                        BY <3>1
                    <6>. HIDE DEF n
                    <6>. QED  BY <6>1, WrapOnce
                <5>2. job_write = IF job_read + job_count < Size THEN job_read + job_count
                                  ELSE job_read + job_count - Size
                    BY <1>1, WrapOnce DEF IInv, RingOK, Slots
                <5>3. job_read \in Nat /\ job_count \in Nat /\ i \in Nat
                    BY <1>1, <3>4 DEF Slots
                <5>. HIDE DEF s
                <5>. QED  BY <1>1, <3>4, <5>1, <5>2, <5>3
            <4>2. job_queue'[s] = job_queue[s]
                BY <1>1, <3>2, <4>1
            <4>3. Pending'[i] = Pending[i]
                BY <1>1, <1>2, <1>3, <3>4, <4>2
            <4>. QED  BY <1>1, <1>2, <3>4, <4>3
        <3>5. i = job_count + 1 \/ i \in 1..job_count
            BY <1>1
        <3>. QED  BY <3>3, <3>4, <3>5
    <2>. QED  BY <1>1, <1>3, <2>1, <2>2, SeqEqual
<1>. QED  BY <1>1, <1>2, <1>4 DEF Fifo!Accept, Fifo!Receive

\* A full ring drops the packet.
LEMMA DropDrops ==
    ASSUME IInv, main_drop
    PROVE  Fifo!Drop
<1>1. /\ job_count \in 0..Size /\ ~(job_count < Size) /\ Size \in Nat
      /\ arrived + 1 \in Packets /\ arrived' = arrived + 1
      /\ UNCHANGED <<job_queue, job_read, job_count, started>>
    BY JobQueueAssumption DEF IInv, TypeOK, main_drop, Receive, HasRoom, Packets, ring
<1>2. Len(Pending) = Size /\ Pending' = Pending
    BY <1>1, PendingIsSeq DEF Pending, PendingOK
<1>. QED  BY <1>1, <1>2 DEF Fifo!Drop, Fifo!Receive

\* Everything else is invisible to the queue.
LEMMA OthersStutter ==
    ASSUME \/ \E w \in Workers :
                \/ worker_prewait(w) \/ worker_wait(w) \/ worker_spurious_wakeup(w)
                \/ worker_exit(w) \/ worker_done(w)
           \/ cleanup
           \/ UNCHANGED vars
    PROVE  UNCHANGED Fifo!fifoVars
<1>1. UNCHANGED <<ring, started, arrived>>
    BY DEF worker_prewait, worker_wait, worker_spurious_wakeup, worker_exit, worker_done,
           cleanup, cleanup_flag, cleanup_broadcast, cleanup_destroy, exit, vars
<1>. QED  BY <1>1 DEF ring, Pending, Fifo!fifoVars

\* The ring of main.c, its three indexes and its lock implement a bounded queue:
\* accepted packets are started once each and in order, and a packet is dropped
\* only when Size jobs are waiting.
THEOREM Refinement == Spec => RefinesFifo
<1>1. Init => Fifo!Init
    <2>. SUFFICES ASSUME Init PROVE Pending = << >>
        BY DEF Init, Fifo!Init
    <2>. QED  BY InitIInv, PendingIsSeq, EmptySeq DEF Init, PendingOK
<1>2. IInv /\ IInv' /\ [Next]_vars => [Fifo!Next]_(Fifo!fifoVars)
    <2>. SUFFICES ASSUME IInv, IInv', [Next]_vars PROVE [Fifo!Next]_(Fifo!fifoVars)
        OBVIOUS
    <2>1. ASSUME NEW w \in Workers, worker_thread(w) PROVE [Fifo!Next]_(Fifo!fifoVars)
        BY <2>1, TakeStarts, OthersStutter DEF worker_thread, Fifo!Next
    <2>2. CASE main_enqueue
        BY <2>2, EnqueueAccepts DEF Fifo!Next
    <2>3. CASE main_drop
        BY <2>3, DropDrops DEF Fifo!Next
    <2>4. CASE cleanup \/ UNCHANGED vars
        BY <2>4, OthersStutter
    <2>. QED  BY <2>1, <2>2, <2>3, <2>4 DEF Next
<1>. QED  BY <1>1, <1>2, Invariance, PTL DEF Spec, RefinesFifo, Fifo!Spec

-----------------------------------------------------------------------------
(* RateLimit.                                                              *)

\* unsigned int arithmetic wraps at most once on the values rl_check computes.
LEMMA UIntWraps ==
    ASSUME NEW n \in Int, -UIntMod < n, n < 2 * UIntMod
    PROVE  UInt(n) = IF n < 0 THEN n + UIntMod
                     ELSE IF n < UIntMod THEN n ELSE n - UIntMod
<1>1. UIntMod \in Nat /\ UIntMod > 0
    BY RateLimitAssumption
<1>2. ASSUME n >= UIntMod PROVE n % UIntMod = n - UIntMod
    <2>1. n - UIntMod \in 0..(UIntMod - 1) /\ n = UIntMod * 1 + (n - UIntMod)
        BY <1>1, <1>2
    <2>. QED  BY <1>1, <2>1
<1>. QED  BY <1>1, <1>2 DEF UInt

\* A capped counter is a number of tokens.
LEMMA CapInRange ==
    ASSUME NEW n \in Nat
    PROVE  Capped(n) \in 0..MaxTokens
BY RateLimitAssumption DEF Capped

\* The refill of rl_check computes what Available says, clock set back or not.
LEMMA RefillIsAvailable ==
    ASSUME LimitTypeOK, NEW c \in known
    PROVE  Refilled(c) = Available(c) /\ Refilled(c) \in 0..MaxTokens
<1>. DEFINE d == now - last_refill[c]
            t == tokens[c]
<1>1. /\ c \in Clients /\ MaxTime \in Nat /\ MaxTokens \in Nat /\ UIntMod \in Nat
      /\ MaxTime + MaxTokens < UIntMod
      /\ d \in Int /\ t \in Int /\ 0 <= t /\ t <= MaxTokens
      /\ -MaxTime <= d /\ d <= MaxTime
    BY RateLimitAssumption DEF LimitTypeOK, Time
<1>2. Elapsed(c) = IF d < 0 THEN d + UIntMod ELSE d
    <2>. HIDE DEF d
    <2>1. UInt(d) = IF d < 0 THEN d + UIntMod ELSE d
        BY <1>1, UIntWraps
    <2>. QED  BY <2>1 DEF Elapsed, d
<1>3. UInt(t + d) = IF t + d < 0 THEN t + d + UIntMod ELSE t + d
    <2>. HIDE DEF d, t
    <2>1. t + d \in Int /\ -UIntMod < t + d /\ t + d < UIntMod
        BY <1>1
    <2>. QED  BY <1>1, <2>1, UIntWraps
<1>4. UInt(t + Elapsed(c)) = UInt(t + d)
    <2>. DEFINE n == t + Elapsed(c)
    <2>. HIDE DEF d, t
    <2>1. n \in Int /\ -UIntMod < n /\ n < 2 * UIntMod /\ 0 <= n
        BY <1>1, <1>2
    <2>2. UInt(n) = IF n < UIntMod THEN n ELSE n - UIntMod
        <3>. HIDE DEF n
        <3>. QED  BY <1>1, <2>1, UIntWraps
    <2>3. CASE d < 0   BY <1>1, <1>2, <1>3, <2>2, <2>3
    <2>4. CASE d >= 0  BY <1>1, <1>2, <1>3, <2>2, <2>4
    <2>. QED  BY <1>1, <2>3, <2>4
<1>5. Refilled(c) = Capped(UInt(t + d))
    <2>. HIDE DEF d
    <2>1. CASE Elapsed(c) = 0
        <3>1. d = 0  BY <1>1, <1>2, <2>1
        <3>. QED  BY <1>1, <1>3, <2>1, <3>1 DEF Refilled, Capped
    <2>2. CASE Elapsed(c) # 0
        BY <1>4, <2>2 DEF Refilled
    <2>. QED  BY <2>1, <2>2
<1>6. UInt(t + d) \in Nat
    <2>. HIDE DEF d, t
    <2>. QED  BY <1>1, <1>3
<1>. QED  BY <1>5, <1>6, CapInRange DEF Available

\* What a client could spend is always between nothing and a full bucket.
LEMMA AvailableInRange ==
    ASSUME LimitTypeOK, NEW c \in Clients
    PROVE  Available(c) \in 0..MaxTokens
BY RefillIsAvailable, RateLimitAssumption DEF Available

\* A second that passes adds at most one token.
LEMMA AvailableGrowsByOne ==
    ASSUME LimitTypeOK, NEW c \in Clients, now < MaxTime, now' = now + 1, UNCHANGED buckets
    PROVE  Available(c)' \in Int /\ Available(c)' <= Available(c) + 1
<1>. DEFINE a == tokens[c] + (now - last_refill[c])
<1>1. /\ MaxTime \in Nat /\ MaxTokens \in Nat /\ UIntMod \in Nat
      /\ MaxTime + MaxTokens < UIntMod
      /\ a \in Int /\ -MaxTime <= a /\ a < MaxTokens + MaxTime
    BY RateLimitAssumption DEF LimitTypeOK, Time
<1>2. tokens'[c] + (now' - last_refill'[c]) = a + 1
    BY DEF LimitTypeOK, Time, buckets
<1>. HIDE DEF a
<1>3. /\ UInt(a) = IF a < 0 THEN a + UIntMod ELSE a
      /\ UInt(a + 1) = IF a + 1 < 0 THEN a + 1 + UIntMod ELSE a + 1
    <2>1. /\ a \in Int /\ -UIntMod < a /\ a < UIntMod
          /\ a + 1 \in Int /\ -UIntMod < a + 1 /\ a + 1 < UIntMod
        BY <1>1
    <2>. QED  BY <1>1, <2>1, UIntWraps
<1>4. Capped(UInt(a + 1)) \in Int /\ Capped(UInt(a + 1)) <= Capped(UInt(a)) + 1
    BY <1>1, <1>3 DEF Capped
<1>5. CASE c \in known
    <2>1. Available(c) = Capped(UInt(a)) /\ Available(c)' = Capped(UInt(a + 1))
        BY <1>2, <1>5 DEF Available, buckets, a, Capped, UInt
    <2>. QED  BY <1>4, <2>1
<1>6. CASE c \notin known
    BY <1>1, <1>6 DEF Available, buckets
<1>. QED  BY <1>5, <1>6

-----------------------------------------------------------------------------
\* The empty table of rl_create satisfies the invariant.
LEMMA LimitInitInv == LimitInit => LimitInv
BY RateLimitAssumption
   DEF LimitInit, LimitInv, LimitTypeOK, Time, ClockOK, Budget, RefillPaid, NoStarvation, Available

\* A query of client c: what each path through rl_check does to the invariant.
LEMMA CheckPreserves ==
    ASSUME LimitInv, NEW c \in Clients, rl_check(c)
    PROVE  LimitInv'
<1>. USE RateLimitAssumption
<1>1. Refilled(c) = Available(c) \/ c \notin known
    BY RefillIsAvailable DEF LimitInv
<1>2. Available(c) \in 0..MaxTokens
    BY AvailableInRange DEF LimitInv
<1>3. \A x \in Clients \ {c} :
         /\ (x \in known' <=> x \in known) /\ last_refill'[x] = last_refill[x]
         /\ tokens'[x] = tokens[x] /\ winStart'[x] = winStart[x]
         /\ winCount'[x] = winCount[x] /\ steady'[x] = steady[x]
         /\ lastPass'[x] = lastPass[x] /\ verdict'[x] = verdict[x]
         /\ Available(x)' = Available(x)
    BY DEF LimitInv, LimitTypeOK, rl_check, rl_check_new, rl_check_nomem, rl_check_pass,
           rl_check_drop, Passed, Dropped, buckets, Available, Capped, UInt
<1>4. LimitTypeOK'
    <2>1. offered' \in [Clients -> 0..MaxOffered]
        BY DEF LimitInv, LimitTypeOK, rl_check, Offer
    <2>2. CASE rl_check_new(c)
        BY <2>1, <2>2 DEF LimitInv, LimitTypeOK, rl_check, rl_check_new, Passed
    <2>3. CASE rl_check_nomem(c)
        BY <2>1, <2>3 DEF LimitInv, LimitTypeOK, rl_check, rl_check_nomem, Passed, buckets
    <2>4. CASE rl_check_pass(c)
        <3>1. Refilled(c) - 1 \in 0..MaxTokens
            BY <1>1, <1>2, <2>4 DEF rl_check_pass
        <3>. QED  BY <2>1, <2>4, <3>1 DEF LimitInv, LimitTypeOK, rl_check, rl_check_pass, Passed
    <2>5. CASE rl_check_drop(c)
        BY <2>1, <2>5 DEF LimitInv, LimitTypeOK, rl_check, rl_check_drop, Dropped
    <2>. QED  BY <2>2, <2>3, <2>4, <2>5 DEF rl_check
<1>5. now' = now /\ forward' = forward /\ winStart' = winStart
    BY DEF rl_check
<1>6. ClockOK'
    BY <1>5 DEF LimitInv, LimitTypeOK, Time, ClockOK, rl_check, rl_check_new, rl_check_nomem,
                rl_check_pass, rl_check_drop, Passed, Dropped, buckets
<1>7. RefillPaid'
    <2>1. CASE rl_check_drop(c)
        \* An empty bucket after the refill means no second passed since it.
        <3>1. ASSUME forward PROVE last_refill[c] = now
            <4>1. /\ c \in Clients /\ tokens[c] \in 0..MaxTokens /\ last_refill[c] \in Time
                  /\ now \in Time /\ last_refill[c] <= now
                BY <3>1, <2>1 DEF LimitInv, LimitTypeOK, ClockOK, rl_check_drop
            <4>2. tokens[c] + (now - last_refill[c]) \in 0..(UIntMod - 1)
                BY <4>1 DEF Time
            <4>3. UInt(tokens[c] + (now - last_refill[c])) = tokens[c] + (now - last_refill[c])
                BY <4>2 DEF UInt
            <4>4. Available(c) = 0 /\ c \in known
                BY <1>1, <2>1 DEF rl_check_drop
            <4>5. Capped(tokens[c] + (now - last_refill[c])) = 0
                BY <4>3, <4>4 DEF Available
            <4>. QED  BY <4>1, <4>2, <4>5 DEF Capped, Time
        <3>. QED  BY <1>5, <2>1, <3>1 DEF LimitInv, LimitTypeOK, RefillPaid, rl_check_drop, Dropped
    <2>2. CASE rl_check_new(c) \/ rl_check_nomem(c) \/ rl_check_pass(c)
        BY <1>5, <2>2 DEF LimitInv, LimitTypeOK, Time, RefillPaid, rl_check_new, rl_check_nomem,
                          rl_check_pass, Passed, buckets
    <2>. QED  BY <2>1, <2>2 DEF rl_check
<1>8. NoStarvation'
    <2>1. CASE rl_check_drop(c)
        \* The refill found nothing, so it was paid for in this very second.
        <3>1. ASSUME forward PROVE lastPass'[c] = now
            <4>1. /\ c \in known' /\ forward' /\ last_refill'[c] = now
                BY <1>5, <2>1, <3>1 DEF LimitInv, LimitTypeOK, rl_check_drop
            <4>2. now <= lastPass'[c]
                BY <1>7, <4>1 DEF RefillPaid
            <4>3. lastPass'[c] <= now /\ lastPass'[c] \in Int /\ now \in Int
                BY <1>4, <1>5, <1>6, <4>1 DEF ClockOK, LimitTypeOK, Time
            <4>. QED  BY <4>2, <4>3
        <3>. QED  BY <1>3, <1>5, <3>1 DEF LimitInv, NoStarvation
    <2>2. CASE rl_check_new(c) \/ rl_check_nomem(c) \/ rl_check_pass(c)
        <3>1. verdict'[c] = "pass"
            BY <2>2 DEF LimitInv, LimitTypeOK, rl_check_new, rl_check_nomem, rl_check_pass, Passed
        <3>. QED  BY <1>3, <1>5, <3>1 DEF LimitInv, NoStarvation
    <2>. QED  BY <2>1, <2>2 DEF rl_check
<1>9. Budget'
    <2>1. ASSUME steady'[c]
          PROVE  /\ winStart'[c] <= now'
                 /\ winCount'[c] + Available(c)' <= MaxTokens + (now' - winStart'[c])
        <3>1. CASE rl_check_nomem(c)
            BY <2>1, <3>1 DEF LimitInv, LimitTypeOK, rl_check_nomem
        <3>2. CASE ~rl_check_nomem(c)
            <4>1. steady[c]
                BY <2>1, <3>2 DEF rl_check, rl_check_new, rl_check_pass, rl_check_drop
            <4>2. /\ winStart[c] <= now
                  /\ winCount[c] + Available(c) <= MaxTokens + (now - winStart[c])
                BY <4>1 DEF LimitInv, Budget
            \* After the check last_refill is now: what is left is tokens'.
            <4>3. c \in known' /\ last_refill'[c] = now /\ tokens'[c] \in 0..MaxTokens
                BY <1>4, <3>2
                   DEF LimitInv, LimitTypeOK, rl_check, rl_check_new, rl_check_pass, rl_check_drop
            <4>4. UInt(tokens'[c] + (now - now)) = tokens'[c]
                BY <4>3, UIntWraps DEF LimitInv, LimitTypeOK, Time
            <4>5. Available(c)' = tokens'[c]
                BY <1>5, <4>3, <4>4 DEF Available, Capped, UInt
            <4>6. CASE rl_check_new(c)
                <5>1. /\ winCount'[c] = winCount[c] + 1 /\ tokens'[c] = MaxTokens - 1
                      /\ Available(c) = MaxTokens
                    BY <4>6 DEF LimitInv, LimitTypeOK, rl_check_new, Passed, Available
                <5>. QED  BY <1>5, <4>2, <4>5, <5>1 DEF LimitInv, LimitTypeOK, Time
            <4>7. CASE rl_check_pass(c)
                <5>1. /\ winCount'[c] = winCount[c] + 1 /\ tokens'[c] = Available(c) - 1
                    BY <1>1, <4>7 DEF LimitInv, LimitTypeOK, rl_check_pass, Passed
                <5>. QED  BY <1>2, <1>5, <4>2, <4>5, <5>1 DEF LimitInv, LimitTypeOK, Time
            <4>8. CASE rl_check_drop(c)
                <5>1. /\ winCount'[c] = winCount[c] /\ tokens'[c] = 0
                    BY <4>8 DEF LimitInv, LimitTypeOK, rl_check_drop, Dropped
                <5>. QED  BY <1>2, <1>5, <4>2, <4>5, <5>1 DEF LimitInv, LimitTypeOK, Time
            <4>. QED  BY <3>2, <4>6, <4>7, <4>8 DEF rl_check
        <3>. QED  BY <3>1, <3>2
    <2>. QED  BY <1>3, <1>5, <2>1 DEF LimitInv, Budget
<1>. QED  BY <1>4, <1>6, <1>7, <1>8, <1>9 DEF LimitInv

\* A second passes.
LEMMA TickPreserves ==
    ASSUME LimitInv, Tick
    PROVE  LimitInv'
<1>. USE RateLimitAssumption
<1>1. LimitTypeOK'
    BY DEF LimitInv, LimitTypeOK, Time, Tick, NewSecond, buckets
<1>2. ClockOK' /\ RefillPaid' /\ NoStarvation'
    BY DEF LimitInv, LimitTypeOK, Time, ClockOK, RefillPaid, NoStarvation, Tick, NewSecond, buckets
<1>3. Budget'
    <2>1. ASSUME NEW c \in Clients
          PROVE  Available(c)' \in Int /\ Available(c)' <= Available(c) + 1
        BY AvailableGrowsByOne DEF LimitInv, Tick, NewSecond, buckets
    <2>2. \A c \in Clients : Available(c) \in 0..MaxTokens
        BY AvailableInRange DEF LimitInv
    <2>. QED  BY <2>1, <2>2 DEF LimitInv, LimitTypeOK, Time, Budget, Tick, NewSecond
<1>. QED  BY <1>1, <1>2, <1>3 DEF LimitInv

\* The clock is set back: every window observed so far is disturbed.
LEMMA StepBackPreserves ==
    ASSUME LimitInv, ClockStepBack
    PROVE  LimitInv'
<1>1. LimitTypeOK'
    <2>1. now' \in Time
        BY RateLimitAssumption DEF LimitInv, LimitTypeOK, Time, ClockStepBack
    <2>2. forward' \in BOOLEAN /\ steady' \in [Clients -> BOOLEAN]
        BY DEF ClockStepBack
    <2>3. /\ offered' \in [Clients -> 0..MaxOffered]
          /\ verdict' \in [Clients -> {"none", "pass", "drop"}]
        BY RateLimitAssumption DEF ClockStepBack, NewSecond
    <2>. QED  BY <2>1, <2>2, <2>3 DEF LimitInv, LimitTypeOK, ClockStepBack, NewSecond, buckets
<1>2. ~forward' /\ \A c \in Clients : ~steady'[c]
    BY DEF ClockStepBack
<1>. QED  BY <1>1, <1>2 DEF LimitInv, ClockOK, Budget, RefillPaid, NoStarvation

\* A new window starts with nothing counted and at most a full bucket.
LEMMA ObservePreserves ==
    ASSUME LimitInv, NEW c \in Clients, ObserveFromNow(c)
    PROVE  LimitInv'
<1>1. LimitTypeOK' /\ ClockOK' /\ RefillPaid' /\ NoStarvation'
    BY DEF LimitInv, LimitTypeOK, Time, ClockOK, RefillPaid, NoStarvation, ObserveFromNow, buckets
<1>2. \A x \in Clients : Available(x)' = Available(x) /\ Available(x) \in 0..MaxTokens
    BY AvailableInRange DEF LimitInv, ObserveFromNow, buckets, Available, Capped, UInt
<1>3. Budget'
    BY <1>2, RateLimitAssumption DEF LimitInv, LimitTypeOK, Time, Budget, ObserveFromNow
<1>. QED  BY <1>1, <1>3 DEF LimitInv

\* Every step preserves the invariant.
LEMMA LimitNextInv == LimitInv /\ [LimitNext]_limitVars => LimitInv'
<1>. SUFFICES ASSUME LimitInv, [LimitNext]_limitVars PROVE LimitInv'
    OBVIOUS
<1>1. CASE \E c \in Clients : rl_check(c)
    BY <1>1, CheckPreserves
<1>2. CASE \E c \in Clients : ObserveFromNow(c)
    BY <1>2, ObservePreserves
<1>3. CASE Tick
    BY <1>3, TickPreserves
<1>4. CASE ClockStepBack
    BY <1>4, StepBackPreserves
<1>5. CASE UNCHANGED limitVars
    BY <1>5 DEF limitVars, buckets, window, LimitInv, LimitTypeOK, ClockOK, Budget, RefillPaid,
                NoStarvation, Available, Capped, UInt
<1>. QED  BY <1>1, <1>2, <1>3, <1>4, <1>5 DEF LimitNext

\* Budget grants MaxTokens plus the seconds of the window; what is available is
\* never negative, so what was let through alone is within the grant.
LEMMA IInvGivesWindowBound == LimitInv => WindowBound
<1>. SUFFICES ASSUME LimitInv, NEW c \in Clients, steady[c]
              PROVE  winCount[c] <= MaxTokens + (now - winStart[c])
    BY DEF WindowBound
<1>1. Available(c) \in 0..MaxTokens
    BY AvailableInRange DEF LimitInv
<1>. QED  BY <1>1, RateLimitAssumption DEF LimitInv, LimitTypeOK, Time, Budget

-----------------------------------------------------------------------------
\* The inductive invariant of rl_check holds in every reachable state.
THEOREM LimitInvariance == LimitSpec => []LimitInv
BY LimitInitInv, LimitNextInv, PTL DEF LimitSpec

\* Over any window without a clock set back a client gets at most a full bucket
\* and one query per second through rl_check.
THEOREM WindowBoundHolds == LimitSpec => []WindowBound
BY LimitInvariance, IInvGivesWindowBound, PTL

\* While the clock moves forward rl_check starves no client that waits a second.
THEOREM NoStarvationHolds == LimitSpec => []NoStarvation
<1>1. LimitInv => NoStarvation
    BY DEF LimitInv
<1>. QED  BY <1>1, LimitInvariance, PTL
=============================================================================
