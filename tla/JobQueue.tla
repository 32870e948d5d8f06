------------------------------ MODULE JobQueue ------------------------------
(***************************************************************************)
(* The UDP front end of src/src/main.c: the receive loop of main, the ring *)
(* of jobs, the pool of workers and the shutdown of the signal handler.    *)
(*                                                                         *)
(* job_mutex covers every access of the ring, so taking the lock, the      *)
(* access and the unlock are one step, with one exception: a worker that   *)
(* has decided to wait still holds job_mutex (pc "prewait") until          *)
(* pthread_cond_wait has put it to sleep.  cleanup uses g_running and      *)
(* job_cond without job_mutex, so its steps can fall in between.           *)
(*                                                                         *)
(* process_dns_query is the state "busy": what it does is in the other     *)
(* modules.  It is assumed to return.                                      *)
(***************************************************************************)
EXTENDS Integers, Sequences, FiniteSets

CONSTANTS
    Workers,     \* the worker threads (NUM_WORKERS)
    Main,        \* the main thread
    NoThread,    \* nobody: job_mutex is free, no handler runs
    Size,        \* JOB_QUEUE_SIZE
    MaxPackets   \* bound: packets received

ASSUME JobQueueAssumption ==
    /\ Size \in Nat \ {0}
    /\ MaxPackets \in Nat
    /\ IsFiniteSet(Workers)
    /\ Main \notin Workers /\ NoThread \notin Workers /\ Main # NoThread

VARIABLES
    job_queue, job_read, job_write, job_count,
    job_mutex,   \* its owner between two steps
    g_running,
    pc,          \* where each worker is
    phase,       \* progress of cleanup
    handler,     \* the thread the terminating signal interrupted
    arrived,     \* history: packets of at least 12 bytes received
    started      \* history: packets given to workers, in order

ring == <<job_queue, job_read, job_write, job_count>>
vars == <<ring, job_mutex, g_running, pc, phase, handler, arrived, started>>

Packets == 1..MaxPackets
Slots   == 0..(Size - 1)

TypeOK ==
    /\ job_queue \in [Slots -> 0..MaxPackets]
    /\ job_read \in Slots /\ job_write \in Slots /\ job_count \in 0..Size
    /\ job_mutex \in Workers \cup {Main, NoThread}
    /\ g_running \in BOOLEAN
    /\ pc \in [Workers -> {"idle", "prewait", "waiting", "busy", "exited"}]
    /\ phase \in {"up", "flagged", "woken", "destroyed", "exited"}
    /\ handler \in Workers \cup {Main, NoThread}
    /\ arrived \in 0..MaxPackets
    /\ started \in Seq(Packets)

Init ==
    /\ job_queue = [i \in Slots |-> 0]
    /\ job_read = 0 /\ job_write = 0 /\ job_count = 0
    /\ job_mutex = NoThread
    /\ g_running = TRUE
    /\ pc = [w \in Workers |-> "idle"]
    /\ phase = "up"
    /\ handler = NoThread
    /\ arrived = 0
    /\ started = << >>

\* A thread runs until the process exits or a signal handler takes it over.
Runs(t) == phase # "exited" /\ handler # t

\* The workers asleep on job_cond, and those about to look at the ring.
Waiting == {w \in Workers : pc[w] = "waiting"}
Idle    == {w \in Workers : pc[w] = "idle"}

-----------------------------------------------------------------------------
(* worker_thread                                                           *)

\* Lines 57-70 with a job in the ring: the worker takes it and unlocks.
worker_take(w) ==
    /\ Runs(w)
    /\ pc[w] = "idle"
    /\ job_mutex = NoThread
    /\ job_count > 0
    /\ started' = Append(started, job_queue[job_read])
    /\ job_read' = (job_read + 1) % Size
    /\ job_count' = job_count - 1
    /\ pc' = [pc EXCEPT ![w] = "busy"]
    /\ UNCHANGED <<job_queue, job_write, job_mutex, g_running, phase, handler, arrived>>

\* A slip: the worker unlocks before it starts to wait.
worker_prewait_unlocked(w) ==
    /\ Runs(w)
    /\ pc[w] = "idle"
    /\ job_mutex = NoThread
    /\ job_count = 0 /\ g_running
    /\ pc' = [pc EXCEPT ![w] = "prewait"]
    /\ UNCHANGED <<ring, job_mutex, g_running, phase, handler, arrived, started>>

\* Lines 57-58 with nothing to do: the worker is about to wait, under the lock.
worker_prewait(w) ==
    /\ Runs(w)
    /\ pc[w] = "idle"
    /\ job_mutex = NoThread
    /\ job_count = 0 /\ g_running
    /\ job_mutex' = w
    /\ pc' = [pc EXCEPT ![w] = "prewait"]
    /\ UNCHANGED <<ring, g_running, phase, handler, arrived, started>>

\* pthread_cond_wait: asleep and unlocked in one step.
worker_wait(w) ==
    /\ Runs(w)
    /\ pc[w] = "prewait"
    /\ job_mutex' = NoThread
    /\ pc' = [pc EXCEPT ![w] = "waiting"]
    /\ UNCHANGED <<ring, g_running, phase, handler, arrived, started>>

\* pthread_cond_wait may return without a signal.
worker_spurious_wakeup(w) ==
    /\ Runs(w)
    /\ pc[w] = "waiting"
    /\ pc' = [pc EXCEPT ![w] = "idle"]
    /\ UNCHANGED <<ring, job_mutex, g_running, phase, handler, arrived, started>>

\* Lines 61-64: told to stop, and nothing left to do.
worker_exit(w) ==
    /\ Runs(w)
    /\ pc[w] = "idle"
    /\ job_mutex = NoThread
    /\ job_count = 0 /\ ~g_running
    /\ pc' = [pc EXCEPT ![w] = "exited"]
    /\ UNCHANGED <<ring, job_mutex, g_running, phase, handler, arrived, started>>

\* process_dns_query has returned.
worker_done(w) ==
    /\ Runs(w)
    /\ pc[w] = "busy"
    /\ pc' = [pc EXCEPT ![w] = "idle"]
    /\ UNCHANGED <<ring, job_mutex, g_running, phase, handler, arrived, started>>

-----------------------------------------------------------------------------
(* The receive loop of main; a packet of less than 12 bytes changes        *)
(* nothing.  Once cleanup has closed g_sock nothing is received.           *)

Receive ==
    /\ Runs(Main)
    /\ phase # "destroyed"
    /\ job_mutex = NoThread
    /\ arrived < MaxPackets
    /\ arrived' = arrived + 1

Wakings == IF Waiting = {} THEN {pc} ELSE {[pc EXCEPT ![w] = "idle"] : w \in Waiting}

\* A slip: the signal is sent only when the ring was empty before.
SignalledOnEmpty == IF job_count = 0 THEN Wakings ELSE {pc}

\* pthread_cond_signal wakes one of the waiting workers, if there is one.
Signalled == Wakings

\* A slip: the ring takes one job more than it has slots.
HasRoomForOneMore == job_count <= Size

HasRoom == job_count < Size

main_enqueue ==
    /\ Receive
    /\ HasRoom
    /\ job_queue' = [job_queue EXCEPT ![job_write] = arrived']
    /\ job_write' = (job_write + 1) % Size
    /\ job_count' = job_count + 1
    /\ pc' \in Signalled
    /\ UNCHANGED <<job_read, job_mutex, g_running, phase, handler, started>>

\* A full ring drops the packet.
main_drop ==
    /\ Receive
    /\ ~HasRoom
    /\ UNCHANGED <<ring, job_mutex, g_running, pc, phase, handler, started>>

-----------------------------------------------------------------------------
(* signal_handler on SIGINT or SIGTERM.  The kernel picks the thread; the  *)
(* handler ends in exit(0), so that thread never returns to its work.  If  *)
(* it is main inside the critical section, job_mutex stays locked.         *)

cleanup_flag(t) ==
    /\ phase = "up"
    /\ handler' = t
    /\ g_running' = FALSE
    /\ phase' = "flagged"
    /\ \/ UNCHANGED job_mutex
       \/ t = Main /\ job_mutex = NoThread /\ job_mutex' = Main
    /\ UNCHANGED <<ring, pc, arrived, started>>

\* pthread_cond_broadcast
cleanup_broadcast ==
    /\ phase = "flagged"
    /\ pc' = [w \in Workers |-> IF w \in Waiting THEN "idle" ELSE pc[w]]
    /\ phase' = "woken"
    /\ UNCHANGED <<ring, job_mutex, g_running, handler, arrived, started>>

\* The destructors and the two close calls.
cleanup_destroy ==
    /\ phase = "woken"
    /\ phase' = "destroyed"
    /\ UNCHANGED <<ring, job_mutex, g_running, pc, handler, arrived, started>>

exit ==
    /\ phase = "destroyed"
    /\ phase' = "exited"
    /\ UNCHANGED <<ring, job_mutex, g_running, pc, handler, arrived, started>>

cleanup ==
    \/ \E t \in Workers \cup {Main} : cleanup_flag(t)
    \/ cleanup_broadcast
    \/ cleanup_destroy
    \/ exit

worker_thread(w) ==
    \/ worker_take(w)
    \/ worker_prewait(w)
    \/ worker_wait(w)
    \/ worker_spurious_wakeup(w)
    \/ worker_exit(w)
    \/ worker_done(w)

Next ==
    \/ \E w \in Workers : worker_thread(w)
    \/ main_enqueue
    \/ main_drop
    \/ cleanup

Spec == Init /\ [][Next]_vars

\* Threads are scheduled, job_mutex is handed on and process_dns_query returns.
\* Nothing is assumed of the network, of signals or of spurious wakeups.
Fairness ==
    \A w \in Workers :
        /\ WF_vars(worker_take(w))
        /\ WF_vars(worker_wait(w))
        /\ WF_vars(worker_done(w))

FairSpec == Spec /\ Fairness

-----------------------------------------------------------------------------
(* Properties.                                                             *)

\* The jobs in the ring, oldest first.
Pending == [i \in 1..job_count |-> job_queue[(job_read + i - 1) % Size]]

\* The ring and its three indexes behave as a bounded queue: what main accepts is
\* started exactly once, in order, and a packet is dropped only when Size jobs wait.
Fifo == INSTANCE BoundedFifo WITH pending <- Pending

RefinesFifo == Fifo!Spec

\* No lost wakeup in service: whenever a worker sleeps, the jobs in the ring are
\* already matched by workers that are awake and on their way to take them (one
\* pthread_cond_signal per job is enough, whatever the workers were doing).
NoLostWakeup ==
    g_running /\ Waiting # {} => job_count <= Cardinality(Idle)

\* Where main writes next, and that the occupied slots hold packets.
RingOK ==
    /\ job_write = (job_read + job_count) % Size
    /\ \A i \in 0..(job_count - 1) : job_queue[(job_read + i) % Size] \in Packets

\* In service, a worker about to wait owns job_mutex and the ring is still empty.
WaitsUnderLock ==
    g_running => \A w \in Workers :
        pc[w] = "prewait" => job_mutex = w /\ job_count = 0

\* The inductive invariant behind NoLostWakeup and RefinesFifo: job_mutex is not
\* released between a worker's look at job_count and its sleep on job_cond.
IInv == TypeOK /\ RingOK /\ WaitsUnderLock /\ NoLostWakeup

\* Every accepted job is given to a worker, unless the firewall is shut down.
AcceptedIsStarted ==
    \A p \in Packets :
        (\E i \in DOMAIN Pending : Pending[i] = p)
            ~> (~g_running \/ \E i \in DOMAIN started : started[i] = p)

\* What cleanup's comment says of its first two lines, "wake up workers so they can
\* exit": when the destructors free the cache, the policy and the other contexts, no
\* other worker sleeps through it, or is still inside process_dns_query.
WorkersLetGo ==
    phase = "destroyed" =>
        \A w \in Workers \ {handler} : pc[w] \in {"idle", "exited"}
=============================================================================
