---------------------------- MODULE ForwarderPool ----------------------------
(***************************************************************************)
(* The persistent TCP connections to the forwarder (DNS_FORWARDER with     *)
(* DNS_FORWARDER_TCP) in src/src/resolver.c: tcp_pool, init_tcp_pool,      *)
(* borrow_tcp_conn, return_tcp_conn and the exchange in resolve_internal,  *)
(* run by all the threads that resolve a query.                            *)
(*                                                                         *)
(* One slot of the pool is used by one thread at a time, under the lock of *)
(* the slot.  A connection is a byte stream: nothing ties an answer to its *)
(* query except its place in the stream (the id is not compared).  The     *)
(* exchange reads a two-byte length, then the body if it fits the buffer.  *)
(* When it does not, or when the body does not come in time, the rest of   *)
(* the body stays in the stream and the connection stays in the pool: the  *)
(* next readers begin in the middle of an answer, take two bytes of it for *)
(* a length, and sooner or later come to a place where an answer begins,   *)
(* which need not be their own.                                            *)
(*                                                                         *)
(* DNS_FORWARDER is taken to be a valid address: with another one          *)
(* init_tcp_pool returns early and every sock is still 0.                  *)
(***************************************************************************)
EXTENDS Integers, Sequences, FiniteSets

CONSTANTS
    Threads,    \* threads that resolve queries
    PoolSize,   \* TCP_POOL_SIZE
    NoThread,   \* a slot's lock is free
    NoAnswer,   \* raw_len is still -1
    Garbage,    \* bytes of some earlier answer
    MaxQueries  \* bound: queries forwarded

Conns   == 0..(PoolSize - 1)
Queries == 1..MaxQueries

ASSUME PoolAssumption ==
    /\ PoolSize \in Nat \ {0} /\ MaxQueries \in Nat
    /\ NoThread \notin Threads
    /\ NoAnswer \notin Queries /\ Garbage \notin Queries

VARIABLES
    pool_initialised,
    open,    \* open[c]: tcp_pool[c].sock >= 0
    lock,    \* lock[c]: the owner of tcp_pool[c].lock
    pc, at,  \* where thread t is, and its index i into the pool
    question,   \* question[t]: the query it forwards
    got,     \* got[t]: what it has read into raw
    asked,   \* asked[c]: queries the forwarder has not answered
    stream,  \* stream[c]: answers on their way back, or a part of them
    torn,    \* torn[c]: the next byte to read is in the middle of the first of them
    spoilt,  \* history: the rest of an answer was left since c was connected
    shut,    \* shut[c]: the forwarder has ended the connection
    up,      \* the forwarder accepts connections
    alive,   \* the process has not been killed
    taken    \* history: the number of queries forwarded

threadVars    == <<pc, at, question, got>>
wireVars      == <<asked, stream, torn, spoilt, shut>>
poolVars      == <<pool_initialised, open, lock>>
forwarderVars == <<poolVars, threadVars, wireVars, up, alive, taken>>

Answer == [query : Queries, size : {"empty", "fits", "large"}]

PoolTypeOK ==
    /\ pool_initialised \in BOOLEAN /\ up \in BOOLEAN /\ alive \in BOOLEAN
    /\ open \in [Conns -> BOOLEAN]
    /\ lock \in [Conns -> Threads \cup {NoThread}]
    /\ pc \in [Threads -> {"idle", "init", "scan", "connect", "send", "recv", "give"}]
    /\ at \in [Threads -> Conns]
    /\ question \in [Threads -> Queries \cup {0}]
    /\ got \in [Threads -> Queries \cup {NoAnswer, Garbage}]
    /\ asked \in [Conns -> SUBSET Queries]
    /\ stream \in [Conns -> Seq(Answer)]
    /\ torn \in [Conns -> BOOLEAN] /\ spoilt \in [Conns -> BOOLEAN] /\ shut \in [Conns -> BOOLEAN]
    /\ taken \in 0..MaxQueries

PoolInit ==
    /\ pool_initialised = FALSE
    /\ open = [c \in Conns |-> FALSE]
    /\ lock = [c \in Conns |-> NoThread]
    /\ pc = [t \in Threads |-> "idle"]
    /\ at = [t \in Threads |-> 0]
    /\ question = [t \in Threads |-> 0]
    /\ got = [t \in Threads |-> NoAnswer]
    /\ asked = [c \in Conns |-> {}]
    /\ stream = [c \in Conns |-> << >>]
    /\ torn = [c \in Conns |-> FALSE]
    /\ spoilt = [c \in Conns |-> FALSE]
    /\ shut = [c \in Conns |-> FALSE]
    /\ up \in BOOLEAN
    /\ alive = TRUE
    /\ taken = 0

At(t, label)   == alive /\ pc[t] = label
Goto(t, label) == pc' = [pc EXCEPT ![t] = label]

-----------------------------------------------------------------------------
(* A query is forwarded: pool_initialised is read without pool_lock.       *)

forward(t) ==
    /\ At(t, "idle")
    /\ taken < MaxQueries
    /\ taken' = taken + 1
    /\ question' = [question EXCEPT ![t] = taken']
    /\ at' = [at EXCEPT ![t] = 0]
    /\ Goto(t, IF pool_initialised THEN "scan" ELSE "init")
    /\ UNCHANGED <<poolVars, got, wireVars, up, alive>>

\* A slip: pool_initialised is not read again under pool_lock.
init_tcp_pool_unchecked(t) ==
    /\ At(t, "init")
    /\ pool_initialised' = TRUE
    /\ lock' = [c \in Conns |-> NoThread]
    /\ open' \in [Conns -> BOOLEAN]
    /\ ~up => open' = [c \in Conns |-> FALSE]
    /\ Goto(t, "scan")
    /\ UNCHANGED <<at, question, got, wireVars, up, alive, taken>>

\* init_tcp_pool, under pool_lock: the first thread connects the slots, some of
\* which may fail; a thread that waited for the lock finds the pool initialised.
init_tcp_pool(t) ==
    /\ At(t, "init")
    /\ pool_initialised' = TRUE
    /\ \/ pool_initialised /\ UNCHANGED <<open, lock>>
       \/ /\ ~pool_initialised
          /\ lock' = [c \in Conns |-> NoThread]
          /\ open' \in [Conns -> BOOLEAN]
          /\ ~up => open' = [c \in Conns |-> FALSE]
    /\ Goto(t, "scan")
    /\ UNCHANGED <<at, question, got, wireVars, up, alive, taken>>

-----------------------------------------------------------------------------
(* borrow_tcp_conn: the slots are tried in turn, for ever.                 *)

\* The next slot; after the last one the thread sleeps for a millisecond.
NextSlot(c) == (c + 1) % PoolSize

\* pthread_mutex_trylock fails.
borrow_busy(t) ==
    /\ At(t, "scan")
    /\ lock[at[t]] # NoThread
    /\ at' = [at EXCEPT ![t] = NextSlot(@)]
    /\ UNCHANGED <<poolVars, pc, question, got, wireVars, up, alive, taken>>

\* pthread_mutex_trylock succeeds; the socket is usable as far as sock tells.
borrow_lock(t) ==
    /\ At(t, "scan")
    /\ lock[at[t]] = NoThread
    /\ lock' = [lock EXCEPT ![at[t]] = t]
    /\ Goto(t, IF open[at[t]] THEN "send" ELSE "connect")
    /\ UNCHANGED <<pool_initialised, open, at, question, got, wireVars, up, alive, taken>>

borrow_connect(t) ==
    /\ At(t, "connect")
    /\ up
    /\ open' = [open EXCEPT ![at[t]] = TRUE]
    /\ shut' = [shut EXCEPT ![at[t]] = FALSE]
    /\ Goto(t, "send")
    /\ UNCHANGED <<pool_initialised, lock, at, question, got, asked, stream, torn, spoilt, up, alive, taken>>

\* A slip: the slot is not unlocked when the connection cannot be made.
borrow_connect_fail_locked(t) ==
    /\ At(t, "connect")
    /\ ~up
    /\ at' = [at EXCEPT ![t] = NextSlot(@)]
    /\ Goto(t, "scan")
    /\ UNCHANGED <<poolVars, question, got, wireVars, up, alive, taken>>

borrow_connect_fail(t) ==
    /\ At(t, "connect")
    /\ ~up
    /\ lock' = [lock EXCEPT ![at[t]] = NoThread]
    /\ at' = [at EXCEPT ![t] = NextSlot(@)]
    /\ Goto(t, "scan")
    /\ UNCHANGED <<pool_initialised, open, question, got, wireVars, up, alive, taken>>

-----------------------------------------------------------------------------
(* The exchange.                                                           *)

exchange_send(t) ==
    /\ At(t, "send")
    /\ asked' = [asked EXCEPT ![at[t]] =
                    IF shut[at[t]] THEN @ ELSE @ \cup {question[t]}]
    /\ Goto(t, "recv")
    /\ UNCHANGED <<poolVars, at, question, got, stream, torn, spoilt, shut, up, alive, taken>>

\* The first send makes a forwarder that has left reset the connection.  If that is
\* known by the second one, SIGPIPE, which nothing catches, ends the process.
exchange_sigpipe(t) ==
    /\ At(t, "send")
    /\ shut[at[t]]
    /\ alive' = FALSE
    /\ UNCHANGED <<poolVars, threadVars, wireVars, up, taken>>

\* A slip: the connection is kept when the length does not come.
exchange_fail_kept(t) ==
    /\ At(t, "send") \/ At(t, "recv")
    /\ Goto(t, "give")
    /\ UNCHANGED <<poolVars, at, question, got, wireVars, up, alive, taken>>

\* A send fails, or the length does not come: timeout, end or reset.  The socket is
\* closed, and all that was under way is gone.
exchange_fail(t) ==
    /\ At(t, "send") \/ At(t, "recv")
    /\ open' = [open EXCEPT ![at[t]] = FALSE]
    /\ asked' = [asked EXCEPT ![at[t]] = {}]
    /\ stream' = [stream EXCEPT ![at[t]] = << >>]
    /\ torn' = [torn EXCEPT ![at[t]] = FALSE]
    /\ spoilt' = [spoilt EXCEPT ![at[t]] = FALSE]
    /\ Goto(t, "give")
    /\ UNCHANGED <<pool_initialised, lock, at, question, got, shut, up, alive, taken>>

\* A length has come, of an answer that starts where this thread reads.
Length(t) == At(t, "recv") /\ ~torn[at[t]] /\ stream[at[t]] # << >>

recv_body(t) ==
    /\ Length(t)
    /\ Head(stream[at[t]]).size = "fits"
    /\ got' = [got EXCEPT ![t] = Head(stream[at[t]]).query]
    /\ stream' = [stream EXCEPT ![at[t]] = Tail(@)]
    /\ Goto(t, "give")
    /\ UNCHANGED <<poolVars, at, question, asked, torn, spoilt, shut, up, alive, taken>>

\* rlen = 0: there is nothing to read.
recv_empty(t) ==
    /\ Length(t)
    /\ Head(stream[at[t]]).size = "empty"
    /\ stream' = [stream EXCEPT ![at[t]] = Tail(@)]
    /\ Goto(t, "give")
    /\ UNCHANGED <<poolVars, at, question, got, asked, torn, spoilt, shut, up, alive, taken>>

\* The body is too large, or not all of it comes in time: the rest is left.
recv_unread(t) ==
    /\ Length(t)
    /\ Head(stream[at[t]]).size # "empty"
    /\ torn' = [torn EXCEPT ![at[t]] = TRUE]
    /\ spoilt' = [spoilt EXCEPT ![at[t]] = TRUE]
    /\ Goto(t, "give")
    /\ UNCHANGED <<poolVars, at, question, got, asked, stream, shut, up, alive, taken>>

\* Two bytes from the middle of an answer are taken for a length, and as many bytes as
\* they say, or as come in time, for a body: none, a part of what is in the stream, or
\* all of it.  The next reader begins in the middle of an answer again, or where one
\* begins or would begin.
recv_torn(t) ==
    /\ At(t, "recv")
    /\ torn[at[t]]
    /\ \E g \in {NoAnswer, Garbage} : got' = [got EXCEPT ![t] = g]
    /\ \E n \in 0..Len(stream[at[t]]), inside \in BOOLEAN :
          /\ IF inside THEN n < Len(stream[at[t]]) ELSE n > 0
          /\ stream' = [stream EXCEPT ![at[t]] = SubSeq(@, n + 1, Len(@))]
          /\ torn' = [torn EXCEPT ![at[t]] = inside]
    /\ Goto(t, "give")
    /\ UNCHANGED <<poolVars, at, question, asked, spoilt, shut, up, alive, taken>>

return_tcp_conn(t) ==
    /\ At(t, "give")
    /\ lock' = [lock EXCEPT ![at[t]] = NoThread]
    /\ question' = [question EXCEPT ![t] = 0]
    /\ got' = [got EXCEPT ![t] = NoAnswer]
    /\ Goto(t, "idle")
    /\ UNCHANGED <<pool_initialised, open, at, wireVars, up, alive, taken>>

-----------------------------------------------------------------------------
(* The forwarder answers a query once, and several queries in any order.   *)

ForwarderReplies(c) ==
    /\ alive /\ up /\ ~shut[c]
    /\ \E q \in asked[c], size \in {"empty", "fits", "large"} :
          /\ stream' = [stream EXCEPT ![c] = Append(@, [query |-> q, size |-> size])]
          /\ asked' = [asked EXCEPT ![c] = @ \ {q}]
    /\ UNCHANGED <<poolVars, threadVars, torn, spoilt, shut, up, alive, taken>>

\* It ends a connection, for instance one that was idle for too long.
Shut(c) ==
    /\ alive /\ open[c] /\ ~shut[c]
    /\ shut' = [shut EXCEPT ![c] = TRUE]
    /\ UNCHANGED <<poolVars, threadVars, asked, stream, torn, spoilt, up, alive, taken>>

UpOrDown ==
    /\ alive
    /\ up' = ~up
    /\ UNCHANGED <<poolVars, threadVars, wireVars, alive, taken>>

-----------------------------------------------------------------------------

exchange(t) ==
    \/ init_tcp_pool(t)
    \/ borrow_busy(t) \/ borrow_lock(t) \/ borrow_connect(t) \/ borrow_connect_fail(t)
    \/ exchange_send(t) \/ exchange_sigpipe(t) \/ exchange_fail(t)
    \/ recv_body(t) \/ recv_empty(t) \/ recv_unread(t) \/ recv_torn(t)
    \/ return_tcp_conn(t)

PoolNext ==
    \/ \E t \in Threads : forward(t) \/ exchange(t)
    \/ \E c \in Conns : ForwarderReplies(c) \/ Shut(c)
    \/ UpOrDown

PoolSpec == PoolInit /\ [][PoolNext]_forwarderVars

\* Threads are scheduled, and SO_RCVTIMEO and SO_SNDTIMEO end every wait for the
\* forwarder.  Nothing is assumed of the forwarder itself.
PoolFairSpec == PoolSpec /\ \A t \in Threads : WF_forwarderVars(exchange(t))

-----------------------------------------------------------------------------
(* Properties.                                                             *)

\* The locks of the slots match what the threads do, on every path through the
\* exchange and however the initialisation races: a thread that works on a slot
\* holds its lock, and no lock is kept by a thread that has left the slot.
LockedWhileUsed ==
    \A t \in Threads, c \in Conns :
        lock[c] = t <=> at[t] = c /\ pc[t] \in {"connect", "send", "recv", "give"}

\* Answers cross over only on a connection where the rest of an answer was left: although
\* the id is not compared, a whole answer that a thread reads from any other connection
\* belongs to its own query, because a connection whose length did not come in time
\* leaves the pool.  (On a spoilt one a reader can find the answer to an earlier query.)
NoLateAnswer ==
    \A t \in Threads : got[t] \in Queries => got[t] = question[t] \/ spoilt[at[t]]

\* Nothing is under way in connection c, or the exchange of a thread that waits for
\* it: the query is out, or its answer is on the way back.
OwnStream(c) ==
    \/ spoilt[c]
    \/ asked[c] = {} /\ stream[c] = << >>
    \/ \E t \in Threads :
          /\ pc[t] = "recv" /\ at[t] = c
          /\ \/ asked[c] = {question[t]} /\ stream[c] = << >>
             \/ /\ asked[c] = {}
                /\ \E a \in Answer : a.query = question[t] /\ stream[c] = <<a>>

StreamIsOwn == \A c \in Conns : OwnStream(c)

\* No slot is used before the pool is ready, and threads exchange on open ones; what is
\* said of a connection ends with it.
SlotsReady ==
    /\ ~pool_initialised => /\ \A t \in Threads : pc[t] \in {"idle", "init"}
                            /\ \A c \in Conns : ~open[c]
    /\ \A t \in Threads : pc[t] \in {"send", "recv"} => open[at[t]]
    /\ \A c \in Conns : (torn[c] => spoilt[c]) /\ (spoilt[c] => open[c])

\* A busy thread has a query, and no thread an answer before its exchange ends.
NothingYet ==
    \A t \in Threads : /\ pc[t] # "idle" => question[t] \in Queries
                       /\ pc[t] # "give" => got[t] = NoAnswer

\* The inductive invariant behind NoLateAnswer and LockedWhileUsed.
PoolInv ==
    /\ PoolTypeOK
    /\ LockedWhileUsed
    /\ SlotsReady
    /\ StreamIsOwn
    /\ NothingYet
    /\ NoLateAnswer

\* No query of a burst waits for a slot for ever: once the forwarder stays up, every
\* borrower gets a slot and every exchange ends, unless SIGPIPE ends the process.
BurstEnds ==
    <>[]up => \A t \in Threads : pc[t] # "idle" ~> (pc[t] = "idle" \/ ~alive)
=============================================================================
