----------------------------- MODULE RateLimit -----------------------------
(***************************************************************************)
(* The per-client token bucket of src/src/rate_limit.c.                    *)
(*                                                                         *)
(* rl_check runs under ctx->lock from its first to its last access of the  *)
(* bucket, so one call is one step.  The hash table with chains is a map   *)
(* from client addresses to buckets: a chain is searched for an equal      *)
(* address, so two clients never share a bucket.                           *)
(*                                                                         *)
(* The clock is time(NULL), the wall clock in seconds.  It normally moves  *)
(* forward; ClockStepBack is an administrator or NTP setting it back.      *)
(***************************************************************************)
EXTENDS Integers

CONSTANTS
    Clients,    \* client addresses
    MaxTokens,  \* max_queries_per_sec of rl_create (20 in main.c)
    UIntMod,    \* 2^w, w the width of unsigned int
    MaxTime,    \* bound: the last second modelled
    MaxOffered  \* bound: queries a client sends within one clock second

ASSUME RateLimitAssumption ==
    /\ MaxTokens \in Nat \ {0}
    /\ MaxTime \in Nat
    /\ MaxOffered \in Nat
    /\ UIntMod \in Nat
    /\ MaxTime + MaxTokens < UIntMod

VARIABLES
    now,          \* time(NULL)
    known,        \* clients that have a bucket
    last_refill,  \* bucket field: time of the last refill
    tokens,       \* bucket field: tokens left
    forward,      \* history: the clock was never set back
    winStart,     \* history: start of the observed window of each client
    winCount,     \* history: queries let through since winStart
    steady,       \* history: no clock set back, no failed malloc since winStart
    lastPass,     \* history: time of the last query let through, -1 if none
    offered,      \* history: queries offered in the current second
    verdict       \* history: result of the latest check of this second

buckets   == <<known, last_refill, tokens>>
window    == <<winStart, winCount, steady>>
limitVars == <<now, buckets, forward, window, lastPass, offered, verdict>>

Time == 0..MaxTime

LimitTypeOK ==
    /\ now \in Time
    /\ known \subseteq Clients
    /\ last_refill \in [Clients -> Time]
    /\ tokens \in [Clients -> 0..MaxTokens]
    /\ forward \in BOOLEAN
    /\ winStart \in [Clients -> Time]
    /\ winCount \in [Clients -> Nat]
    /\ steady \in [Clients -> BOOLEAN]
    /\ lastPass \in [Clients -> Time \cup {-1}]
    /\ offered \in [Clients -> 0..MaxOffered]
    /\ verdict \in [Clients -> {"none", "pass", "drop"}]

\* rl_create: every chain of the table is empty.
LimitInit ==
    /\ now = 0
    /\ known = {}
    /\ last_refill = [c \in Clients |-> 0]
    /\ tokens = [c \in Clients |-> 0]
    /\ forward = TRUE
    /\ winStart = [c \in Clients |-> 0]
    /\ winCount = [c \in Clients |-> 0]
    /\ steady = [c \in Clients |-> TRUE]
    /\ lastPass = [c \in Clients |-> -1]
    /\ offered = [c \in Clients |-> 0]
    /\ verdict = [c \in Clients |-> "none"]

-----------------------------------------------------------------------------
(* The arithmetic of rl_check.                                             *)

\* unsigned int arithmetic
UInt(n) == n % UIntMod

Capped(n) == IF n > MaxTokens THEN MaxTokens ELSE n

\* (unsigned int)(now - b->last_refill)
Elapsed(c) == UInt(now - last_refill[c])

\* Slips in the refill: a token too many, half the time forgotten, a bucket filled at once.
RefilledExtra(c) ==
    IF Elapsed(c) = 0 THEN tokens[c] ELSE Capped(UInt(tokens[c] + Elapsed(c) + 1))

RefilledLate(c) ==
    IF Elapsed(c) = 0 THEN tokens[c] ELSE Capped(UInt(tokens[c] + (Elapsed(c) \div 2)))

RefilledToMax(c) == IF Elapsed(c) = 0 THEN tokens[c] ELSE MaxTokens

\* The tokens after the refill: the sum wraps before the cap is applied.
Refilled(c) ==
    IF Elapsed(c) = 0 THEN tokens[c] ELSE Capped(UInt(tokens[c] + Elapsed(c)))

-----------------------------------------------------------------------------
(* What a query let through, or dropped, adds to the history.              *)

Offer(c) ==
    /\ offered[c] < MaxOffered
    /\ offered' = [offered EXCEPT ![c] = @ + 1]

Passed(c) ==
    /\ verdict' = [verdict EXCEPT ![c] = "pass"]
    /\ winCount' = [winCount EXCEPT ![c] = @ + 1]
    /\ lastPass' = [lastPass EXCEPT ![c] = now]

Dropped(c) ==
    /\ verdict' = [verdict EXCEPT ![c] = "drop"]
    /\ UNCHANGED <<winCount, lastPass>>

(* The paths through rl_check.                                             *)

\* No bucket yet: it is created and the query pays for itself.
rl_check_new(c) ==
    /\ c \notin known
    /\ known' = known \cup {c}
    /\ last_refill' = [last_refill EXCEPT ![c] = now]
    /\ tokens' = [tokens EXCEPT ![c] = MaxTokens - 1]
    /\ Passed(c)
    /\ UNCHANGED steady

\* No bucket yet and malloc fails: the query passes and is not accounted.
rl_check_nomem(c) ==
    /\ c \notin known
    /\ Passed(c)
    /\ steady' = [steady EXCEPT ![c] = FALSE]
    /\ UNCHANGED buckets

\* A bucket with a token left after the refill.
rl_check_pass(c) ==
    /\ c \in known
    /\ Refilled(c) > 0
    /\ tokens' = [tokens EXCEPT ![c] = Refilled(c) - 1]
    /\ last_refill' = [last_refill EXCEPT ![c] = now]
    /\ Passed(c)
    /\ UNCHANGED <<known, steady>>

\* An empty bucket: the packet is dropped.
rl_check_drop(c) ==
    /\ c \in known
    /\ Refilled(c) = 0
    /\ tokens' = [tokens EXCEPT ![c] = 0]
    /\ last_refill' = [last_refill EXCEPT ![c] = now]
    /\ Dropped(c)
    /\ UNCHANGED <<known, steady>>

rl_check(c) ==
    /\ Offer(c)
    /\ \/ rl_check_new(c)
       \/ rl_check_nomem(c)
       \/ rl_check_pass(c)
       \/ rl_check_drop(c)
    /\ UNCHANGED <<now, forward, winStart>>

-----------------------------------------------------------------------------
(* The clock, and an observer that may start counting at any moment: what  *)
(* holds for its window holds for every window.                            *)

NewSecond ==
    /\ offered' = [c \in Clients |-> 0]
    /\ verdict' = [c \in Clients |-> "none"]
    /\ UNCHANGED <<buckets, winStart, winCount, lastPass>>

Tick ==
    /\ now < MaxTime
    /\ now' = now + 1
    /\ NewSecond
    /\ UNCHANGED <<forward, steady>>

\* The clock is set back, at most once (a bound).
ClockStepBack ==
    /\ forward
    /\ now' \in 0..(now - 1)
    /\ forward' = FALSE
    /\ steady' = [c \in Clients |-> FALSE]
    /\ NewSecond

ObserveFromNow(c) ==
    /\ winStart' = [winStart EXCEPT ![c] = now]
    /\ winCount' = [winCount EXCEPT ![c] = 0]
    /\ steady' = [steady EXCEPT ![c] = TRUE]
    /\ UNCHANGED <<now, buckets, forward, lastPass, offered, verdict>>

LimitNext ==
    \/ \E c \in Clients : rl_check(c) \/ ObserveFromNow(c)
    \/ Tick
    \/ ClockStepBack

LimitSpec == LimitInit /\ [][LimitNext]_limitVars

-----------------------------------------------------------------------------
(* Properties.                                                             *)

\* Conformance of the bucket: over every window of s seconds in which the clock
\* is not set back, a client gets at most MaxTokens + s queries through, however
\* it spreads them, even when its bucket carries a timestamp from before a
\* clock set back (rl_check's wrapping refill, cap and payment together).
WindowBound ==
    \A c \in Clients :
        steady[c] => winCount[c] <= MaxTokens + (now - winStart[c])

\* While the clock only moves forward, rl_check drops a client only in a second
\* in which one of its queries was let through: a client that spaces its queries
\* a second apart is never starved.
NoStarvation ==
    forward => \A c \in Clients : verdict[c] = "drop" => lastPass[c] = now

-----------------------------------------------------------------------------
(* The inductive invariant behind WindowBound and NoStarvation.            *)

\* The tokens client c would find if it sent a query now.
Available(c) ==
    IF c \in known THEN Capped(UInt(tokens[c] + (now - last_refill[c])))
                   ELSE MaxTokens

ClockOK ==
    forward => \A c \in Clients : last_refill[c] <= now /\ lastPass[c] <= now

\* What was let through and what is still available never exceed the grant.
Budget ==
    \A c \in Clients : steady[c] =>
        /\ winStart[c] <= now
        /\ winCount[c] + Available(c) <= MaxTokens + (now - winStart[c])

\* A refill is always followed by a payment in the same second.
RefillPaid ==
    forward => \A c \in known : last_refill[c] <= lastPass[c]

\* The induction hypothesis of both properties: rl_check's bucket, with what
\* its refill would add, never promises more than the window may still use.
LimitInv == LimitTypeOK /\ ClockOK /\ Budget /\ RefillPaid /\ NoStarvation
=============================================================================
