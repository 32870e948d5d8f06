------------------------------ MODULE Resolver ------------------------------
(***************************************************************************)
(* resolve_internal of src/src/resolver.c: its recursion over referrals    *)
(* and aliases (CNAME), the UDP exchanges of send_query, the static        *)
(* forwarders, the UDP forwarder, and the messages dns_parse_message       *)
(* allocates.  One thread resolves; other threads are seen through the     *)
(* cache only, where answers may come and go at any time.  The exchange    *)
(* with a TCP forwarder is in module ForwarderPool; a cached packet that   *)
(* another thread frees while it is parsed is in module Processor.         *)
(*                                                                         *)
(* The stack has one frame per active call.  A list of name servers is its *)
(* length.  A socket is its ephemeral port: an answer that comes after the *)
(* wait has ended stays under way to that port, and the next socket may    *)
(* get the same port.  Anybody may send a datagram to it.                  *)
(***************************************************************************)
EXTENDS Integers, Sequences, FiniteSets

CONSTANTS
    Names,          \* names asked for
    NoName,
    StaticNames,    \* the names of static_forwarders
    Modes,          \* "iterative", "forwarder": whether DNS_FORWARDER is set
    MaxServers,     \* bound: the servers of a list with glue, root hints included
    MAX_RECURSION_DEPTH,
    Ports,          \* ephemeral ports
    NoMsg

ASSUME ResolverAssumption ==
    /\ NoName \notin Names /\ StaticNames \subseteq Names
    /\ Modes \subseteq {"iterative", "forwarder"}
    /\ MaxServers \in Nat \ {0} /\ MAX_RECURSION_DEPTH \in Nat
    /\ NoMsg \notin Nat

VARIABLES
    mode,     \* the environment of the process
    stack,    \* active calls of resolve_internal, the outermost first
    ret,      \* what the innermost call has just returned
    heap,     \* parsed messages
    cached,   \* for each name, the question its cached answer belongs to
    port,     \* the port of the socket waited on
    late,     \* answers under way to a port nobody waits on
    query,    \* the name resolver_resolve was called for
    sent,     \* history: questions sent for this query
    kept,     \* history: an answer for this query was seen in the cache or stored
    excuse,   \* history: what else happened, "alias", "zero_ttl" or "full"
    mixed     \* history: names for which a datagram that is not the answer was taken

history == <<sent, kept, excuse, mixed>>
vars    == <<mode, stack, ret, heap, cached, port, late, query, history>>

\* A call holds at most one message, and so does its return value.
Messages == 1..(MAX_RECURSION_DEPTH + 4)
Free     == [what |-> "free", q |-> NoName]
Message  == [what : {"answer", "referral", "negative", "garbled"}, q : Names]

\* Return values: 0, -1 failure, -2 too deep, -3 NXDOMAIN; 1 while nothing returns.
NoReturn == [rc |-> 1, msg |-> NoMsg]

\* A response: its first answer, its name servers (0: none with glue), whether it
\* has an authority section, whether it says NXDOMAIN, and whether its ttl is 0.
Reply == [an : {"none", "data", "alias"}, glue : 0..MaxServers, ns : BOOLEAN,
          nx : BOOLEAN, zero : BOOLEAN]
\* Fields that are not looked at are left at 0 or FALSE.
Replies == {r \in Reply :
    /\ r.an # "none" => r.glue = 0 /\ ~r.ns /\ ~r.nx
    /\ r.an = "none" => ~r.zero
    /\ r.glue > 0 => r.ns /\ ~r.nx}

Frame == [name : Names, depth : 0..(MAX_RECURSION_DEPTH + 1),
          count : 0..MaxServers, i : 1..(MaxServers + 1),
          resp : Messages \cup {NoMsg}, at : {"enter", "ask", "wait", "alias", "referral"}]

\* The questions a call can send, itself and below, if it is entered at a depth.
Worst[d \in 0..(MAX_RECURSION_DEPTH + 1)] ==
    IF d > MAX_RECURSION_DEPTH THEN 0 ELSE MaxServers * (1 + Worst[d + 1])

Excuses == {"alias", "zero_ttl", "full"}

TypeOK ==
    /\ mode \in Modes
    /\ stack \in Seq(Frame)
    /\ ret \in [rc : {1, 0, -1, -2, -3}, msg : Messages \cup {NoMsg}]
    /\ heap \in [Messages -> Message \cup {Free}]
    /\ cached \in [Names -> Names \cup {NoName}]
    /\ port \in Ports \cup {0}
    /\ late \subseteq [port : Ports, q : Names]
    /\ query \in Names \cup {NoName}
    /\ sent \in Nat /\ kept \in BOOLEAN
    /\ excuse \subseteq Excuses /\ mixed \subseteq Names

Init ==
    /\ mode \in Modes
    /\ stack = << >> /\ ret = NoReturn
    /\ heap = [m \in Messages |-> Free]
    /\ cached = [n \in Names |-> NoName]
    /\ port = 0 /\ late = {}
    /\ query = NoName
    /\ sent = 0 /\ kept = FALSE /\ excuse = {} /\ mixed = {}

-----------------------------------------------------------------------------
(* Common parts of the steps.                                              *)

Top    == stack[Len(stack)]
Active == stack # << >> /\ ret = NoReturn
Below  == SubSeq(stack, 1, Len(stack) - 1)

\* The name is asked of one server only, and the answer is taken as it is.
Forwards(f) == f.name \in StaticNames \/ mode = "forwarder"

SetTop(f)       == stack' = Append(Below, f)
Call(f, callee) == stack' = Append(Append(Below, f), callee)
Return(rc, msg) == stack' = Below /\ ret' = [rc |-> rc, msg |-> msg]

Entered(n, depth, count) ==
    [name |-> n, depth |-> depth, count |-> count, i |-> 1, resp |-> NoMsg, at |-> "enter"]

\* Messages some call, or the return value, refers to.
Held == ({stack[i].resp : i \in DOMAIN stack} \cup {ret.msg}) \ {NoMsg}

\* dns_parse_message: a message nobody refers to is a new one, or one that leaked.
Fresh == CHOOSE m \in Messages \ Held : \A k \in Messages \ Held : m <= k

\* A slip: dns_free_message leaves the pointers of the message alone.
FreedKeeps(f) == f

\* dns_free_message frees the arrays and zeroes the message, so that a second call
\* does no harm.
Freed(f) == [f EXCEPT !.resp = NoMsg]

\* A slip: the message is not freed.
HeapStill(f) == heap

HeapWithout(f) == IF f.resp = NoMsg THEN heap ELSE [heap EXCEPT ![f.resp] = Free]

\* The for loop goes on to the next server.
Continue(f) == [f EXCEPT !.i = @ + 1, !.at = "ask"]

\* cache_store when nothing is stored: the ttl is 0, or all the slots hold other names.
Unstored(n, zero) ==
    /\ \/ zero /\ excuse' = excuse \cup {"zero_ttl"}
       \/ ~zero /\ cached[n] = NoName /\ excuse' = excuse \cup {"full"}
    /\ UNCHANGED <<cached, kept>>

\* A slip: the answer is stored for the query, whatever name was asked.
StoreForQuery(n, q, zero) ==
    \/ Unstored(n, zero)
    \/ ~zero /\ cached' = [cached EXCEPT ![query] = q] /\ kept' = TRUE /\ UNCHANGED excuse

\* cache_store.
Store(n, q, zero) ==
    \/ Unstored(n, zero)
    \/ /\ ~zero
       /\ cached' = [cached EXCEPT ![n] = q]
       /\ kept' = (kept \/ n = query)
       /\ UNCHANGED excuse

-----------------------------------------------------------------------------
(* Entering a call.                                                        *)

resolver_resolve(n) ==
    /\ stack = << >> /\ ret = NoReturn /\ query = NoName
    /\ query' = n
    /\ stack' = << Entered(n, 0, MaxServers) >>
    /\ UNCHANGED <<mode, ret, heap, cached, port, late, history>>

\* A slip: one level more.
TooDeepByOne(f) == f.depth > MAX_RECURSION_DEPTH + 1

TooDeep(f) == f.depth > MAX_RECURSION_DEPTH

too_deep ==
    /\ Active /\ Top.at = "enter"
    /\ TooDeep(Top)
    /\ Return(-2, NoMsg)
    /\ UNCHANGED <<mode, heap, cached, port, late, query, history>>

\* A cached answer is parsed and returned.
cache_hit ==
    /\ Active /\ Top.at = "enter" /\ ~TooDeep(Top)
    /\ cached[Top.name] # NoName
    /\ heap' = [heap EXCEPT ![Fresh] = [what |-> "answer", q |-> cached[Top.name]]]
    /\ Return(0, Fresh)
    /\ kept' = (kept \/ Top.name = query)
    /\ UNCHANGED <<mode, cached, port, late, query, sent, excuse, mixed>>

cache_miss ==
    /\ Active /\ Top.at = "enter" /\ ~TooDeep(Top)
    /\ cached[Top.name] = NoName
    /\ SetTop([Top EXCEPT !.at = "ask"])
    /\ UNCHANGED <<mode, ret, heap, cached, port, late, query, history>>

-----------------------------------------------------------------------------
(* send_query: a new socket each time.  socket or sendto may fail, which   *)
(* ends as no_reply does.                                                  *)

send_query(p) ==
    /\ Active /\ Top.at = "ask"
    /\ Forwards(Top) \/ Top.i <= Top.count
    /\ port' = p
    /\ sent' = IF sent > Worst[0] THEN sent ELSE sent + 1
    /\ SetTop([Top EXCEPT !.at = "wait"])
    /\ UNCHANGED <<mode, ret, heap, cached, late, query, kept, excuse, mixed>>

\* The list of servers is exhausted.
give_up ==
    /\ Active /\ Top.at = "ask"
    /\ ~Forwards(Top) /\ Top.i > Top.count
    /\ Return(-1, NoMsg)
    /\ UNCHANGED <<mode, heap, cached, port, late, query, history>>

Waits == Active /\ Top.at = "wait"

\* A slip: the wait goes on until there is an answer.
UnansweredWaits(f) == UNCHANGED <<stack, ret>>

\* Nothing to go on: a forwarder's silence is a failure, else the next server.
Unanswered(f) == IF Forwards(f) THEN Return(-1, NoMsg) ELSE SetTop(Continue(f)) /\ UNCHANGED ret

\* No answer within DNS_TIMEOUT_SEC, or less than a header: it may still come later.
no_reply ==
    /\ Waits
    /\ late' \in {late, late \cup {[port |-> port, q |-> Top.name]}}
    /\ port' = 0
    /\ Unanswered(Top)
    /\ UNCHANGED <<mode, heap, cached, query, history>>

\* What recvfrom returns: the answer; or an answer to an earlier question that was sent
\* from the same port; or a datagram about any name, from another source or from a
\* server that mistakes the question.  Neither source nor id nor question is compared,
\* and the answer itself may then come late.
Received(q) ==
    \/ q = Top.name /\ UNCHANGED <<late, mixed>>
    \/ /\ \E early \in {{}, {[port |-> port, q |-> q]} \cap late},
             own \in {{}, {[port |-> port, q |-> Top.name]}} :
             late' = (late \ early) \cup own
       /\ mixed' = mixed \cup {Top.name}

\* A response that does not parse: what was allocated for it is not freed.
garbled_reply ==
    /\ Waits
    /\ \E q \in Names :
          /\ Received(q)
          /\ heap' = [heap EXCEPT ![Fresh] = [what |-> "garbled", q |-> q]]
    /\ port' = 0
    /\ Unanswered(Top)
    /\ UNCHANGED <<mode, cached, query, sent, kept, excuse>>

\* A response that parses, and what it is.
Parsed(q, what) ==
    /\ Received(q)
    /\ heap' = [heap EXCEPT ![Fresh] = [what |-> what, q |-> q]]
    /\ port' = 0
    /\ UNCHANGED <<mode, query, sent>>

\* A static or a UDP forwarder: any response is stored and returned.  Without answer
\* records it is stored for 300 seconds.
forwarder_reply(q, r) ==
    /\ Waits /\ Forwards(Top)
    /\ Parsed(q, "answer")
    /\ Store(Top.name, q, r.an # "none" /\ r.zero)
    /\ Return(0, Fresh)

\* Answer records, the first of them not an alias that can be read.
answer_reply(q, r) ==
    /\ Waits /\ ~Forwards(Top)
    /\ r.an = "data"
    /\ Parsed(q, "answer")
    /\ Store(Top.name, q, r.zero)
    /\ Return(0, Fresh)

\* An alias: its target is resolved with the same servers.
alias_reply(q, r) ==
    /\ Waits /\ ~Forwards(Top)
    /\ r.an = "alias"
    /\ Parsed(q, "answer")
    /\ \E target \in Names :
          Call([Top EXCEPT !.resp = Fresh, !.at = "alias"],
               Entered(target, Top.depth + 1, Top.count))
    /\ excuse' = excuse \cup {"alias"}
    /\ UNCHANGED <<ret, cached, kept>>

\* A referral with glue: the same name is asked of the new servers.
referral_reply(q, r) ==
    /\ Waits /\ ~Forwards(Top)
    /\ r.an = "none" /\ r.glue > 0
    /\ Parsed(q, "referral")
    /\ Call([Top EXCEPT !.resp = Fresh, !.at = "referral"],
            Entered(Top.name, Top.depth + 1, r.glue))
    /\ UNCHANGED <<ret, cached, kept, excuse>>

\* A slip: a negative answer is returned and not stored.
nxdomain_reply_unstored(q, r) ==
    /\ Waits /\ ~Forwards(Top)
    /\ r.an = "none" /\ ~r.ns /\ r.nx
    /\ Parsed(q, "negative")
    /\ Return(-3, Fresh)
    /\ UNCHANGED <<cached, kept, excuse>>

\* NXDOMAIN, recognised only if there is no authority section at all.
nxdomain_reply(q, r) ==
    /\ Waits /\ ~Forwards(Top)
    /\ r.an = "none" /\ ~r.ns /\ r.nx
    /\ Parsed(q, "negative")
    /\ Store(Top.name, q, FALSE)
    /\ Return(-3, Fresh)

\* Anything else (no glue, an SOA, an empty answer) is freed: next server.
useless_reply(q, r) ==
    /\ Waits /\ ~Forwards(Top)
    /\ r.an = "none" /\ r.glue = 0 /\ (r.ns \/ ~r.nx)
    /\ Received(q)
    /\ port' = 0
    /\ SetTop(Continue(Top))
    /\ UNCHANGED <<mode, ret, heap, cached, query, sent, kept, excuse>>

-----------------------------------------------------------------------------
(* Returning to the caller.  The callee's message was written to a         *)
(* variable of the caller, which hands it on or forgets it.                *)

Returned == stack # << >> /\ ret # NoReturn

alias_return ==
    /\ Returned /\ Top.at = "alias"
    /\ heap' = HeapWithout(Top)
    /\ Return(ret.rc, IF ret.rc < 0 THEN NoMsg ELSE ret.msg)
    /\ UNCHANGED <<mode, cached, port, late, query, history>>

\* 0 and -3 end the loop, -1 and -2 try the next server.  In that case
\* dns_free_message is called a second time.
referral_return ==
    /\ Returned /\ Top.at = "referral"
    /\ heap' = HeapWithout(Top)
    /\ CASE ret.rc = 0  -> Return(0, ret.msg)
         [] ret.rc = -3 -> Return(-3, NoMsg)
         [] OTHER       -> SetTop(Continue(Freed(Top))) /\ ret' = NoReturn
    /\ UNCHANGED <<mode, cached, port, late, query, history>>

\* process_dns_query has used the answer and frees it.
release ==
    /\ stack = << >> /\ ret # NoReturn
    /\ heap' = IF ret.msg = NoMsg THEN heap ELSE [heap EXCEPT ![ret.msg] = Free]
    /\ ret' = NoReturn /\ query' = NoName
    /\ sent' = 0 /\ kept' = FALSE /\ excuse' = {}
    /\ UNCHANGED <<mode, stack, cached, port, late, mixed>>

resolve_internal ==
    \/ too_deep \/ cache_hit \/ cache_miss
    \/ \E p \in Ports : send_query(p)
    \/ give_up \/ no_reply \/ garbled_reply
    \/ \E q \in Names, r \in Replies :
          \/ forwarder_reply(q, r) \/ answer_reply(q, r) \/ alias_reply(q, r)
          \/ referral_reply(q, r) \/ nxdomain_reply(q, r) \/ useless_reply(q, r)
    \/ alias_return \/ referral_return

\* Other threads store answers of their own, wrong ones among them, and answers expire.
other_threads(n) ==
    /\ \E q \in Names \cup {NoName} :
          /\ cached' = [cached EXCEPT ![n] = q]
          /\ mixed' = IF q \in {n, NoName} THEN mixed ELSE mixed \cup {n}
    /\ UNCHANGED <<mode, stack, ret, heap, port, late, query, sent, kept, excuse>>

Next ==
    \/ \E n \in Names : resolver_resolve(n) \/ other_threads(n)
    \/ resolve_internal
    \/ release

Spec == Init /\ [][Next]_vars

\* The thread is scheduled, and SO_RCVTIMEO ends every wait.
FairSpec == Spec /\ WF_vars(resolve_internal)

-----------------------------------------------------------------------------
(* Properties.                                                             *)

\* The work one query can cause: every server of every list, at every depth the
\* limit allows.  The number is exponential in MAX_RECURSION_DEPTH, and is reached.
QueriesBounded == sent <= Worst[0]

\* No call and no return value refers to a message that was freed, nor do two of them
\* to one message: nothing is freed twice, whatever sequence of referrals, aliases
\* and errors the call went through.
NoDangling ==
    /\ TypeOK
    /\ \A m \in Held : heap[m] # Free
    /\ \A i, j \in DOMAIN stack : stack[i].resp = stack[j].resp /\ i # j => stack[i].resp = NoMsg
    /\ \A i \in DOMAIN stack : stack[i].resp = ret.msg => ret.msg = NoMsg

\* What leaks: only a response that does not parse, and an NXDOMAIN that was found
\* below a referral or an alias, whose message the caller forgets.
LeakOnlyNegative ==
    \A m \in Messages \ Held : heap[m].what \in {"free", "negative", "garbled"}

\* What is cached for a name, and what is returned for a query that met no alias, was
\* said of that name, unless a datagram that was not the answer (late, foreign or
\* mistaken) was taken while that very name was asked for: since nothing is compared one
\* such datagram is enough, but it spoils no other name.
AnswersQuestion ==
    /\ \A n \in Names \ mixed : cached[n] \in {n, NoName}
    /\ (stack = << >> /\ ret.rc = 0 /\ "alias" \notin excuse /\ query \notin mixed)
           => heap[ret.msg].q = query

\* process_dns_query looks the answer up again to send it.  After a success, or an
\* NXDOMAIN, it was in the cache under the name of the query, unless an alias was
\* followed (whose answer is stored for the target only), the ttl was 0, or the cache
\* was full of other names.
StoredForSender ==
    stack = << >> /\ ret.rc \in {0, -3} => kept \/ excuse # {}

\* Every call of resolver_resolve returns: aliases and referrals may form loops, servers
\* may stay silent, and late answers may be taken for new ones.
Resolves == stack # << >> ~> stack = << >>
=============================================================================
