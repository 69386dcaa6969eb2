------------------------------ MODULE ArpCache ------------------------------
(***************************************************************************)
(* The ARP cache and ARP request queue of the router (sr_arpcache.c) and   *)
(* every thread that works on it: the receive thread (sr_handlepacket),    *)
(* the LSU threads (send_lsu, sr_handle_pwospf_lsu_packet) and the timeout *)
(* thread (sr_arpcache_timeout).                                           *)
(*                                                                         *)
(* sr_arpcache_lookup, _queuereq, _insert and sr_arpreq_destroy hold the   *)
(* cache's recursive lock, so each is one action; handle_arpreq holds no   *)
(* lock of its own, so what it reads, sends, writes and frees are actions  *)
(* of their own.  A thread's C call stack is `stack[t]', innermost call    *)
(* first: handle_arpreq calls host_unreachable, which calls                *)
(* sr_send_icmp_error_packet, which may call handle_arpreq again.          *)
(***************************************************************************)
EXTENDS Naturals, Sequences, FiniteSets

CONSTANTS
  Hops,           \* next-hop IP addresses
  NoHop,          \* an ARP entry that is not valid
  Transit,        \* packets forwarded for others (receive thread)
  Lsus,           \* LSU packets the router sends itself (LSU threads)
  Errors,         \* ICMP errors the router may send
  NextHop,        \* the route of each packet
  IcmpError,      \* the error a transit packet gives rise to, or NoPacket
  NoPacket,
  Main, Sweeper,  \* receive thread, ARP timeout thread
  Workers,        \* LSU threads
  NoThread,       \* the lock is free
  CacheSize,      \* SR_ARPCACHE_SZ
  CacheTimeout,   \* SR_ARPCACHE_TO
  MaxSends,       \* ARP requests sent for a hop before it is unreachable
  MaxReqs,        \* bound: calls of calloc for a request
  StackLimit      \* bound: frames the C stack holds

Packets == Transit \cup Lsus \cup Errors
Threads == Workers \cup {Main, Sweeper}
Slots   == 1 .. CacheSize
ReqIds  == 1 .. MaxReqs
NoReq   == 0        \* the NULL pointer
DueAge  == 2        \* whole seconds d with difftime d > 1.0

ASSUME ThreadsAssumption ==
  /\ Main # Sweeper
  /\ {Main, Sweeper} \cap Workers = {}
  /\ NoThread \notin Threads
  /\ IsFiniteSet(Workers)
ASSUME PacketsAssumption ==
  /\ NextHop \in [Packets -> Hops]
  /\ IcmpError \in [Packets -> Errors \cup {NoPacket}]
  /\ NoPacket \notin Packets
  /\ NoHop \notin Hops
ASSUME BoundsAssumption ==
  /\ CacheSize \in Nat \ {0}
  /\ CacheTimeout \in Nat
  /\ MaxSends \in Nat \ {0}
  /\ MaxReqs \in Nat \ {0}
  /\ StackLimit \in Nat

VARIABLES
  cache,     \* entries[]: the hop mapped and its age in seconds
  req,       \* the struct sr_arpreq of each request pointer
  lock,      \* the thread that holds the cache's lock over several steps
  stack,     \* the calls each thread is in
  up,        \* FALSE once the process has died
  arrived,   \* packets given to the ARP layer so far
  sent,      \* packets sent to their next hop
  reported,  \* packets host_unreachable has taken for an ICMP error
  asked      \* hops that have sent the router an ARP request

vars == <<cache, req, lock, stack, up, arrived, sent, reported, asked>>
history == <<arrived, sent, reported, asked>>

(***************************************************************************)
(* A request is queued while it is on cache->requests, detached when       *)
(* sr_arpcache_insert has taken it off, and freed by sr_arpreq_destroy.    *)
(* Its age is the time since `sent', DueAge standing for anything longer.  *)
(***************************************************************************)
Request ==
  [status : {"unused", "queued", "detached", "freed"},
   ip : Hops \cup {NoHop}, packets : SUBSET Packets,
   times_sent : Nat, age : 0 .. DueAge]

Unused == [status |-> "unused", ip |-> NoHop, packets |-> {},
           times_sent |-> 0, age |-> DueAge]

\* The calls of a thread, and those that work on the request req.
OnRequest == {"check", "resend", "unreachable", "destroy", "flush"}
Calls == {"lookup", "enqueue", "sweep"} \cup OnRequest
Frames ==
  {f \in [at : Calls, req : 0 .. MaxReqs, pkts : SUBSET Packets] :
     f.at \in OnRequest => f.req # NoReq}
Frame(at, r, ps) == [at |-> at, req |-> r, pkts |-> ps]

-----------------------------------------------------------------------------
Queued == {r \in ReqIds : req[r].status = "queued"}
Live(r) == req[r].status \in {"queued", "detached"}
Freed(r) == r # NoReq /\ req[r].status = "freed"

(***************************************************************************)
(* A new request goes to the front of the list and takes the next pointer, *)
(* so the list is the queued requests in descending order.                 *)
(***************************************************************************)
IsNext(n, r) ==
  /\ n < r
  /\ n \in Queued \cup {NoReq}
  /\ \A q \in Queued : q < r => q <= n

NewReqs ==
  {r \in ReqIds : /\ req[r].status = "unused"
                  /\ \A q \in ReqIds : q < r => req[q].status # "unused"}

Cached(h) == \E s \in Slots : cache[s].ip = h
FreeSlots == {s \in Slots : cache[s].ip = NoHop}

Idle(t) == stack[t] = <<>>
At(t, label) == ~Idle(t) /\ Head(stack[t]).at = label
Top(t) == Head(stack[t])
MayLockAnyTime(t) == TRUE
MayLock(t) == lock \in {NoThread, t}

Return(t) == stack' = [stack EXCEPT ![t] = Tail(@)]
Goto(t, f) == stack' = [stack EXCEPT ![t] = <<f>> \o Tail(@)]
\* f calls g; a C stack that is full kills the process.
Call(t, f, g) ==
  IF Len(stack[t]) < StackLimit
  THEN stack' = [stack EXCEPT ![t] = <<g, f>> \o Tail(@)] /\ UNCHANGED up
  ELSE up' = FALSE /\ UNCHANGED stack

Init ==
  /\ cache = [s \in Slots |-> [ip |-> NoHop, age |-> 0]]
  /\ req = [r \in ReqIds |-> Unused]
  /\ lock = NoThread
  /\ stack = [t \in Threads |-> <<>>]
  /\ up = TRUE
  /\ arrived = {} /\ sent = {} /\ reported = {} /\ asked = {}
-----------------------------------------------------------------------------
(***************************************************************************)
(* One second passes.                                                      *)
(***************************************************************************)
OlderUncapped(age, limit) == age + 1
Older(age, limit) == IF age < limit THEN age + 1 ELSE limit

Tick ==
  /\ up
  /\ cache' = [s \in Slots |->
       [cache[s] EXCEPT !.age = IF cache[s].ip = NoHop THEN 0
                                ELSE Older(@, CacheTimeout + 1)]]
  /\ req' = [r \in ReqIds |->
       [req[r] EXCEPT !.age = IF Live(r) THEN Older(@, DueAge) ELSE @]]
  /\ UNCHANGED <<lock, stack, up, history>>

(***************************************************************************)
(* A packet with a route and an outgoing interface reaches the lookup:     *)
(* sr_handle_ip_packet in the receive thread, send_lsu and LSU flooding in *)
(* the LSU threads.                                                        *)
(***************************************************************************)
Transmit(t, p) ==
  /\ up /\ Idle(t) /\ p \notin arrived
  /\ \/ t = Main /\ p \in Transit
     \/ t \in Workers /\ p \in Lsus
  /\ arrived' = arrived \cup {p}
  /\ stack' = [stack EXCEPT ![t] = <<Frame("lookup", NoReq, {p})>>]
  /\ UNCHANGED <<cache, req, lock, up, sent, reported, asked>>

(***************************************************************************)
(* sr_arpcache_lookup: with a mapping the frame is sent at once (on the    *)
(* copy of the entry), without one the caller goes on to queue it.         *)
(***************************************************************************)
Lookup(t) ==
  /\ up /\ At(t, "lookup") /\ MayLock(t)
  /\ LET hops == {NextHop[p] : p \in Top(t).pkts} IN
       \/ /\ \A h \in hops : Cached(h)
          /\ sent' = sent \cup Top(t).pkts
          /\ Return(t)
       \/ /\ \E h \in hops : ~Cached(h)
          /\ Goto(t, [Top(t) EXCEPT !.at = "enqueue"])
          /\ UNCHANGED sent
  /\ UNCHANGED <<cache, req, lock, up, arrived, reported, asked>>

(***************************************************************************)
(* sr_arpcache_queuereq: add the packet to the hop's request, allocating   *)
(* one (calloc: sent = 0, so it is due at once) if the hop has none, and   *)
(* return the pointer after the lock is released.                          *)
(***************************************************************************)
QueueReqUnsearched(t, h, r) == r \in NewReqs
QueueReq(t, h, r) ==
  \/ r \in Queued /\ req[r].ip = h
  \/ r \in NewReqs /\ \A q \in Queued : req[q].ip # h

WithPacket(rq, p) ==
  [rq EXCEPT !.status = "queued", !.ip = NextHop[p], !.packets = @ \cup {p}]

Enqueue(t) ==
  /\ up /\ At(t, "enqueue") /\ MayLock(t)
  /\ \E p \in Top(t).pkts, r \in ReqIds :
       /\ QueueReq(t, NextHop[p], r)
       /\ req' = [req EXCEPT ![r] = WithPacket(@, p)]
       /\ Goto(t, Frame("check", r, {}))
  /\ UNCHANGED <<cache, lock, up, history>>

(***************************************************************************)
(* handle_arpreq reads `sent' and `times_sent' of the request it was given *)
(* a pointer to.  Freed memory may hold anything.                          *)
(***************************************************************************)
ExhaustedLate(r) ==
  IF Live(r) THEN {req[r].times_sent > MaxSends} ELSE BOOLEAN
Due(r)       == IF Live(r) THEN {req[r].age >= DueAge} ELSE BOOLEAN
Exhausted(r) == IF Live(r) THEN {req[r].times_sent >= MaxSends} ELSE BOOLEAN

CheckSilent(t) ==
  /\ up /\ At(t, "check")
  /\ LET r == Top(t).req IN
       \E due \in Due(r), exhausted \in Exhausted(r) :
         \/ ~due /\ Return(t)
         \/ due /\ ~exhausted /\ Goto(t, Frame("resend", r, {}))
         \/ due /\ exhausted /\ Goto(t, Frame("destroy", r, {}))
  /\ UNCHANGED <<cache, req, lock, up, history>>

Check(t) ==
  /\ up /\ At(t, "check")
  /\ LET r == Top(t).req IN
       \E due \in Due(r), exhausted \in Exhausted(r) :
         \/ ~due /\ Return(t)
         \/ due /\ ~exhausted /\ Goto(t, Frame("resend", r, {}))
         \/ due /\ exhausted
            /\ Goto(t, Frame("unreachable", r, req[r].packets))
  /\ UNCHANGED <<cache, req, lock, up, history>>

(***************************************************************************)
(* sr_arp_request_send from every interface, then sent = now and           *)
(* times_sent++.  `now' was read before the broadcast: the age it leaves   *)
(* is the time the broadcast took.                                         *)
(***************************************************************************)
SentAgain(rq, took) == [rq EXCEPT !.age = took, !.times_sent = @ + 1]

Resend(t) ==
  /\ up /\ At(t, "resend")
  /\ LET r == Top(t).req IN
       IF Live(r)
       THEN \E took \in 0 .. DueAge :
              req' = [req EXCEPT ![r] = SentAgain(@, took)]
       ELSE UNCHANGED req
  /\ Return(t)
  /\ UNCHANGED <<cache, lock, up, history>>

(***************************************************************************)
(* host_unreachable: one ICMP error for each packet of the list as it was  *)
(* when the walk began; sr_send_icmp_error_packet gives up on a packet     *)
(* whose source is the router itself or has no route.                      *)
(***************************************************************************)
Unreachable(t) ==
  /\ up /\ At(t, "unreachable")
  /\ \E p \in Top(t).pkts :
       LET rest == [Top(t) EXCEPT !.pkts = @ \ {p}]
           e == IcmpError[p] IN
       /\ reported' = reported \cup {p}
       /\ IF e = NoPacket
          THEN Goto(t, rest) /\ UNCHANGED <<up, arrived>>
          ELSE /\ arrived' = arrived \cup {e}
               /\ Call(t, rest, Frame("lookup", NoReq, {e}))
  /\ UNCHANGED <<cache, req, lock, sent, asked>>

AllReported(t) ==
  /\ up /\ At(t, "unreachable") /\ Top(t).pkts = {}
  /\ Goto(t, [Top(t) EXCEPT !.at = "destroy"])
  /\ UNCHANGED <<cache, req, lock, up, history>>

(***************************************************************************)
(* sr_arpreq_destroy: off the queue if it is on it, then free.             *)
(***************************************************************************)
Destroy(t) ==
  /\ up /\ At(t, "destroy") /\ MayLock(t) /\ Live(Top(t).req)
  /\ req' = [req EXCEPT ![Top(t).req].status = "freed"]
  /\ Return(t)
  /\ UNCHANGED <<cache, lock, up, history>>

(***************************************************************************)
(* A thread uses a request another call has freed: the process may die     *)
(* (the other outcomes are those of Check, Resend, Unreachable and Flush); *)
(* freeing it again is an abort of the C library.                          *)
(***************************************************************************)
Crash(t) ==
  /\ up /\ ~Idle(t) /\ Freed(Top(t).req)
  /\ up' = FALSE
  /\ UNCHANGED <<cache, req, lock, stack, history>>
-----------------------------------------------------------------------------
(***************************************************************************)
(* sr_arpcache_insert: take the hop's request off the queue and put the    *)
(* mapping in the first entry that is not valid; with none it is not kept. *)
(***************************************************************************)
Detach(h) ==
  req' = [r \in ReqIds |->
            IF r \in Queued /\ req[r].ip = h
            THEN [req[r] EXCEPT !.status = "detached"] ELSE req[r]]

Store(h) ==
  IF FreeSlots = {}
  THEN UNCHANGED cache
  ELSE cache' = [cache EXCEPT
         ![CHOOSE s \in FreeSlots : \A s2 \in FreeSlots : s <= s2] =
            [ip |-> h, age |-> 0]]

ArpReplyUnserved(h, mine) ==
  /\ up /\ Idle(Main) /\ MayLock(Main)
  /\ Detach(h)
  /\ Store(h)
  /\ UNCHANGED <<lock, stack, up, history>>

(***************************************************************************)
(* sr_handle_arp_packet, reply: the request the mapping answers is served  *)
(* from the interface that has the reply's target address.  A reply that   *)
(* is for none of them makes that interface NULL, and the process dies.     *)
(***************************************************************************)
ArpReply(h, mine) ==
  /\ up /\ Idle(Main) /\ MayLock(Main)
  /\ Detach(h)
  /\ Store(h)
  /\ \/ /\ \A r \in Queued : req[r].ip # h
        /\ UNCHANGED <<stack, up>>
     \/ \E r \in Queued :
          /\ req[r].ip = h
          /\ stack' = [stack EXCEPT ![Main] = <<Frame("flush", r, {})>>]
          /\ up' = mine
  /\ UNCHANGED <<lock, history>>

(***************************************************************************)
(* sr_handle_arp_packet, request for one of the router's addresses: the    *)
(* sender's mapping is inserted and the request insert returns is ignored. *)
(***************************************************************************)
ArpRequest(h) ==
  /\ up /\ Idle(Main) /\ MayLock(Main)
  /\ Detach(h)
  /\ Store(h)
  /\ asked' = asked \cup {h}
  /\ UNCHANGED <<lock, stack, up, arrived, sent, reported>>

\* sr_arp_reply_send_pending_packets; sr_arpreq_destroy follows.
Flush ==
  /\ up /\ At(Main, "flush")
  /\ sent' = IF Live(Top(Main).req) THEN sent \cup req[Top(Main).req].packets
                                    ELSE sent
  /\ Goto(Main, [Top(Main) EXCEPT !.at = "destroy"])
  /\ UNCHANGED <<cache, req, lock, up, arrived, reported, asked>>

(***************************************************************************)
(* sr_arpcache_timeout: every second, under the lock, drop the entries     *)
(* older than SR_ARPCACHE_TO and call handle_arpreq on every request,      *)
(* holding the pointer to the next one across the call.                    *)
(***************************************************************************)
SweepBegin ==
  /\ up /\ Idle(Sweeper) /\ MayLock(Sweeper)
  /\ lock' = Sweeper
  /\ cache' = [s \in Slots |-> IF cache[s].age > CacheTimeout
                               THEN [ip |-> NoHop, age |-> 0] ELSE cache[s]]
  /\ \E first \in 0 .. MaxReqs :
       /\ IsNext(first, MaxReqs + 1)
       /\ stack' = [stack EXCEPT ![Sweeper] = <<Frame("sweep", first, {})>>]
  /\ UNCHANGED <<req, up, history>>

SweepNext ==
  /\ up /\ At(Sweeper, "sweep") /\ Top(Sweeper).req # NoReq
  /\ \E nextReq \in 0 .. MaxReqs :
       /\ IsNext(nextReq, Top(Sweeper).req)
       /\ Call(Sweeper, Frame("sweep", nextReq, {}),
                        Frame("check", Top(Sweeper).req, {}))
  /\ UNCHANGED <<cache, req, lock, history>>

SweepEnd ==
  /\ up /\ At(Sweeper, "sweep") /\ Top(Sweeper).req = NoReq
  /\ lock' = NoThread
  /\ Return(Sweeper)
  /\ UNCHANGED <<cache, req, up, history>>
-----------------------------------------------------------------------------
ThreadStep(t) ==
  \/ Lookup(t) \/ Enqueue(t) \/ Check(t) \/ Resend(t)
  \/ Unreachable(t) \/ AllReported(t) \/ Destroy(t) \/ Crash(t)
MainStep    == ThreadStep(Main) \/ Flush
SweeperStep == ThreadStep(Sweeper) \/ SweepBegin \/ SweepNext \/ SweepEnd
WorkerStep  == \E t \in Workers : ThreadStep(t)
Receive ==
  \/ \E t \in Threads, p \in Packets : Transmit(t, p)
  \/ \E h \in Hops, mine \in BOOLEAN : ArpReply(h, mine)
  \/ \E h \in Hops : ArpRequest(h)

Next == MainStep \/ SweeperStep \/ WorkerStep \/ Receive \/ Tick

(***************************************************************************)
(* The scheduler runs every thread that can run, and time passes.  The     *)
(* timeout thread sleeps a second between two sweeps, so a thread that     *)
(* waits for the lock finds it free again and again and gets it: strong    *)
(* fairness for the threads, weak fairness for the clock.                  *)
(***************************************************************************)
Fairness ==
  /\ WF_vars(Tick)
  /\ SF_vars(MainStep)
  /\ SF_vars(SweeperStep)
  /\ \A t \in Workers : SF_vars(ThreadStep(t))

Spec == Init /\ [][Next]_vars
FairSpec == Spec /\ Fairness
-----------------------------------------------------------------------------
\* Every variable has its type.
TypeOK ==
  /\ cache \in [Slots -> [ip : Hops \cup {NoHop}, age : 0 .. CacheTimeout + 1]]
  /\ req \in [ReqIds -> Request]
  /\ lock \in Threads \cup {NoThread}
  /\ stack \in [Threads -> Seq(Frames)]
  /\ up \in BOOLEAN
  /\ arrived \subseteq Packets /\ sent \subseteq Packets
  /\ reported \subseteq Packets /\ asked \subseteq Hops

(***************************************************************************)
(* sr_arpcache_queuereq and sr_arpcache_insert stop at the first request   *)
(* of a hop: there is never a second one behind it, whatever the threads   *)
(* do between their locked sections.                                       *)
(***************************************************************************)
OneRequestPerHop ==
  \A r, q \in Queued : req[r].ip = req[q].ip => r = q

(***************************************************************************)
(* handle_arpreq tests times_sent and increments it in two steps and       *)
(* without the lock.  The count can pass MaxSends, but only by the threads *)
(* that had already passed the test.                                       *)
(***************************************************************************)
Resending(r) ==
  {t \in Threads : \E i \in DOMAIN stack[t] : stack[t][i] = Frame("resend", r, {})}
BoundedSends ==
  \A r \in ReqIds : Live(r) =>
    req[r].times_sent + Cardinality(Resending(r))
      < MaxSends + Cardinality(Threads)

(***************************************************************************)
(* The pointer to the next request that sr_arpcache_sweepreqs keeps across *)
(* handle_arpreq still points to a queued request when it is used.         *)
(***************************************************************************)
SweepPointerLive ==
  \A i \in DOMAIN stack[Sweeper] :
    LET f == stack[Sweeper][i] IN
    f.at = "sweep" /\ f.req # NoReq => f.req \in Queued

(***************************************************************************)
(* No packet is freed with its request unless it was sent or taken for an  *)
(* ICMP error: sr_arpreq_destroy frees the list as it is then, the walk    *)
(* before it took the list as it was.                                      *)
(***************************************************************************)
NoPacketForgotten ==
  \A r \in ReqIds : Freed(r) => req[r].packets \subseteq sent \cup reported

\* A thread has the request in its hands.
Held(r) == \E t \in Threads : \E i \in DOMAIN stack[t] : stack[t][i].req = r

(***************************************************************************)
(* The promise of ArpService: a packet is in the ARP layer's care while a  *)
(* thread carries it or a request that is queued or held lists it.  Two    *)
(* threads may each report one packet, so one error stands for several     *)
(* frames: the promise is about the packets handed to the ARP layer.       *)
(***************************************************************************)
InCare(p) ==
  \/ \E t \in Threads : \E i \in DOMAIN stack[t] : p \in stack[t][i].pkts
  \/ \E r \in ReqIds : Live(r) /\ p \in req[r].packets
                       /\ (r \in Queued \/ Held(r))
Offered == Transit \cup Lsus
Fate ==
  [p \in Offered |->
     CASE p \in sent \cap reported -> "both"
       [] p \in sent \ reported -> "sent"
       [] p \in reported \ sent -> "reported"
       [] p \in arrived \ (sent \cup reported) ->
            IF InCare(p) THEN "accepted" ELSE "discarded"
       [] OTHER          -> "idle"]

Service == INSTANCE ArpService WITH Packets <- Offered, fate <- Fate
ImplementsService == Service!Spec
=============================================================================
