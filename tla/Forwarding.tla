----------------------------- MODULE Forwarding -----------------------------
(***************************************************************************)
(* One packet and what becomes of it in a network of these routers: the    *)
(* longest prefix match, the TTL, echo replies, and the ICMP errors, which *)
(* are packets too and may be lost in their turn.  A router sends at most  *)
(* one packet for each it handles, so one packet at a time tells the whole *)
(* story; what ARP does meanwhile is ArpCache's subject, and here it ends  *)
(* in an answer or in host unreachable.                                    *)
(*                                                                         *)
(* The repository holds the handlers twice, as two stages of one program:  *)
(* "reenvio" forwards over a fixed table, "enrutamiento" adds PWOSPF.      *)
(* Where they differ the definitions ask for the stage.                    *)
(*                                                                         *)
(* Addresses have Bits bits and TTLs wrap at TtlLimit, as they do at 32    *)
(* bits and 256 in the code; the checksum is the code's, on words of Bits  *)
(* bits.                                                                   *)
(***************************************************************************)
EXTENDS Naturals, Sequences, FiniteSets

CONSTANTS
  Interfaces,   \* of all routers: [router, link, ip]
  Hosts,        \* [ip, link]
  Presence,     \* sets of hosts that may be there when ARP asks for them
  AllSpf,       \* OSPF_AllSPFRouters
  Bits,         \* width of an address
  TtlLimit,     \* TTLs are 0 .. TtlLimit - 1
  IcmpTtl,      \* TTL of the packets a router makes
  Tables,       \* routing tables the routers may have
  Originals     \* packets there may be: [src, dst, ttl, proto]

Routers == {i.router : i \in Interfaces}
Addresses == 0 .. 2 ^ Bits - 1
Errors == {"netUnreachable", "hostUnreachable", "portUnreachable", "timeExceeded"}
Icmp == {"echo", "reply"} \cup Errors
Route == [net : Addresses, len : 0 .. Bits, gw : Addresses, link : STRING]
Gone == [proto |-> "gone"]

ASSUME ForwardingAssumption ==
  /\ Bits \in Nat \ {0} /\ TtlLimit \in Nat /\ IcmpTtl \in 1 .. TtlLimit - 1
  /\ IsFiniteSet(Interfaces)
  /\ \A i \in Interfaces : i.ip \in Addresses \ {0, AllSpf} /\ i.link # "none"
  /\ \A h \in Hosts : h.ip \in Addresses \ {0, AllSpf}
  /\ \A tab \in Tables :
       DOMAIN tab = Routers /\ \A r \in Routers : tab[r] \in Seq(Route)
  /\ Presence \subseteq SUBSET Hosts
  /\ \A o \in Originals : /\ o.src \in Addresses /\ o.dst \in Addresses
                           /\ o.ttl \in 0 .. TtlLimit - 1

VARIABLES
  stage,    \* which of the two programs the routers run
  table,    \* sr->routing_table of each router
  here,     \* the hosts that are still there
  first,    \* the packet as it was sent
  pkt,      \* the packet under way, what became of it included
  fate,     \* history: what became of the first packet
  told      \* history: the errors and replies that have reached its sender

vars == <<stage, table, here, first, pkt, fate, told>>
-----------------------------------------------------------------------------
\* sr_longest_prefix_match
NoRoute == [net |-> 0, len |-> 0, gw |-> 0, link |-> "none"]
Matches(route, a) ==
  LET block == 2 ^ (Bits - route.len) IN a \div block = route.net \div block

BetterOrEqual(route, best) == route.len >= best.len
Better(route, best) == route.len > best.len
Lpm(routes, a) ==
  LET best[n \in 0 .. Len(routes)] ==
        IF n = 0 THEN NoRoute
        ELSE IF Matches(routes[n], a) /\ Better(routes[n], best[n - 1])
             THEN routes[n] ELSE best[n - 1]
  IN best[Len(routes)]

\* sr_get_interface_given_ip and sr_get_interface
Own(r, a) == \E i \in Interfaces : i.router = r /\ i.ip = a
OutOf(r, route) == {i \in Interfaces : i.router = r /\ i.link = route.link}
HopAtDestination(route, a) == a
HopOf(route, a) == IF route.gw = 0 THEN a ELSE route.gw

(***************************************************************************)
(* cksum on the words of the header; 0 becomes all ones, which a host that *)
(* computes the checksum by the book does not do.                          *)
(***************************************************************************)
Word == 2 ^ Bits
Folded[sum \in Nat] ==
  IF sum < Word THEN sum ELSE Folded[(sum \div Word) + (sum % Word)]
Complement(p) == Word - 1 - Folded[p.ttl + p.src + p.dst]
Cksum(p) == IF Complement(p) = 0 THEN Word - 1 ELSE Complement(p)
Summed(p) == [p EXCEPT !.sum = Cksum(p)]
IsPacketValid(p) == Cksum(p) = p.sum

\* A frame on the wire (dir "in") or waiting for the address of its hop.
Sent(p, i, hop) == [p EXCEPT !.dir = "out", !.link = i.link, !.router = i.router,
                             !.peer = hop]
Ends(what) ==
  /\ fate' = IF fate = "travelling" THEN what ELSE fate
  /\ UNCHANGED <<stage, table, here, first>>

Init ==
  /\ stage \in {"reenvio", "enrutamiento"}
  /\ table \in Tables
  /\ here \in Presence
  /\ first \in Originals
  /\ \E i \in Interfaces, h \in Hosts \cup Interfaces :
       /\ h.ip = first.src /\ h.link = i.link /\ h # i
       /\ LET p == [src |-> first.src, dst |-> first.dst, ttl |-> first.ttl,
                    proto |-> first.proto, sum |-> 0, dir |-> "in",
                    link |-> i.link, router |-> i.router, peer |-> h.ip]
          IN pkt = [p EXCEPT !.sum = Complement(p)]
  /\ fate = "travelling"
  /\ told = {}
-----------------------------------------------------------------------------
(***************************************************************************)
(* sr_send_icmp_error_packet(error, r, p.src, p).  Only the second stage   *)
(* looks whether the packet was its own.                                   *)
(***************************************************************************)
ForgetsItself(r, p) == FALSE
Mine(r, p) == stage = "enrutamiento" /\ Own(r, p.src)

SendIcmpError(r, p, error) ==
  LET route == Lpm(table[r], p.src)
  IN IF Mine(r, p) \/ route = NoRoute \/ OutOf(r, route) = {}
     THEN pkt' = Gone
     ELSE \E i \in OutOf(r, route) :
            pkt' = Sent(Summed([p EXCEPT !.src = i.ip, !.dst = p.src,
                                         !.ttl = IcmpTtl, !.proto = error]),
                        i, HopOf(route, p.src))

(***************************************************************************)
(* A packet for the router itself.  The reply to an echo request goes back *)
(* to the frame's sender, whatever the routes say.                         *)
(***************************************************************************)
HandledHere(r, p) ==
  /\ p.proto = "ospf" /\ stage = "enrutamiento"
  /\ Own(r, p.dst) \/ p.dst = AllSpf

EchoReplyOldTtl(p) ==
  Summed([p EXCEPT !.src = p.dst, !.dst = p.src, !.proto = "reply", !.dir = "out"])
EchoReply(p) ==
  Summed([p EXCEPT !.src = p.dst, !.dst = p.src, !.ttl = IcmpTtl,
                   !.proto = "reply", !.dir = "out"])

ForMe(r, p) ==
  /\ Own(r, p.dst) /\ ~HandledHere(r, p)
  /\ \/ p.proto = "echo" /\ pkt' = EchoReply(p) /\ Ends("answered")
     \/ p.proto \in Icmp \ {"echo"} /\ pkt' = Gone /\ Ends("received")
     \/ p.proto \notin Icmp /\ SendIcmpError(r, p, "portUnreachable")
                            /\ Ends("portUnreachable")

(***************************************************************************)
(* A packet for someone else.  The TTL is a byte: 0 becomes 255.  The      *)
(* stages test it and look the route up in opposite orders.                *)
(***************************************************************************)
Decremented(p) == [p EXCEPT !.ttl = (@ + TtlLimit - 1) % TtlLimit]

Refusal(r, p) ==
  CASE stage = "enrutamiento" /\ p.ttl < 1 -> "timeExceeded"
    [] Lpm(table[r], p.dst) = NoRoute /\ (stage = "reenvio" \/ p.ttl >= 1)
         -> "netUnreachable"
    [] stage = "reenvio" /\ Lpm(table[r], p.dst) # NoRoute /\ p.ttl < 1
         -> "timeExceeded"
    [] OTHER -> "none"

Updated(p) == Summed(p)

Forward(r, p) ==
  LET route == Lpm(table[r], p.dst)
  IN \/ /\ Refusal(r, p) # "none"
        /\ SendIcmpError(r, p, Refusal(r, p)) /\ Ends(Refusal(r, p))
     \/ /\ Refusal(r, p) = "none" /\ OutOf(r, route) = {}
        /\ pkt' = Gone /\ Ends("noInterface")
     \/ /\ Refusal(r, p) = "none"
        /\ \E i \in OutOf(r, route) :
             pkt' = Sent(Updated(p), i, HopOf(route, p.dst))
        /\ UNCHANGED <<stage, table, here, first, fate>>

\* sr_handlepacket and sr_handle_ip_packet
Receive ==
  /\ pkt # Gone /\ pkt.dir = "in"
  /\ LET r == pkt.router
     IN \/ ~IsPacketValid(pkt) /\ pkt' = Gone /\ Ends("invalid")
        \/ IsPacketValid(pkt) /\ HandledHere(r, pkt) /\ pkt' = Gone /\ Ends("handled")
        \/ IsPacketValid(pkt) /\ ForMe(r, pkt)
        \/ /\ IsPacketValid(pkt) /\ ~Own(r, pkt.dst) /\ ~HandledHere(r, pkt)
           /\ Forward(r, Decremented(pkt))
  /\ UNCHANGED told
-----------------------------------------------------------------------------
(***************************************************************************)
(* The hop answers the ARP request, if there is such a hop on the link (a  *)
(* router does not hear its own request), or host_unreachable reports the  *)
(* packet.                                                                 *)
(***************************************************************************)
Others(p) ==
  {i \in Interfaces : i.link = p.link /\ i.ip = p.peer /\ i.router # p.router}
HostAt(p) == {h \in here : h.link = p.link /\ h.ip = p.peer}
SenderIp(p) ==
  (CHOOSE i \in Interfaces : i.router = p.router /\ i.link = p.link).ip

ToRouter ==
  /\ pkt # Gone /\ pkt.dir = "out"
  /\ \E i \in Others(pkt) :
       pkt' = [pkt EXCEPT !.dir = "in", !.router = i.router, !.peer = SenderIp(pkt)]
  /\ UNCHANGED <<stage, table, here, first, fate, told>>

ToHost ==
  /\ pkt # Gone /\ pkt.dir = "out" /\ HostAt(pkt) # {}
  /\ Ends(IF pkt.dst = pkt.peer THEN "delivered" ELSE "strayed")
  /\ told' = IF fate # "travelling" /\ pkt.peer = first.src
             THEN told \cup {pkt.proto} ELSE told
  /\ pkt' = Gone

HostUnreachable ==
  /\ pkt # Gone /\ pkt.dir = "out" /\ Others(pkt) = {} /\ HostAt(pkt) = {}
  /\ SendIcmpError(pkt.router, pkt, "hostUnreachable")
  /\ Ends("hostUnreachable")
  /\ UNCHANGED told

Next == Receive \/ ToRouter \/ ToHost \/ HostUnreachable
Fairness == WF_vars(Next)
Spec == Init /\ [][Next]_vars /\ Fairness
-----------------------------------------------------------------------------
(***************************************************************************)
(* Where the routes of a table lead from a router to an address: to it, or *)
(* to a gateway.  They never go round if every gateway is nearer to the    *)
(* address than the router that sends to it, by some measure of distance.  *)
(***************************************************************************)
On(link, a) == {x \in Interfaces \cup Hosts : x.link = link /\ x.ip = a}
Direct(tab, r, a) ==
  LET route == Lpm(tab[r], a)
  IN \/ Own(r, a)
     \/ OutOf(r, route) # {} /\ route.gw = 0 /\ On(route.link, a) # {}
Gateways(tab, r, a) ==
  LET route == Lpm(tab[r], a)
  IN IF Own(r, a) \/ OutOf(r, route) = {} \/ route.gw = 0 THEN {}
     ELSE {i.router : i \in {x \in Interfaces : x.link = route.link
                                                /\ x.ip = route.gw}}

Distances == [Routers -> 0 .. Cardinality(Routers) - 1]
Nearer(tab, a, distance) ==
  \A r \in Routers : \A g \in Gateways(tab, r, a) : distance[g] < distance[r]
NoLoop(tab, a) == \E distance \in Distances : Nearer(tab, a, distance)

DistinctAddresses ==
  /\ Interfaces \cap Hosts = {}
  /\ \A x, y \in Interfaces \cup Hosts : x.ip = y.ip => x = y
Exists(a) == \E x \in Interfaces \cup here : x.ip = a
Orderly == stage = "enrutamiento" /\ \A i \in Interfaces : NoLoop(table, i.ip)
Converged ==
  \A a \in Addresses :
    /\ NoLoop(table, a)
    /\ (\E x \in Interfaces \cup Hosts : x.ip = a) =>
         \A r \in Routers : Direct(table, r, a) \/ Gateways(table, r, a) # {}

Protocols == Icmp \cup {o.proto : o \in Originals}
Packet == [src : Addresses, dst : Addresses, ttl : 0 .. TtlLimit - 1,
           proto : Protocols, sum : 0 .. Word - 1, dir : {"in", "out"},
           link : {i.link : i \in Interfaces}, router : Routers, peer : Addresses]
TypeOK ==
  /\ stage \in {"reenvio", "enrutamiento"}
  /\ table \in Tables /\ here \in Presence /\ first \in Originals
  /\ pkt = Gone \/ /\ pkt \in Packet
                   /\ \E i \in Interfaces :
                        i.router = pkt.router /\ i.link = pkt.link
  /\ fate \in {"travelling", "invalid", "handled", "answered", "received",
              "noInterface", "delivered", "strayed"} \cup Errors
  /\ told \subseteq Icmp

(***************************************************************************)
(* A packet and everything sent on its account come to an end: no error    *)
(* about an error about an error without end, whatever loops the routes to *)
(* the hosts have, as long as those to the routers have none.  It holds in *)
(* the second stage only: it is the test of the own address that ends it.  *)
(***************************************************************************)
PacketEnds == Orderly => <>(pkt = Gone)

(***************************************************************************)
(* Over converged routes a packet whose TTL suffices, and whose sender's   *)
(* checksum is not 0, reaches the host or the router it is for, and there  *)
(* the program that handles it.                                            *)
(***************************************************************************)
Enough == first.ttl > Cardinality(Routers)
Arrives ==
  /\ pkt = Gone /\ Converged /\ Enough /\ Exists(first.dst)
  /\ Complement(first) # 0
  => fate \in {"delivered", "answered", "received", "portUnreachable", "handled"}

(***************************************************************************)
(* Over converged routes the sender of a packet that was not delivered is  *)
(* told why, by that error and no other, and that of an echo request to a  *)
(* router gets its reply.                                                  *)
(***************************************************************************)
SenderIsTold ==
  /\ pkt = Gone /\ Converged
  /\ \E h \in here : h.ip = first.src
  => told = IF fate = "answered" THEN {"reply"} ELSE {fate} \cap Errors

(***************************************************************************)
(* The loop finds the first of the longest matching routes, in whatever    *)
(* order the table has them.  A route of length 0 does not match.          *)
(***************************************************************************)
Longest(routes, a) ==
  LET M == {k \in DOMAIN routes : Matches(routes[k], a) /\ routes[k].len > 0}
      best == CHOOSE k \in M : \A j \in M :
                /\ routes[j].len <= routes[k].len
                /\ routes[j].len = routes[k].len => k <= j
  IN IF M = {} THEN NoRoute ELSE routes[best]
LongestWins ==
  \A r \in Routers, a \in Addresses : Lpm(table[r], a) = Longest(table[r], a)
=============================================================================
