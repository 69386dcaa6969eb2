---------------------------- MODULE MCForwarding ----------------------------
(***************************************************************************)
(* Two routers in a row: a host on either side, and a network of B on      *)
(* which nobody else is.                                                   *)
(*      host 3 -- (2) A (4) -- (5) B (6) -- host 7,   B (8)                *)
(***************************************************************************)
EXTENDS Forwarding

Iface(r, l, a) == [router |-> r, link |-> l, ip |-> a]
MCInterfaces ==
  {Iface("A", "left", 2), Iface("A", "middle", 4), Iface("B", "middle", 5),
   Iface("B", "right", 6), Iface("B", "stub", 8)}
MCHosts == {[ip |-> 3, link |-> "left"], [ip |-> 7, link |-> "right"]}
MCPresence == {MCHosts, {[ip |-> 7, link |-> "right"]}}
MCAllSpf == 15

To(n, l, g, k) == [net |-> n, len |-> l, gw |-> g, link |-> k]
OfA == <<To(2, 3, 0, "left"), To(4, 3, 0, "middle")>>
OfB == <<To(4, 3, 0, "middle"), To(6, 3, 0, "right"), To(8, 3, 0, "stub")>>
AB(a, b) == [r \in {"A", "B"} |-> IF r = "A" THEN a ELSE b]
FarA == <<To(6, 3, 5, "middle"), To(8, 3, 5, "middle")>>
FarB == <<To(2, 3, 4, "middle")>>
MCTables ==
  {\* as PWOSPF leaves them
   AB(OfA \o FarA, OfB \o FarB),
   \* A has an aggregate too, before and after the routes it covers
   AB(<<To(4, 2, 5, "middle")>> \o OfA \o FarA, OfB \o FarB),
   AB(OfA \o FarA \o <<To(4, 2, 5, "middle"), To(6, 3, 4, "left")>>, OfB \o FarB),
   \* nothing learnt yet
   AB(OfA, OfB),
   \* the right network has moved: the routes to host 7 go round
   AB(OfA \o FarA, <<To(4, 3, 0, "middle"), To(8, 3, 0, "stub"),
                     To(6, 3, 4, "middle")>> \o FarB),
   \* and those to host 3 too
   AB(<<To(4, 3, 0, "middle"), To(2, 3, 5, "middle")>> \o FarA, OfB \o FarB),
   \* a default route, and a route out of an interface there is not
   AB(OfA \o <<To(0, 0, 5, "middle")>>, OfB \o FarB),
   AB(OfA \o <<To(6, 3, 5, "eth9"), To(8, 3, 5, "middle")>>, OfB \o FarB)}

MCOriginals ==
  {p \in [src : {3, 7}, dst : 2 .. 10, ttl : {0, 1, 2, 3, 5, 7},
          proto : {"echo", "udp", "reply"}] : p.src # p.dst}
    \cup [src : {4, 5}, dst : {4, 5, 15}, ttl : {1}, proto : {"ospf"}]

ASSUME DistinctAddresses /\ IcmpTtl > Cardinality(Routers)
=============================================================================
