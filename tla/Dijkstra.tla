------------------------------ MODULE Dijkstra ------------------------------
(***************************************************************************)
(* One run of run_dijkstra: the dynamic routes are cleared, and then each  *)
(* network of the topology table without a route is searched for, from the *)
(* router's own links outwards, with a list kept in order of cost (the     *)
(* code's "heap").  The table, the interfaces and the routing table are    *)
(* taken to change only through the run.                                   *)
(*                                                                         *)
(* The code's "stack" is only ever read at its top, the last item pushed,  *)
(* and an item's parents only for the first of them, an own link: an item  *)
(* here carries that link, and `last' is the top of the stack.             *)
(***************************************************************************)
EXTENDS Naturals, Sequences, SequencesExt

CONSTANTS
  Routers,     \* the other routers
  Nets,        \* subnets
  Networks,    \* what a run may start from: own links and topology table
  Connected,   \* networks with a connected or static route
  CostSize     \* 2^8, the values of the 8-bit cost

None == 0      \* neighbor_id of a link without neighbour
NoLink == 0    \* no dynamic route
Lsa == [router : Routers, net : Nets, neighbor : Nat]
Link == [net : Nets, neighbor : Routers \cup {None}]

ASSUME DijkstraAssumption ==
  /\ Routers \subseteq Nat \ {None} /\ IsFiniteSet(Routers)
  /\ Networks \subseteq [links : Seq(Link), table : Seq(Lsa)]
  /\ Connected \subseteq Nets
  /\ CostSize \in Nat \ {0, 1}

VARIABLES
  network,   \* if_list and g_topology, which the run reads
  routes,    \* the own link each network is routed through
  target,    \* position of topo_entry in the table
  heap,      \* dijkstra_heap after its dummy head
  last,      \* the top of dijkstra_stack, or <<>>
  pc         \* where the run is

vars == <<network, routes, target, heap, last, pc>>

links == network.links
table == network.table
Targets == {e.net : e \in Range(table)}
Item(net, neighbor, cost, link) ==
  [net |-> net, neighbor |-> neighbor, cost |-> cost % CostSize, link |-> link]

Init ==
  /\ network \in Networks
  /\ routes \in {[n \in Nets |-> IF n \in Connected THEN NoLink ELSE l] :
                    l \in 0 .. Len(links)}
  /\ target = 1
  /\ heap = <<>> /\ last = <<>>
  /\ pc = "clear"
-----------------------------------------------------------------------------
(***************************************************************************)
(* clear_routes.  (It never looks at the first route of the table, which   *)
(* is here a static or connected one.)                                     *)
(***************************************************************************)
ClearRoutesNot(r) == r
ClearRoutes(r) == [n \in Nets |-> NoLink]

Clear ==
  /\ pc = "clear"
  /\ routes' = ClearRoutes(routes)
  /\ pc' = "target"
  /\ UNCHANGED <<network, target, heap, last>>

AdvanceNot(k) == k
Advance(k) == k + 1

\* check_route: the target has a route already.
Skip ==
  /\ pc = "target" /\ target <= Len(table)
  /\ table[target].net \in Connected \/ routes[table[target].net] # NoLink
  /\ target' = Advance(target)
  /\ UNCHANGED <<network, routes, heap, last, pc>>

(***************************************************************************)
(* Each own link with a neighbour whose network is in the table is pushed  *)
(* with cost 1, in front of what the search for the last target has left.  *)
(***************************************************************************)
Usable(l) == links[l].neighbor # None /\ links[l].net \in Targets
OwnPushed ==
  LET pushed[l \in 0 .. Len(links)] ==
        IF l = 0 THEN heap
        ELSE IF Usable(l)
        THEN <<Item(links[l].net, links[l].neighbor, 1, l)>> \o pushed[l - 1]
        ELSE pushed[l - 1]
  IN pushed[Len(links)]

PushLinks ==
  /\ pc = "target" /\ target <= Len(table)
  /\ table[target].net \notin Connected /\ routes[table[target].net] = NoLink
  /\ heap' = OwnPushed
  /\ pc' = "pop"
  /\ UNCHANGED <<network, routes, target, last>>

(***************************************************************************)
(* The item in front of the list is the target's, or has no neighbour and  *)
(* is dropped, or its neighbour's entries are looked at next.  With no     *)
(* item left, the last one pushed stands for the target all the same.      *)
(***************************************************************************)
Pop ==
  /\ pc = "pop" /\ heap # <<>>
  /\ heap' = Tail(heap)
  /\ \/ /\ Head(heap).net = table[target].net
        /\ last' = Head(heap) /\ pc' = "route"
     \/ /\ Head(heap).net # table[target].net /\ Head(heap).neighbor = None
        /\ UNCHANGED <<last, pc>>
     \/ /\ Head(heap).net # table[target].net /\ Head(heap).neighbor # None
        /\ last' = Head(heap) /\ pc' = "expand"
  /\ UNCHANGED <<network, routes, target>>

Exhaust ==
  /\ pc = "pop" /\ heap = <<>>
  /\ pc' = "route"
  /\ UNCHANGED <<network, routes, target, heap, last>>

(***************************************************************************)
(* dijkstra_stack_reorder: one pass from the front that swaps neighbours   *)
(* which are out of order.                                                 *)
(***************************************************************************)
ReorderNot(seq) == seq
Reorder(seq) ==
  LET pass[k \in 1 .. Len(seq)] ==
        IF k = 1 THEN <<seq[1]>>
        ELSE LET p == pass[k - 1]
             IN IF Last(p).cost > seq[k].cost
                THEN Front(p) \o <<seq[k], Last(p)>> ELSE Append(p, seq[k])
  IN IF seq = <<>> THEN seq ELSE pass[Len(seq)]

\* The entries of the item's neighbour, but for the link to it and itself.
Follows(e, item) ==
  /\ e.router = item.neighbor /\ e.net # item.net
  /\ e.neighbor # item.neighbor

NextCostSame(item) == item.cost
NextCost(item) == item.cost + 1

Pushed ==
  LET pushed[k \in 0 .. Len(table)] ==
        IF k = 0 THEN heap
        ELSE LET h == pushed[k - 1]
                 e == table[k]
             IN IF Follows(e, last)
                THEN Reorder(<<Item(e.net, e.neighbor, NextCost(last), last.link)>> \o h)
                ELSE h
  IN pushed[Len(table)]
Expand ==
  /\ pc = "expand"
  /\ heap' = Pushed
  /\ pc' = "pop"
  /\ UNCHANGED <<network, routes, target, last>>

(***************************************************************************)
(* The route to the target goes through the link the last item was reached *)
(* by.                                                                     *)
(***************************************************************************)
Route ==
  /\ pc = "route"
  /\ routes' = IF last = <<>> THEN routes
               ELSE [routes EXCEPT ![table[target].net] = last.link]
  /\ target' = Advance(target)
  /\ pc' = "target"
  /\ UNCHANGED <<network, heap, last>>

Finish ==
  /\ pc = "target" /\ target > Len(table)
  /\ pc' = "finished"
  /\ UNCHANGED <<network, routes, target, heap, last>>
-----------------------------------------------------------------------------
Others == Clear \/ Skip \/ PushLinks \/ Pop \/ Exhaust \/ Route \/ Finish
Next == Others \/ Expand

Spec == Init /\ [][Next]_vars
(***************************************************************************)
(* The thread of the run is scheduled.  The last conjunct is               *)
(* WF_vars(Expand) with ENABLED written out, which TLC evaluates too       *)
(* slowly.                                                                 *)
(***************************************************************************)
FairSpec ==
  /\ Spec /\ WF_vars(Others)
  /\ []<>(pc # "expand") \/ []<><<Expand>>_vars
-----------------------------------------------------------------------------
(***************************************************************************)
(* The reference: the routers at the end of a walk of k hops from this     *)
(* router, each with the own link the walk begins with; the own links that *)
(* a walk of k hops to a network begins with; and those of the shortest.   *)
(***************************************************************************)
Starts(nw) == {l \in DOMAIN nw.links :
  nw.links[l].neighbor # None /\ \E e \in Range(nw.table) : e.net = nw.links[l].net}
MaxHops == Cardinality(Routers) + 1
Reached(nw) ==
  LET reached[k \in 1 .. MaxHops] ==
        IF k = 1 THEN {<<nw.links[l].neighbor, l>> : l \in Starts(nw)}
        ELSE {<<s[1].neighbor, s[2][2]>> : s \in
                {x \in Range(nw.table) \X reached[k - 1] : x[1].router = x[2][1]}}
  IN reached
HopsTo(nw, net, k) ==
  IF k = 1 THEN {l \in Starts(nw) : nw.links[l].net = net}
  ELSE {x[2] : x \in {y \in Reached(nw)[k - 1] :
          \E e \in Range(nw.table) : e.router = y[1] /\ e.net = net}}
Reachable(nw, net) == \E k \in 1 .. MaxHops : HopsTo(nw, net, k) # {}
FirstLinks(nw, net) ==
  HopsTo(nw, net, CHOOSE k \in 1 .. MaxHops :
                    /\ HopsTo(nw, net, k) # {}
                    /\ \A j \in 1 .. k - 1 : HopsTo(nw, net, j) = {})

\* Every network of the table can be reached; walks that do not turn back end.
AllReachable(nw) ==
  \A e \in Range(nw.table) : e.net \in Connected \/ Reachable(nw, e.net)
Acyclic(nw) ==
  LET hops == Cardinality({<<e.net, e.neighbor>> : e \in Range(nw.table)})
      walks[k \in 1 .. hops + 2] ==
        IF k = 1 THEN {<<nw.links[l].net, nw.links[l].neighbor>> : l \in Starts(nw)}
        ELSE {<<s[1].net, s[1].neighbor>> : s \in
                {x \in Range(nw.table) \X walks[k - 1] :
                   x[1].router = x[2][2] /\ x[1].net # x[2][1]}}
  IN walks[hops + 2] = {}

\* A subnet joins two routers, or a router and hosts.
PointToPoint(nw) ==
  LET lsas == Range(nw.table)
  IN /\ \A e, f \in lsas : e.router = f.neighbor /\ e.net = f.net =>
                             e.neighbor \in {f.router, None}
     /\ \A e \in lsas : e.neighbor # e.router
     /\ \A e \in lsas, l \in DOMAIN nw.links :
          e.router = nw.links[l].neighbor /\ e.net = nw.links[l].net =>
            e.neighbor \notin Routers

(***************************************************************************)
(* The types: a route leads over an own link, a cost has 8 bits, and the   *)
(* position in the table never runs past its end.                          *)
(***************************************************************************)
Items == [net : Nets, neighbor : Nat, cost : 0 .. CostSize - 1,
          link : DOMAIN links]
TypeOK ==
  /\ network \in Networks
  /\ routes \in [Nets -> DOMAIN links \cup {NoLink}]
  /\ target \in 1 .. Len(table) + 1
  /\ heap \in Seq(Items)
  /\ last \in Items \cup {<<>>}
  /\ pc \in {"clear", "target", "pop", "expand", "route", "finished"}

(***************************************************************************)
(* The list is in order of cost whenever an item is taken from it: one     *)
(* pass for each item pushed is enough, and what a search leaves behind    *)
(* does not disturb the next.                                              *)
(***************************************************************************)
HeapOrdered ==
  \A i, j \in DOMAIN heap : i <= j => heap[i].cost <= heap[j].cost

(***************************************************************************)
(* When the run is over every network of the table that can be reached is  *)
(* routed through the first link of a shortest walk, and no route of an    *)
(* earlier run is left.                                                    *)
(***************************************************************************)
ShortestRoutes ==
  pc = "finished" =>
    \A net \in Nets :
      IF net \in Targets \ Connected
      THEN Reachable(network, net) => routes[net] \in FirstLinks(network, net)
      ELSE routes[net] = NoLink

(***************************************************************************)
(* A run ends if every network of the table can be reached, or the routers *)
(* form no cycle.  (Otherwise it does not: the code keeps no set of the    *)
(* routers it has visited.)                                                *)
(***************************************************************************)
RunEnds == AllReachable(network) \/ Acyclic(network) => <>(pc = "finished")
=============================================================================
