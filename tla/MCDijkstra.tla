---------------------------- MODULE MCDijkstra ----------------------------
(***************************************************************************)
(* The routers of pwospf_topo.py as router 1 sees them: the square 2-3-5-4 *)
(* with router 1 linked to 2 and 3, a server behind 4 and one behind 5.  A *)
(* table lists the routers that router 1 has heard of, in the order in     *)
(* which their first LSUs came.                                            *)
(***************************************************************************)
EXTENDS Dijkstra

CONSTANT MaxUnheard   \* bound on the ends of links no HELLO has crossed

MCRouters == 2 .. 5
MCNets == {"client", "n12", "n13", "n23", "n24", "n35", "n45", "s1", "s2"}
MCConnected == {"client", "n12", "n13"}

OwnLinks == <<[net |-> "client", neighbor |-> None],
              [net |-> "n12", neighbor |-> 2], [net |-> "n13", neighbor |-> 3]>>
LinksOf == [r \in MCRouters |->
  CASE r = 2 -> << <<"n12", 1>>, <<"n24", 4>>, <<"n23", 3>> >>
    [] r = 3 -> << <<"n13", 1>>, <<"n35", 5>>, <<"n23", 2>> >>
    [] r = 4 -> << <<"n24", 2>>, <<"s1", None>>, <<"n45", 5>> >>
    [] r = 5 -> << <<"n35", 3>>, <<"s2", None>>, <<"n45", 4>> >>]

\* The ends of links: <<router, position>>.
Ends == MCRouters \X (1 .. 3)
Lsas(r, unheard) == [k \in 1 .. 3 |->
  [router |-> r, net |-> LinksOf[r][k][1],
   neighbor |-> IF <<r, k>> \in unheard THEN None ELSE LinksOf[r][k][2]]]
TableOf(order, unheard) ==
  FoldLeft(LAMBDA t, r : t \o Lsas(r, unheard), <<>>, order)

Unheard == UNION {kSubset(k, {e \in Ends : LinksOf[e[1]][e[2]][2] # None}) :
                    k \in 0 .. MaxUnheard}
Orders == UNION {SetToSeqs(R) : R \in SUBSET MCRouters}
Views == {[links |-> OwnLinks, table |-> TableOf(o, u)] : o \in Orders, u \in Unheard}

\* Those in which the code's run ends, so that the list stays finite.
MCNetworks == {nw \in Views : AllReachable(nw) \/ Acyclic(nw)}

\* What the theorems assume of a table.
ASSUME \A nw \in MCNetworks : PointToPoint(nw)
=============================================================================
