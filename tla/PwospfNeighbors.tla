-------------------------- MODULE PwospfNeighbors ---------------------------
(***************************************************************************)
(* How a router learns and forgets its PWOSPF neighbours: the HELLO        *)
(* handler (sr_handle_pwospf_hello_packet, receive thread) and the life    *)
(* check (check_neighbors_life, a thread of its own) share the list of     *)
(* neighbours and the neighbor_id and neighbor_ip of every interface, and  *)
(* neither takes a lock.                                                   *)
(*                                                                         *)
(* The handler's look for a router in the list is one action, and what it  *)
(* does with the answer are others; the life check is one action for each  *)
(* entry.  (Pointers torn while an entry is linked are not modelled.)      *)
(***************************************************************************)
EXTENDS Naturals, Sequences, FiniteSets, SequencesExt

CONSTANTS
  Routers,     \* the other routers; a router's id and address are the router
  Ifaces,      \* this router's interfaces, 1 .. n in the order of if_list
  Link,        \* <<r, i>>: r's HELLOs arrive on interface i
  Timeout,     \* OSPF_NEIGHBOR_TIMEOUT
  QuietLimit   \* bound: where the count of a router's silence stops

None == 0      \* neighbor_id and neighbor_ip of an interface without neighbour

ASSUME NeighborsAssumption ==
  /\ IsFiniteSet(Routers) /\ None \notin Routers
  /\ Ifaces \subseteq Nat
  /\ Link \subseteq Routers \X Ifaces
  /\ Timeout \in Nat \ {0}
  /\ QuietLimit \in Nat /\ QuietLimit >= Timeout

VARIABLES
  list,      \* g_neighbors after its dummy head
  nbrId,     \* neighbor_id of each interface
  nbrIp,     \* neighbor_ip of each interface
  hello,     \* the HELLO the receive thread is handling, and how far it is
  walk,      \* position of the entry the life check looks at next, 0: none
  dead,      \* the life check's list of removed neighbours still to clear
  clearing,  \* the interface whose neighbor_ip it clears next, or None
  lsus,      \* interfaces a send_lsu thread has been started for
  quiet,     \* life checks since a router's last HELLO
  up         \* FALSE once the process has died

vars == <<list, nbrId, nbrIp, hello, walk, dead, clearing, lsus, quiet, up>>

Neighbor == [id : Routers, alive : 0 .. Timeout]
NoHello == [at |-> "idle", id |-> None, rx |-> None, known |-> FALSE]

Listed(r) == \E k \in DOMAIN list : list[k].id = r

Init ==
  /\ list = <<>>
  /\ nbrId = [i \in Ifaces |-> None]
  /\ nbrIp = [i \in Ifaces |-> None]
  /\ hello = NoHello
  /\ walk = 0 /\ dead = <<>> /\ clearing = None
  /\ lsus = {}
  /\ quiet = [r \in Routers |-> 0]
  /\ up = TRUE
-----------------------------------------------------------------------------
(***************************************************************************)
(* A HELLO that passes the checks of sr_handle_pwospf_hello_packet (packet *)
(* valid, network mask and hello interval ours; any other is dropped) is   *)
(* looked up in the list.                                                  *)
(***************************************************************************)
Hello(r, i) ==
  /\ up /\ hello = NoHello
  /\ <<r, i>> \in Link
  /\ hello' = [at |-> "set", id |-> r, rx |-> i, known |-> Listed(r)]
  /\ UNCHANGED <<list, nbrId, nbrIp, walk, dead, clearing, lsus, quiet, up>>

\* rx_if->neighbor_id and rx_if->neighbor_ip, one after the other.
HelloSetId ==
  /\ up /\ hello.at = "set"
  /\ nbrId' = [nbrId EXCEPT ![hello.rx] = hello.id]
  /\ hello' = [hello EXCEPT !.at = "setip"]
  /\ UNCHANGED <<list, nbrIp, walk, dead, clearing, lsus, quiet, up>>

HelloSetIp ==
  /\ up /\ hello.at = "setip"
  /\ nbrIp' = [nbrIp EXCEPT ![hello.rx] = hello.id]
  /\ hello' = [hello EXCEPT !.at = "update"]
  /\ UNCHANGED <<list, nbrId, walk, dead, clearing, lsus, quiet, up>>

(***************************************************************************)
(* create_ospfv2_neighbor and add_neighbor: a full timer, at the front.    *)
(* refresh_neighbors_alive restarts the timer of the first entry of r, and *)
(* adds one if the list has none.                                          *)
(***************************************************************************)
AddNeighbor(r, l) == <<[id |-> r, alive |-> Timeout]>> \o l

RefreshAdds(r, l) == AddNeighbor(r, l)
RefreshFirst(r, l) ==
  IF l # <<>> THEN [l EXCEPT ![1].alive = Timeout] ELSE AddNeighbor(r, l)
RefreshKept(r, l) ==
  IF \E k \in DOMAIN l : l[k].id = r THEN l ELSE AddNeighbor(r, l)
RefreshAlive(r, l) ==
  IF \E k \in DOMAIN l : l[k].id = r
  THEN [l EXCEPT ![CHOOSE k \in DOMAIN l :
                     l[k].id = r /\ \A j \in 1 .. k - 1 : l[j].id # r].alive =
                       Timeout]
  ELSE AddNeighbor(r, l)

(***************************************************************************)
(* The list is updated: refreshed, or a new neighbour added, which the     *)
(* handler goes on to announce.  An addition is behind the life check's    *)
(* walk, unless the walk is still at the head of the list.                 *)
(***************************************************************************)
Behind(n) == IF walk > 1 THEN walk + n ELSE walk

HelloUpdate ==
  /\ up /\ hello.at = "update"
  /\ \/ /\ hello.known
        /\ list' = RefreshAlive(hello.id, list)
        /\ hello' = NoHello
     \/ /\ ~hello.known
        /\ list' = AddNeighbor(hello.id, list)
        /\ hello' = [hello EXCEPT !.at = "announce"]
  /\ walk' = Behind(Len(list') - Len(list))
  /\ quiet' = [quiet EXCEPT ![hello.id] = 0]
  /\ UNCHANGED <<nbrId, nbrIp, dead, clearing, lsus, up>>

(***************************************************************************)
(* A send_lsu thread starts for each interface with a neighbour.  (The     *)
(* increment of g_sequence_num that ends the handler shows only in LSUs.)  *)
(***************************************************************************)
HelloAnnounce ==
  /\ up /\ hello.at = "announce"
  /\ lsus' = lsus \cup {i \in Ifaces : nbrId[i] # None}
  /\ hello' = NoHello
  /\ UNCHANGED <<list, nbrId, nbrIp, walk, dead, clearing, quiet, up>>

(***************************************************************************)
(* send_lsu in its thread: it returns at once if neighbor_ip is 0, and     *)
(* otherwise hands an LSU to the ARP layer (ArpCache).                     *)
(***************************************************************************)
SendLsu(i) ==
  /\ up /\ i \in lsus
  /\ lsus' = lsus \ {i}
  /\ UNCHANGED <<list, nbrId, nbrIp, hello, walk, dead, clearing, quiet, up>>
-----------------------------------------------------------------------------
(***************************************************************************)
(* check_neighbors_life, once a second: check_neighbors_alive walks the    *)
(* list.  An entry whose timer is 0 is removed, any other is decremented;  *)
(* after a removal the walk steps over the entry behind it, which is       *)
(* neither.  The removed ids are kept, last first.                         *)
(***************************************************************************)
LifeBegin ==
  /\ up /\ walk = 0 /\ dead = <<>> /\ clearing = None
  /\ walk' = 1
  /\ quiet' = [r \in Routers |->
                 IF quiet[r] < QuietLimit THEN quiet[r] + 1 ELSE QuietLimit]
  /\ UNCHANGED <<list, nbrId, nbrIp, hello, dead, clearing, lsus, up>>

Aged(e) == [e EXCEPT !.alive = @ - 1]

LifeEntry ==
  /\ up /\ walk \in DOMAIN list
  /\ \/ /\ list[walk].alive = 0
        /\ list' = RemoveAt(list, walk)
        /\ dead' = <<list[walk].id>> \o dead
     \/ /\ list[walk].alive # 0
        /\ list' = [list EXCEPT ![walk] = Aged(@)]
        /\ UNCHANGED dead
  /\ walk' = walk + 1
  /\ UNCHANGED <<nbrId, nbrIp, hello, clearing, lsus, quiet, up>>

LifeEnd ==
  /\ up /\ walk > Len(list)
  /\ walk' = 0
  /\ UNCHANGED <<list, nbrId, nbrIp, hello, dead, clearing, lsus, quiet, up>>

(***************************************************************************)
(* For each removed neighbour: the first interface that has its id loses   *)
(* its neighbour.  The search does not stop at the end of the interface    *)
(* list, so with no such interface the process dies on a NULL pointer.     *)
(***************************************************************************)
InterfacesOf(r) == {i \in Ifaces : nbrId[i] = r}

ClearIdSkipped ==
  /\ up /\ walk = 0 /\ dead # <<>> /\ clearing = None
  /\ dead' = Tail(dead)
  /\ UNCHANGED <<list, nbrId, nbrIp, hello, walk, clearing, lsus, quiet, up>>

ClearId ==
  /\ up /\ walk = 0 /\ dead # <<>> /\ clearing = None
  /\ \E i \in InterfacesOf(Head(dead)) :
       /\ \A j \in InterfacesOf(Head(dead)) : i <= j
       /\ nbrId' = [nbrId EXCEPT ![i] = None]
       /\ clearing' = i
  /\ dead' = Tail(dead)
  /\ UNCHANGED <<list, nbrIp, hello, walk, lsus, quiet, up>>

ClearIp ==
  /\ up /\ clearing # None
  /\ nbrIp' = [nbrIp EXCEPT ![clearing] = None]
  /\ clearing' = None
  /\ UNCHANGED <<list, nbrId, hello, walk, dead, lsus, quiet, up>>

NoInterface ==
  /\ up /\ walk = 0 /\ dead # <<>> /\ clearing = None
  /\ InterfacesOf(Head(dead)) = {}
  /\ up' = FALSE
  /\ UNCHANGED <<list, nbrId, nbrIp, hello, walk, dead, clearing, lsus, quiet>>
-----------------------------------------------------------------------------
Receive == HelloSetId \/ HelloSetIp \/ HelloUpdate \/ HelloAnnounce
Life    == LifeBegin \/ LifeEntry \/ LifeEnd \/ ClearId \/ ClearIp \/ NoInterface

Next ==
  \/ \E r \in Routers, i \in Ifaces : Hello(r, i)
  \/ Receive
  \/ Life
  \/ \E i \in Ifaces : SendLsu(i)

(***************************************************************************)
(* The receive thread finishes the HELLO it is handling, the life check    *)
(* runs every second and a thread that was started runs.  Nothing obliges  *)
(* a router to send HELLOs.                                                *)
(***************************************************************************)
Fairness ==
  /\ WF_vars(Receive)
  /\ WF_vars(Life)
  /\ \A i \in Ifaces : WF_vars(SendLsu(i))

Spec == Init /\ [][Next]_vars
FairSpec == Spec /\ Fairness
-----------------------------------------------------------------------------
\* Every variable has its type.
TypeOK ==
  /\ list \in Seq(Neighbor)
  /\ nbrId \in [Ifaces -> Routers \cup {None}]
  /\ nbrIp \in [Ifaces -> Routers \cup {None}]
  /\ hello \in [at : {"idle", "set", "setip", "update", "announce"},
                id : Routers \cup {None}, rx : Ifaces \cup {None},
                known : BOOLEAN]
  /\ walk \in Nat
  /\ dead \in Seq(Routers)
  /\ clearing \in Ifaces \cup {None}
  /\ lsus \subseteq Ifaces
  /\ quiet \in [Routers -> 0 .. QuietLimit]
  /\ up \in BOOLEAN

(***************************************************************************)
(* A router is in the list at most once, although the handler decides      *)
(* between refresh and add by a look at the list it took earlier.          *)
(***************************************************************************)
OneEntryPerRouter ==
  \A j, k \in DOMAIN list : list[j].id = list[k].id => j = k

(***************************************************************************)
(* An interface never keeps a neighbour whose timer nobody runs: the       *)
(* neighbour is in the list, or the life check has still to clear the      *)
(* interface, or the HELLO that set it is about to be recorded.            *)
(***************************************************************************)
NoStaleInterface ==
  \A i \in Ifaces : nbrId[i] # None =>
    \/ Listed(nbrId[i])
    \/ \E k \in DOMAIN dead : dead[k] = nbrId[i]
    \/ hello.id = nbrId[i]

(***************************************************************************)
(* A neighbour is removed only after more than Timeout life checks without *)
(* a HELLO from it, whatever is removed in front of it meanwhile.          *)
(***************************************************************************)
NoEarlyRemoval ==
  [][\A r \in Routers : Listed(r) /\ ~Listed(r)' => quiet[r] >= Timeout]_vars

(***************************************************************************)
(* It is not removed much later either: check Timeout + 1 would remove it, *)
(* but the entry behind a removed one misses a check, and one other        *)
(* router, leaving and coming back, can make it miss two.  (Each further   *)
(* router can make it miss more: Timeout + 1 of them, taking turns, would  *)
(* keep a silent neighbour for ever.)                                      *)
(***************************************************************************)
RemovedInTime ==
  Cardinality(Routers) <= 2 =>
    \A r \in Routers : Listed(r) => quiet[r] <= Timeout + 3

(***************************************************************************)
(* A router that stops sending HELLOs is forgotten: it leaves the list and *)
(* every interface, for good (or the process dies).                        *)
(***************************************************************************)
Forgotten(r) == ~Listed(r) /\ \A i \in Ifaces : nbrId[i] # r
SilentForgotten ==
  \A r \in Routers : <>[](hello.id # r) => <>[](Forgotten(r) \/ ~up)
=============================================================================
