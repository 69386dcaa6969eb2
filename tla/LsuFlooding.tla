---------------------------- MODULE LsuFlooding -----------------------------
(***************************************************************************)
(* LSUs on their way through a network of routers: each one that takes an  *)
(* LSU sends it on to its other neighbours, so that where the routers form *)
(* a ring it goes round until its TTL is used up; nobody remembers having  *)
(* had it, for the number is compared with that of the neighbour that      *)
(* handed it over.  Routers are killed and started again, their neighbours *)
(* notice by HELLOs, and what the others know of them ages.                *)
(*                                                                         *)
(* A handler is one action here (PwospfTopology has its steps, and what an *)
(* LSU says of each link); the handlers are threads, so the LSUs that lie  *)
(* at a router are handled in any order.  A link joins two routers.        *)
(***************************************************************************)
EXTENDS Naturals, FiniteSets

CONSTANTS
  Routers,
  Links,        \* sets of two routers
  Mortal,       \* the routers that may be killed
  LastNumber,   \* bound: the number that each router does not exceed
  BadSum,       \* the routers in whose memory a packet is not followed by 0s
  LsuTtl,       \* TTL of an LSU: 64 in the code
  TopoTimeout,  \* OSPF_TOPO_ENTRY_TIMEOUT
  Late          \* bound: LSUs under way when a second has passed

ASSUME LsuFloodingAssumption ==
  /\ \A l \in Links : l \subseteq Routers /\ Cardinality(l) = 2
  /\ Mortal \subseteq Routers /\ BadSum \subseteq Routers
  /\ LastNumber \in [Routers -> Nat]
  /\ LsuTtl \in Nat \ {0} /\ TopoTimeout \in Nat \ {0}
  /\ Late \in Nat

Pairs == {p \in Routers \X Routers : {p[1], p[2]} \in Links}
Unknown == [seq |-> 0, life |-> 0, age |-> 0]

VARIABLES
  life,      \* times each router was started, or 0 while it is down
  number,    \* g_sequence_num
  hears,     \* <<r, s>>: r's interface towards s has s as its neighbor_id
  know,      \* r's entry for the links of o: its number and age
  lsus       \* LSUs sent and not yet handled

floodVars == <<life, number, hears, know, lsus>>

Up(r) == life[r] > 0
Neighbors(r) == {s \in Routers : <<r, s>> \in hears}

FloodInit ==
  /\ life = [r \in Routers |-> 1]
  /\ number = [r \in Routers |-> 0]
  /\ hears = Pairs
  /\ know = [r \in Routers |-> [o \in Routers |-> Unknown]]
  /\ lsus = {}
-----------------------------------------------------------------------------
\* send_lsu to every neighbour of r, and g_sequence_num++.
Announced(r, to) ==
  {[from |-> r, to |-> s, origin |-> r, seq |-> number[r], life |-> life[r],
    ttl |-> LsuTtl] : s \in to}
Counted(r) ==
  [number EXCEPT ![r] = IF @ < LastNumber[r] THEN @ + 1 ELSE @]
Silent(r) == LastNumber[r] = 0

\* send_all_lsu: a round is over long before the next one is due.
Round(r) ==
  /\ Up(r) /\ ~Silent(r)
  /\ \A m \in lsus : m.origin # r \/ m.life # life[r]
  /\ lsus' = lsus \cup Announced(r, Neighbors(r))
  /\ number' = Counted(r)
  /\ UNCHANGED <<life, hears, know>>

\* sr_handle_pwospf_hello_packet, for a neighbour that is new.
NewNeighbor(r, s) ==
  /\ Up(r) /\ Up(s) /\ <<r, s>> \in Pairs \ hears
  /\ hears' = hears \cup {<<r, s>>}
  /\ IF Silent(r)
     THEN UNCHANGED <<lsus, number>>
     ELSE /\ lsus' = lsus \cup Announced(r, Neighbors(r) \cup {s})
          /\ number' = Counted(r)
  /\ UNCHANGED <<life, know>>

\* check_neighbors_life: nothing but the interface is changed.
LostNeighbor(r, s) ==
  /\ Up(r) /\ ~Up(s) /\ <<r, s>> \in hears
  /\ hears' = hears \ {<<r, s>>}
  /\ UNCHANGED <<life, number, know, lsus>>
-----------------------------------------------------------------------------
(***************************************************************************)
(* sr_handle_pwospf_lsu_packet, up to its flooding.  Without a neighbour   *)
(* on the interface there is no entry to compare the number with.          *)
(***************************************************************************)
Repeated(m) ==
  /\ <<m.to, m.from>> \in hears
  /\ know[m.to][m.from] # Unknown
  /\ know[m.to][m.from].seq >= m.seq

Own(m) == m.origin = m.to
Taken(m) == ~Own(m) /\ ~Repeated(m)

(***************************************************************************)
(* The flooding.  The checksum is computed over 40 bytes too many, beyond  *)
(* the packet in memory: if they are not 0 the next routers drop the LSU,  *)
(* for which `valid` stands.                                               *)
(***************************************************************************)
OnwardBack(m) == Neighbors(m.to)
Onward(m) == Neighbors(m.to) \ {m.from}

TtlKept(m) == m.ttl
TtlLeft(m) == m.ttl - 1

Flooded(m, valid) ==
  IF m.ttl < 1 \/ ~valid THEN {}
  ELSE {[m EXCEPT !.from = m.to, !.to = s, !.ttl = TtlLeft(m)] : s \in Onward(m)}

Receive(m) ==
  /\ Up(m.to)
  /\ IF Taken(m)
     THEN /\ know' = [know EXCEPT ![m.to][m.origin] =
                        [seq |-> m.seq, life |-> m.life, age |-> 0]]
          /\ \E valid \in {TRUE, m.to \notin BadSum} : lsus' = (lsus \ {m}) \cup Flooded(m, valid)
     ELSE lsus' = lsus \ {m} /\ UNCHANGED know
  /\ UNCHANGED <<life, number, hears>>

\* Nobody is there to receive it.
Lost(m) ==
  /\ ~Up(m.to)
  /\ lsus' = lsus \ {m}
  /\ UNCHANGED <<life, number, hears, know>>
-----------------------------------------------------------------------------
(***************************************************************************)
(* check_topology_age, in a thread of every router, once a second: the     *)
(* routers' seconds are taken to pass together, and to be much longer than *)
(* an LSU's way: no more than Late of them lag behind.                     *)
(***************************************************************************)
AgedNever(e) == e
Aged(e) ==
  IF e = Unknown \/ e.age = TopoTimeout THEN Unknown
  ELSE [e EXCEPT !.age = @ + 1]
Age ==
  /\ Cardinality(lsus) <= Late
  /\ \E r \in Routers : Up(r) /\ \E o \in Routers : know[r][o] # Unknown
  /\ know' = [r \in Routers |->
                IF Up(r) THEN [o \in Routers |-> Aged(know[r][o])] ELSE know[r]]
  /\ UNCHANGED <<life, number, hears, lsus>>

\* The process is killed, and started again: pwospf_init.
Kill(r) ==
  /\ r \in Mortal /\ life[r] = 1
  /\ life' = [life EXCEPT ![r] = 0]
  /\ UNCHANGED <<number, hears, know, lsus>>
Restart(r) ==
  /\ life[r] = 0
  /\ life' = [life EXCEPT ![r] = 2]
  /\ number' = [number EXCEPT ![r] = 0]
  /\ hears' = {p \in hears : p[1] # r}
  /\ know' = [know EXCEPT ![r] = [o \in Routers |-> Unknown]]
  /\ UNCHANGED lsus
-----------------------------------------------------------------------------
FloodNext ==
  \/ \E r \in Routers : Round(r) \/ Kill(r) \/ Restart(r)
  \/ Age
  \/ \E r, s \in Routers : NewNeighbor(r, s) \/ LostNeighbor(r, s)
  \/ \E m \in lsus : Receive(m) \/ Lost(m)

(***************************************************************************)
(* The threads are scheduled, timers run, HELLOs and LSUs on one link      *)
(* arrive; nobody need be killed or started.                               *)
(***************************************************************************)
Handle(o, n) ==
  \E m \in lsus : m.origin = o /\ m.life = n /\ (Receive(m) \/ Lost(m))
Greet == \E r, s \in Routers : NewNeighbor(r, s) \/ LostNeighbor(r, s)
FloodFairness ==
  /\ \A r \in {r \in Routers : ~Silent(r)} :
       WF_floodVars(Round(r)) /\ WF_floodVars(Handle(r, 1)) /\ WF_floodVars(Handle(r, 2))
  /\ WF_floodVars(Age) /\ WF_floodVars(Greet)
FloodSpec == FloodInit /\ [][FloodNext]_floodVars /\ FloodFairness
-----------------------------------------------------------------------------
Lsu == [from : Routers, to : Routers, origin : Routers, seq : Nat, life : 1 .. 2,
        ttl : 0 .. LsuTtl]
FloodTypeOK ==
  /\ life \in [Routers -> 0 .. 2]
  /\ number \in [Routers -> Nat]
  /\ \A r \in Routers : number[r] <= LastNumber[r]
  /\ hears \subseteq Pairs
  /\ know \in [Routers -> [Routers -> [seq : Nat, life : 0 .. 2,
                                       age : 0 .. TopoTimeout]]]
  /\ lsus \subseteq Lsu
  /\ \A m \in lsus : <<m.from, m.to>> \in Pairs /\ m.seq <= LastNumber[m.origin]

(***************************************************************************)
(* The networks in which copies do not multiply: those that announce       *)
(* themselves do it from inside a ring, or from outside one by one link.   *)
(* (A row is a ring with links missing.)                                   *)
(***************************************************************************)
Ring(S, next) ==
  /\ \A r, s \in S : next[r] = next[s] => r = s
  /\ \A r, s \in S : <<r, s>> \in Pairs => s = next[r] \/ r = next[s]
FromInside(o) == o \notin Mortal /\ \E next \in [Routers -> Routers] : Ring(Routers, next)
FromOutside(o) ==
  LET Others == Routers \ {o}
  IN /\ \A s, t \in Others : {<<o, s>>, <<o, t>>} \subseteq Pairs => s = t
     /\ \E next \in [Others -> Others] : Ring(Others, next)
Rings ==
  \A o \in {r \in Routers : ~Silent(r)} :
    /\ FromInside(o) \/ FromOutside(o)
    /\ \A s \in Routers : <<o, s>> \in Pairs => s \notin Mortal

(***************************************************************************)
(* Around one ring the copies of an LSU do not multiply: no link carries   *)
(* two of them at a time in one direction, but for a link to its origin.   *)
(***************************************************************************)
SameHop(m, n) == m.from = n.from /\ m.to = n.to
SameLsu(m, n) == m.origin = n.origin /\ m.seq = n.seq /\ m.life = n.life
OneCopyPerLink ==
  \A m, n \in lsus :
    SameLsu(m, n) /\ SameHop(m, n) /\ m.to # m.origin => m = n

(***************************************************************************)
(* Who is killed for good is forgotten for good by everyone, although the  *)
(* neighbours tell nobody and its LSUs may still go round when it dies.    *)
(***************************************************************************)
DeadForgotten ==
  \A r \in Mortal :
    <>[]~Up(r) => <>[](\A s \in Routers \ {r} : Up(s) => know[s][r] = Unknown)

(***************************************************************************)
(* Who is started again begins with number 0, and its neighbours drop its  *)
(* LSUs as repeated as long as they have the entry of its former life; but *)
(* that entry ages, and in the end they know it again.                     *)
(***************************************************************************)
RestartHeard ==
  \A r \in Mortal : \A s \in {s \in Routers \ Mortal : <<r, s>> \in Pairs} :
    [](life[r] = 2 => <>(know[s][r].life = 2))
=============================================================================
