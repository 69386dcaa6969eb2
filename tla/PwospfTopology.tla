--------------------------- MODULE PwospfTopology ---------------------------
(***************************************************************************)
(* The topology table of one router: LSU threads                           *)
(* (sr_handle_pwospf_lsu_packet, one for each LSU received) check, refresh *)
(* and add entries while another thread ages and removes them              *)
(* (check_topology_entries_age).  Nothing is locked.                       *)
(*                                                                         *)
(* An LSU thread's walk of the table is one action, and what it does with  *)
(* the entry the walk found is another; the age check is one action for    *)
(* each entry.  LSUs are delayed, repeated and lost, their 16-bit numbers  *)
(* wrap and start at 0 again with every restart of their router: any LSU   *)
(* of a router may arrive at any time.                                     *)
(***************************************************************************)
EXTENDS Naturals, Sequences, FiniteSets, SequencesExt

CONSTANTS
  Self,         \* g_router_id
  Routers,      \* the other routers
  Nets,         \* subnets, each with its mask
  Adverts,      \* the lists of LSAs that each router may send
  Via,          \* neighbours that hand over each router's LSUs
  Workers,      \* LSU threads
  TopoTimeout,  \* OSPF_TOPO_ENTRY_TIMEOUT
  SeqNumbers,   \* bound: 2^16 in the code
  MaxEntries,   \* bound: entries allocated at once
  QuietLimit    \* bound: where the count of a claim's silence stops

None == 0       \* neighbor_id of a network or an interface with no neighbour
Origins == Routers \cup {Self}
Ids == Origins \cup {None}
Ptrs == 1 .. MaxEntries
NoPtr == 0
Lsa == [net : Nets, neighbor : Ids]
Lsu == [rid : Origins, seq : 0 .. SeqNumbers - 1, adv : Seq(Lsa)]

ASSUME TopologyAssumption ==
  /\ Self \notin Routers /\ None \notin Origins
  /\ Adverts \in [Origins -> SUBSET Seq(Lsa)]
  /\ Via \in [Origins -> SUBSET Ids]
  /\ Nets # {} /\ IsFiniteSet(Workers)
  /\ TopoTimeout \in Nat \ {0} /\ SeqNumbers \in Nat \ {0}
  /\ MaxEntries \in Nat \ {0}
  /\ QuietLimit \in Nat /\ TopoTimeout <= QuietLimit

VARIABLES
  mem,       \* the struct pwospf_topology_entry of each pointer
  table,     \* g_topology after its dummy head
  thread,    \* what each LSU thread is doing, and with what
  walk,      \* position of the entry the age check looks at next, 0: asleep
  aged,      \* the age check has removed an entry
  routed,    \* the claims in the table when Dijkstra was last started
  quiet      \* age checks since a claim was last accepted

vars == <<mem, table, thread, walk, aged, routed, quiet>>

Entry ==
  [router : Origins, net : Nets, neighbor : Ids, seq : 0 .. SeqNumbers - 1,
   age : 0 .. TopoTimeout]

OnList == {table[k] : k \in DOMAIN table}
Claims == {[router |-> mem[p].router, net |-> mem[p].net,
            neighbor |-> mem[p].neighbor] : p \in OnList}
Claimed(r, n) == \E p \in OnList : mem[p].router = r /\ mem[p].net = n

Idle == [at |-> "idle"]
Running(w, label) == thread[w].at = label
TheLsa(w) == thread[w].lsu.adv[thread[w].i]

\* The next LSA of the LSU, or the end of the loop over them.
AfterLsa(f) ==
  IF f.i < Len(f.lsu.adv)
  THEN [f EXCEPT !.at = "search", !.i = @ + 1, !.ptr = NoPtr]
  ELSE [f EXCEPT !.at = "dijkstra", !.ptr = NoPtr]

Init ==
  /\ mem = [p \in Ptrs |->
       [router |-> Self, net |-> CHOOSE n \in Nets : TRUE, neighbor |-> None,
        seq |-> 0, age |-> 0]]
  /\ table = <<>>
  /\ thread = [w \in Workers |-> Idle]
  /\ walk = 0 /\ aged = FALSE
  /\ routed = {}
  /\ quiet = [c \in Origins \X Nets |-> 0]
-----------------------------------------------------------------------------
(***************************************************************************)
(* sr_handle_pwospf_packet starts a thread for an LSU.  All that the       *)
(* thread keeps of the interface it came by is its neighbor_id.            *)
(***************************************************************************)
ReceiveLsu(w, r, via) ==
  /\ Running(w, "idle")
  /\ via \in Via[r]
  /\ \E seq \in 0 .. SeqNumbers - 1, adv \in Adverts[r] :
       thread' = [thread EXCEPT ![w] =
         [at |-> "check", lsu |-> [rid |-> r, seq |-> seq, adv |-> adv],
          via |-> via, i |-> 0, ptr |-> NoPtr]]
  /\ UNCHANGED <<mem, table, walk, aged, routed, quiet>>

(***************************************************************************)
(* check_sequence_number looks at the first entry of a router: the LSU is  *)
(* repeated unless its number is greater.  The router it is asked about is *)
(* the neighbour that handed the LSU over.                                 *)
(***************************************************************************)
FirstEntry(positions) ==
  table[CHOOSE k \in positions : \A j \in positions : k <= j]
EntriesOf(r) == {k \in DOMAIN table : mem[table[k]].router = r}

CheckSequenceKnown(r, seq) ==
  EntriesOf(r) # {} /\ mem[FirstEntry(EntriesOf(r))].seq < seq
CheckSequenceNumber(r, seq) ==
  EntriesOf(r) # {} => mem[FirstEntry(EntriesOf(r))].seq < seq

OwnLsuTaken(m) == FALSE
OwnLsu(m) == m.rid = Self

CheckLsu(w) ==
  /\ Running(w, "check")
  /\ LET m == thread[w].lsu
         fresh == CheckSequenceNumber(thread[w].via, m.seq)
     IN \/ /\ OwnLsu(m) \/ ~fresh
           /\ thread' = [thread EXCEPT ![w] = Idle]
        \/ /\ ~OwnLsu(m) /\ fresh
           /\ thread' = [thread EXCEPT ![w] = AfterLsa(@)]
  /\ UNCHANGED <<mem, table, walk, aged, routed, quiet>>

(***************************************************************************)
(* refresh_topology_entry, the walk: it ends at the router's own entry for *)
(* the network, or at an entry of another router that has a neighbour      *)
(* there, unless the two name each other; past the end, a new entry is     *)
(* due.  (The second condition of the code cannot hold: the masks were     *)
(* compared before.)                                                       *)
(***************************************************************************)
OwnLink(e, r, lsa) ==
  e.net = lsa.net /\ e.router = r /\ e.neighbor = lsa.neighbor
Own(e, r, lsa) == e.net = lsa.net /\ e.router = r
Disputes(e, r, lsa) ==
  /\ e.net = lsa.net /\ e.router # r
  /\ e.neighbor # None
  /\ e.router # lsa.neighbor \/ e.neighbor # r

Search(w) ==
  /\ Running(w, "search")
  /\ LET f == thread[w]
         ends == {k \in DOMAIN table :
                    \/ Own(mem[table[k]], f.lsu.rid, TheLsa(w))
                    \/ Disputes(mem[table[k]], f.lsu.rid, TheLsa(w))}
         p == FirstEntry(ends)
     IN thread' = [thread EXCEPT ![w] =
          IF ends = {} THEN [f EXCEPT !.at = "add"]
          ELSE IF mem[p].router = f.lsu.rid
               THEN [f EXCEPT !.at = "update", !.ptr = p]
               ELSE AfterLsa(f)]
  /\ UNCHANGED <<mem, table, walk, aged, routed, quiet>>

(***************************************************************************)
(* ... age, sequence number and neighbour of the entry found (which may    *)
(* have been freed since, or be another entry by now), or a new entry at the    *)
(* front, in the first memory that is free.                                *)
(***************************************************************************)
Accept(w) == quiet' = [quiet EXCEPT ![<<thread[w].lsu.rid, TheLsa(w).net>>] = 0]

RefreshEntryAging(w) ==
  /\ Running(w, "update")
  /\ mem' = [mem EXCEPT ![thread[w].ptr] =
       [@ EXCEPT !.seq = thread[w].lsu.seq, !.neighbor = TheLsa(w).neighbor]]
  /\ Accept(w)
  /\ thread' = [thread EXCEPT ![w] = AfterLsa(@)]
  /\ UNCHANGED <<table, walk, aged, routed>>

RefreshEntry(w) ==
  /\ Running(w, "update")
  /\ mem' = [mem EXCEPT ![thread[w].ptr] =
       [@ EXCEPT !.age = 0, !.seq = thread[w].lsu.seq,
                 !.neighbor = TheLsa(w).neighbor]]
  /\ Accept(w)
  /\ thread' = [thread EXCEPT ![w] = AfterLsa(@)]
  /\ UNCHANGED <<table, walk, aged, routed>>

AddEntry(w) ==
  /\ Running(w, "add")
  /\ \E p \in Ptrs \ OnList :
       /\ \A q \in Ptrs \ OnList : p <= q
       /\ mem' = [mem EXCEPT ![p] =
            [router |-> thread[w].lsu.rid, net |-> TheLsa(w).net,
             neighbor |-> TheLsa(w).neighbor, seq |-> thread[w].lsu.seq,
             age |-> 0]]
       /\ table' = <<p>> \o table
  /\ walk' = IF walk > 1 THEN walk + 1 ELSE walk
  /\ Accept(w)
  /\ thread' = [thread EXCEPT ![w] = AfterLsa(@)]
  /\ UNCHANGED <<aged, routed>>

\* A Dijkstra thread is started (the flooding that follows is not modelled).
StartDijkstra(w) ==
  /\ Running(w, "dijkstra")
  /\ routed' = Claims
  /\ thread' = [thread EXCEPT ![w] = Idle]
  /\ UNCHANGED <<mem, table, walk, aged, quiet>>
-----------------------------------------------------------------------------
(***************************************************************************)
(* check_topology_age, every second: an entry whose age is TopoTimeout is  *)
(* removed, any other is a second older.  The walk goes on behind the      *)
(* entry that follows a removed one.  A new entry goes in front of the     *)
(* walk unless the walk is still at the head of the list.                  *)
(***************************************************************************)
AgeBegin ==
  /\ walk = 0
  /\ walk' = 1
  /\ quiet' = [c \in DOMAIN quiet |->
                 IF quiet[c] < QuietLimit THEN quiet[c] + 1 ELSE QuietLimit]
  /\ UNCHANGED <<mem, table, thread, aged, routed>>

OlderShort(e) == [e EXCEPT !.age = IF @ < TopoTimeout - 1 THEN @ + 1 ELSE @]
Older(e) == [e EXCEPT !.age = @ + 1]

AgeEntry ==
  /\ walk \in DOMAIN table
  /\ LET p == table[walk] IN
       \/ /\ mem[p].age = TopoTimeout
          /\ table' = RemoveAt(table, walk)
          /\ aged' = TRUE
          /\ UNCHANGED mem
       \/ /\ mem[p].age # TopoTimeout
          /\ mem' = [mem EXCEPT ![p] = Older(@)]
          /\ UNCHANGED <<table, aged>>
  /\ walk' = walk + 1
  /\ UNCHANGED <<thread, routed, quiet>>

AgeEndSilent ==
  /\ walk > Len(table)
  /\ walk' = 0
  /\ aged' = FALSE
  /\ UNCHANGED <<mem, table, thread, routed, quiet>>

\* With an entry removed, check_topology_entries_age starts Dijkstra.
AgeEnd ==
  /\ walk > Len(table)
  /\ walk' = 0
  /\ aged' = FALSE
  /\ routed' = IF aged THEN Claims ELSE routed
  /\ UNCHANGED <<mem, table, thread, quiet>>
-----------------------------------------------------------------------------
LsuThread(w) ==
  \/ CheckLsu(w) \/ Search(w) \/ RefreshEntry(w) \/ AddEntry(w)
  \/ StartDijkstra(w)
AgeThread == AgeBegin \/ AgeEntry \/ AgeEnd

Next ==
  \/ \E w \in Workers, r \in Origins, via \in Ids : ReceiveLsu(w, r, via)
  \/ \E w \in Workers : LsuThread(w)
  \/ AgeThread

(***************************************************************************)
(* A started thread runs to its end and the age check runs every second.   *)
(* Nothing obliges a router to send LSUs or the network to deliver them.   *)
(***************************************************************************)
Fairness ==
  /\ \A w \in Workers : WF_vars(LsuThread(w))
  /\ WF_vars(AgeThread)

Spec == Init /\ [][Next]_vars
FairSpec == Spec /\ Fairness
-----------------------------------------------------------------------------
\* Every variable has its type; no age passes the one that removes an entry;
\* a thread that deals with an LSA is at one of its LSU.
Jobs ==
  {f \in [at : {"check", "search", "update", "add", "dijkstra"}, lsu : Lsu,
          via : Ids, i : Nat, ptr : Ptrs \cup {NoPtr}] :
     /\ f.lsu.adv \in Adverts[f.lsu.rid]
     /\ f.i \in 0 .. Len(f.lsu.adv)
     /\ f.at \in {"search", "update", "add"} => f.i # 0
     /\ f.at = "update" => f.ptr # NoPtr}

TypeOK ==
  /\ mem \in [Ptrs -> Entry]
  /\ table \in Seq(Ptrs)
  /\ thread \in [Workers -> {Idle} \cup Jobs]
  /\ walk \in Nat /\ aged \in BOOLEAN
  /\ routed \subseteq [router : Origins, net : Nets, neighbor : Ids]
  /\ quiet \in [Origins \X Nets -> 0 .. QuietLimit]

(***************************************************************************)
(* The table has one entry for each network of a router, although the walk *)
(* that misses it and the addition are two steps: threads that missed it   *)
(* together may each add one, and no more are added while any is there.    *)
(***************************************************************************)
Adding(r, n) ==
  {w \in Workers : /\ Running(w, "add")
                   /\ thread[w].lsu.rid = r /\ TheLsa(w).net = n}
Copies(r, n) == {p \in OnList : mem[p].router = r /\ mem[p].net = n}
BoundedCopies ==
  \A r \in Origins, n \in Nets :
    Cardinality(Copies(r, n)) + Cardinality(Adding(r, n))
      <= Cardinality(Workers)

(***************************************************************************)
(* Every claim in the table is one its router makes: no entry has another  *)
(* router's neighbour, and none is about this router itself.               *)
(***************************************************************************)
Makes(r, n, nb) ==
  \E adv \in Adverts[r] : \E i \in DOMAIN adv :
    adv[i] = [net |-> n, neighbor |-> nb]
ClaimsAreMade ==
  \A c \in Claims : c.router # Self /\ Makes(c.router, c.net, c.neighbor)

(***************************************************************************)
(* A claim leaves the table only after TopoTimeout age checks without an   *)
(* accepted LSA for it, whatever is removed in front of it.                *)
(***************************************************************************)
NoEarlyExpiry ==
  [][\A r \in Routers, n \in Nets :
       Claimed(r, n) /\ ~Claimed(r, n)' => quiet[<<r, n>>] >= TopoTimeout]_vars

(***************************************************************************)
(* The routes follow the table: whenever a claim in it differs from those  *)
(* the last Dijkstra run was started with, a thread has a run to start.    *)
(***************************************************************************)
RoutesFollow ==
  routed # Claims =>
    aged \/ \E w \in Workers :
             thread[w].at \in {"search", "update", "add", "dijkstra"}

(***************************************************************************)
(* A router whose LSUs stop arriving is forgotten.                         *)
(***************************************************************************)
Handling(r) == \E w \in Workers : thread[w] # Idle /\ thread[w].lsu.rid = r
SilentExpires ==
  \A r \in Routers : <>[]~Handling(r) => <>[](\A n \in Nets : ~Claimed(r, n))

(***************************************************************************)
(* A neighbour whose LSUs keep arriving is in the table again and again,   *)
(* in spite of its restarts and of the wrap of its sequence numbers.       *)
(***************************************************************************)
Checking(r) ==
  \E w \in Workers : Running(w, "check") /\ thread[w].lsu.rid = r
                                         /\ thread[w].via = r
ArrivingIsKept ==
  \A r \in Routers : []<>Checking(r) => []<>(\E n \in Nets : Claimed(r, n))
=============================================================================
