---------------------------- MODULE RoutingTable ----------------------------
(***************************************************************************)
(* The routing table as it lies in memory, with the threads that share it. *)
(* It is a linked list without a lock: each Dijkstra run locks a mutex of  *)
(* its own (dijkstra_param_t holds a copy), so runs overlap.  A run clears *)
(* the dynamic routes and adds its own, the start-up thread adds the       *)
(* connected ones, send_lsu counts the routes and then walks them again to *)
(* fill its LSU, and the IP handler looks for the route of a packet.       *)
(*                                                                         *)
(* An entry is a cell of memory.  What was freed keeps its next pointer    *)
(* and its distance but not its network, over which the allocator writes,  *)
(* and what is allocated holds whatever was left there until it is filled. *)
(***************************************************************************)
EXTENDS Naturals, Sequences

CONSTANTS
  Cells,      \* memory for entries
  Wild,       \* a pointer to anywhere
  Junk,       \* what memory holds in place of a network
  Runs,       \* Dijkstra runs
  Start,      \* pwospf_run_thread
  Lsu,        \* a send_lsu thread
  Forward,    \* the receive thread, in sr_handle_ip_packet
  Connected,  \* networks of the interfaces, in their order
  Targets,    \* networks of the topology table, in its order
  Tables      \* tables there may be when the first run begins

Nil == 0

Adders == Runs \cup {Start}
Threads == Adders \cup {Lsu, Forward}
Seen(s) == {s[k] : k \in DOMAIN s}
Nets == Seen(Connected) \cup Seen(Targets)
        \cup UNION {{r.dest : r \in Seen(table.routes)} : table \in Tables}
Ptrs == Cells \cup {Nil, Wild}
Entry == [dest : Nets \cup {Junk}, dynamic : BOOLEAN, next : Ptrs]
Route == [dest : Nets, dynamic : BOOLEAN]

ASSUME RoutingTableAssumption ==
  /\ Cells \subseteq Nat \ {Nil}
  /\ Start \notin Runs /\ Lsu \notin Adders /\ Forward \notin Adders \cup {Lsu}
  /\ Wild \notin Cells \cup {Nil} /\ Junk \notin Nets
  /\ Nil \notin Nets \cup {Junk}
  /\ Connected \in Seq(Seen(Connected)) /\ Targets \in Seq(Seen(Targets))
  /\ Tables \subseteq [routes : Seq(Route), done : BOOLEAN]
  /\ \A table \in Tables :
       /\ 1 .. Len(table.routes) \subseteq Cells
       /\ \E fixed \in 0 .. Len(table.routes) :
            /\ \A c \in DOMAIN table.routes : table.routes[c].dynamic <=> c > fixed
            /\ table.done \/ fixed = Len(table.routes)

VARIABLES
  head,      \* sr->routing_table
  cells,     \* memory
  used,      \* cells that are allocated
  pc,        \* where each thread is
  at,        \* the entry each thread looks at
  held,      \* temp of a run's sr_del_rt_entry; longestMatch of the IP handler
  k,         \* position of an adder in its networks
  lsu,       \* count_routes' result, the LSAs written, and what the LSU met
  want,      \* the packet the IP handler has: its network, and whether its
             \* route was kept when it came
  kept,      \* history: the connected routes that preceded every run
  up         \* the process has not died

memory == <<head, cells, used>>
walk == <<pc, at, held, k>>
vars == <<memory, walk, lsu, want, kept, up>>

Todo(t) == IF t = Start THEN Connected ELSE Targets
Go(t, place) == pc' = [pc EXCEPT ![t] = place]
GoAt(t, place, p) == Go(t, place) /\ at' = [at EXCEPT ![t] = p]
Stay == UNCHANGED <<lsu, want, kept, up>>
\* A thread goes on without having changed anything but where it looks.
MoveAt(t, place, p) == GoAt(t, place, p) /\ UNCHANGED <<memory, held, k>> /\ Stay
Move(t, place) == MoveAt(t, place, at[t])

\* A thread dereferences what is no entry.
Die == up' = FALSE /\ UNCHANGED <<memory, walk, lsu, want, kept>>

Listed(routes) ==
  [c \in Cells |->
     IF c \in DOMAIN routes
     THEN [dest |-> routes[c].dest, dynamic |-> routes[c].dynamic,
           next |-> IF c = Len(routes) THEN Nil ELSE c + 1]
     ELSE [dest |-> Junk, dynamic |-> FALSE, next |-> Nil]]
Static(routes) == [c \in {c \in DOMAIN routes : ~routes[c].dynamic} |-> c]

(***************************************************************************)
(* Either the start-up thread has still to add the connected routes, and   *)
(* the table holds what sr_load_rt read, or it is done.  Runs may begin at *)
(* any time: an LSU is handled once the router has an id.  Computed routes *)
(* are behind the others: what was not computed was added before them.     *)
(***************************************************************************)
Init ==
  \E table \in Tables :
    /\ head = IF table.routes = <<>> THEN Nil ELSE 1
    /\ cells = Listed(table.routes)
    /\ used = DOMAIN table.routes
    /\ pc = [t \in Threads |-> IF t # Start THEN "idle"
                               ELSE IF table.done THEN "done" ELSE "next"]
    /\ at = [t \in Threads |-> Nil]
    /\ held = [t \in Threads |-> Nil]
    /\ k = [t \in Adders |-> 1]
    /\ lsu = [counted |-> 0, filled |-> 0, kept |-> 0, settled |-> FALSE]
    /\ want = [net |-> Junk, due |-> FALSE]
    /\ kept = Static(table.routes)
    /\ up = TRUE
-----------------------------------------------------------------------------
(***************************************************************************)
(* clear_routes: the entry after the one at hand is deleted if its         *)
(* distance is above 1.  sr_del_rt_entry reads previous_entry->next        *)
(* afresh.                                                                 *)
(***************************************************************************)
Begin(t) ==
  /\ pc[t] = "idle"
  /\ MoveAt(t, "clear", head)

IsDynamicAny(e) == TRUE
IsDynamic(e) == e.dynamic

\* Past the end there is nothing.
NextOf(t) == IF at[t] = Nil THEN Nil ELSE cells[at[t]].next

Clear(t) ==
  /\ pc[t] = "clear"
  /\ \/ /\ NextOf(t) = Nil
        /\ Move(t, "next")
     \/ /\ NextOf(t) \in Cells /\ IsDynamic(cells[NextOf(t)])
        /\ Move(t, "take")
     \/ /\ NextOf(t) \in Cells /\ ~IsDynamic(cells[NextOf(t)])
        /\ MoveAt(t, "clear", NextOf(t))
     \/ NextOf(t) = Wild /\ Die

Take(t) ==
  /\ pc[t] = "take"
  /\ held' = [held EXCEPT ![t] = cells[at[t]].next]
  /\ Go(t, "unlink")
  /\ UNCHANGED <<memory, at, k>> /\ Stay

Unlink(t) ==
  /\ pc[t] = "unlink"
  /\ LET next == cells[at[t]].next
     IN IF next \in Cells
        THEN /\ cells' = [cells EXCEPT ![at[t]].next = cells[next].next]
             /\ Go(t, "free")
             /\ UNCHANGED <<head, used, at, held, k>> /\ Stay
        ELSE Die

\* free(temp); the allocator ends the process if temp is free already.
Free(t) ==
  /\ pc[t] = "free"
  /\ IF held[t] \in used
     THEN /\ used' = used \ {held[t]}
          /\ cells' = [cells EXCEPT ![held[t]].dest = Junk]
          /\ held' = [held EXCEPT ![t] = Nil]
          /\ Go(t, "clear")
          /\ UNCHANGED <<head, at, k>> /\ Stay
     ELSE IF held[t] = Nil
     THEN Move(t, "clear")
     ELSE Die
-----------------------------------------------------------------------------
(***************************************************************************)
(* check_route for the next network, and sr_add_rt_entry if there is no    *)
(* route to it.                                                            *)
(***************************************************************************)
NextNet(t) ==
  /\ pc[t] = "next"
  /\ IF k[t] > Len(Todo(t))
     THEN Move(t, "done")
     ELSE MoveAt(t, "check", head)

CheckRoute(t) ==
  /\ pc[t] = "check"
  /\ \/ /\ at[t] = Nil
        /\ Move(t, "add")
     \/ /\ at[t] \in Cells /\ cells[at[t]].dest = Todo(t)[k[t]]
        /\ k' = [k EXCEPT ![t] = @ + 1]
        /\ GoAt(t, "next", Nil) /\ UNCHANGED <<memory, held>> /\ Stay
     \/ /\ at[t] \in Cells /\ cells[at[t]].dest # Todo(t)[k[t]]
        /\ MoveAt(t, "check", cells[at[t]].next)
     \/ at[t] = Wild /\ Die

Add(t) ==
  /\ pc[t] = "add"
  /\ MoveAt(t, IF head = Nil THEN "first" ELSE "tail", head)

\* malloc: the cell holds what it held, or what other data left in it.
Allocate(c) ==
  /\ c \in Cells \ used
  /\ used' = used \cup {c}
Leftover(c) ==
  [dest : {Junk}, dynamic : BOOLEAN, next : {cells[c].next, Wild}]

LinkFirst(t) ==
  /\ pc[t] = "first"
  /\ \E c \in Cells : \E e \in Leftover(c) :
       /\ Allocate(c)
       /\ head' = c
       /\ cells' = [cells EXCEPT ![c] = e]
  /\ Go(t, "fillfirst")
  /\ UNCHANGED <<at, held, k>> /\ Stay

Tail_(t) ==
  /\ pc[t] = "tail"
  /\ LET next == cells[at[t]].next
     IN \/ /\ next = Nil
           /\ Move(t, "link")
        \/ /\ next \in Cells
           /\ MoveAt(t, "tail", next)
        \/ next = Wild /\ Die

Link(t) ==
  /\ pc[t] = "link"
  /\ \E c \in Cells : \E e \in Leftover(c) :
       /\ Allocate(c)
       /\ cells' = [cells EXCEPT ![c] = e, ![at[t]].next = c]
  /\ Go(t, "fill")
  /\ UNCHANGED <<head, at, held, k>> /\ Stay

(***************************************************************************)
(* The new entry is found again through the pointer to it, which may be    *)
(* another's by now.                                                       *)
(***************************************************************************)
NewEntry(t) == [dest |-> Todo(t)[k[t]], dynamic |-> t # Start, next |-> Nil]
NoRunYet == \A r \in Runs : pc[r] = "idle"
Fill(t) ==
  /\ pc[t] \in {"fill", "fillfirst"}
  /\ LET c == IF pc[t] = "fill" THEN cells[at[t]].next ELSE head
     IN IF c \in Cells
        THEN /\ cells' = [cells EXCEPT ![c] = NewEntry(t)]
             /\ kept' = IF t = Start /\ NoRunYet THEN Append(kept, c) ELSE kept
             /\ k' = [k EXCEPT ![t] = @ + 1]
             /\ GoAt(t, "next", Nil)
             /\ UNCHANGED <<head, used, held, lsu, want, up>>
        ELSE Die
-----------------------------------------------------------------------------
(***************************************************************************)
(* send_lsu: count_routes, and the walk that writes an LSA for each route  *)
(* that is not dynamic, with its interface's neighbour.  An entry that is  *)
(* not filled yet names no interface.  Settled: start-up is over, and the  *)
(* routes that are not dynamic were all there before the first run.        *)
(***************************************************************************)
Settled ==
  /\ pc[Start] = "done"
  /\ \A c \in Cells :
       cells[c].dest # Junk /\ ~cells[c].dynamic => c \in Seen(kept)

LsuBegin ==
  /\ pc[Lsu] \in {"idle", "sent"}
  /\ lsu' = [counted |-> 0, filled |-> 0, kept |-> Len(kept),
             settled |-> Settled]
  /\ GoAt(Lsu, "count", head)
  /\ UNCHANGED <<memory, held, k, want, kept, up>>

CountsNext(e) == ~e.dynamic /\ e.next # Nil
Counts(e) == ~e.dynamic

Count ==
  /\ pc[Lsu] = "count"
  /\ \/ /\ at[Lsu] = Nil
        /\ MoveAt(Lsu, "write", head)
     \/ /\ at[Lsu] \in Cells
        /\ lsu' = [lsu EXCEPT !.counted =
                     IF Counts(cells[at[Lsu]]) THEN @ + 1 ELSE @]
        /\ GoAt(Lsu, "count", cells[at[Lsu]].next)
        /\ UNCHANGED <<memory, held, k, want, kept, up>>
     \/ at[Lsu] = Wild /\ Die

Write ==
  /\ pc[Lsu] = "write"
  /\ \/ /\ at[Lsu] = Nil
        /\ Move(Lsu, "sent")
     \/ /\ at[Lsu] \in Cells /\ cells[at[Lsu]].dynamic
        /\ MoveAt(Lsu, "write", cells[at[Lsu]].next)
     \/ /\ at[Lsu] \in Cells /\ ~cells[at[Lsu]].dynamic
        /\ cells[at[Lsu]].dest # Junk
        /\ lsu' = [lsu EXCEPT !.filled = @ + 1]
        /\ GoAt(Lsu, "write", cells[at[Lsu]].next)
        /\ UNCHANGED <<memory, held, k, want, kept, up>>
     \/ /\ at[Lsu] = Wild \/ ( /\ at[Lsu] \in Cells
                               /\ ~cells[at[Lsu]].dynamic
                               /\ cells[at[Lsu]].dest = Junk )
        /\ Die
-----------------------------------------------------------------------------
(***************************************************************************)
(* sr_longest_prefix_match for a packet (the networks do not overlap), and *)
(* the use of the entry it found, which may have been freed or be another  *)
(* network's by then.                                                      *)
(***************************************************************************)
Outcomes == {"forwarded", "misrouted", "dropped", "unreachable"}

PacketIn ==
  /\ pc[Forward] \in Outcomes \cup {"idle"}
  /\ \E n \in Nets :
       want' = [net |-> n, due |-> \E c \in Seen(kept) : cells[c].dest = n]
  /\ GoAt(Forward, "match", head)
  /\ UNCHANGED <<memory, held, k, lsu, kept, up>>

Match ==
  /\ pc[Forward] = "match"
  /\ \/ /\ at[Forward] = Nil
        /\ Move(Forward, "use")
     \/ /\ at[Forward] \in Cells
        /\ held' = IF cells[at[Forward]].dest = want.net /\ held[Forward] = Nil
                   THEN [held EXCEPT ![Forward] = at[Forward]] ELSE held
        /\ GoAt(Forward, "match", cells[at[Forward]].next)
        /\ UNCHANGED <<memory, k>> /\ Stay
     \/ at[Forward] = Wild /\ Die

Use ==
  /\ pc[Forward] = "use"
  /\ LET dest == IF held[Forward] = Nil THEN Nil ELSE cells[held[Forward]].dest
     IN Go(Forward, CASE dest = Nil -> "unreachable"
                      [] dest = Junk -> "dropped"
                      [] dest = want.net -> "forwarded"
                      [] OTHER -> "misrouted")
  /\ held' = [held EXCEPT ![Forward] = Nil]
  /\ UNCHANGED <<at, memory, k>> /\ Stay
-----------------------------------------------------------------------------
AdderStep(t) ==
  \/ NextNet(t) \/ CheckRoute(t) \/ Add(t) \/ LinkFirst(t) \/ Tail_(t)
  \/ Link(t) \/ Fill(t)
RunStep(t) ==
  Begin(t) \/ Clear(t) \/ Take(t) \/ Unlink(t) \/ Free(t) \/ AdderStep(t)
LsuStep == LsuBegin \/ Count \/ Write
ForwardStep == PacketIn \/ Match \/ Use

Next ==
  /\ up
  /\ (\E t \in Runs : RunStep(t)) \/ AdderStep(Start) \/ LsuStep \/ ForwardStep

Spec == Init /\ [][Next]_vars
-----------------------------------------------------------------------------
\* The types, and that a thread which goes on from an entry has one.
TypeOK ==
  /\ head \in Cells \cup {Nil}
  /\ cells \in [Cells -> Entry]
  /\ used \subseteq Cells
  /\ pc \in [Threads -> {"idle", "clear", "take", "unlink", "free", "next",
                         "check", "add", "first", "fillfirst", "tail", "link",
                         "fill", "done", "count", "write", "sent", "match",
                         "use"} \cup Outcomes]
  /\ at \in [Threads -> Ptrs]
  /\ held \in [Threads -> Ptrs]
  /\ k \in [Adders -> Nat]
  /\ lsu \in [counted : Nat, filled : Nat, kept : Nat, settled : BOOLEAN]
  /\ want \in [net : Nets \cup {Junk}, due : BOOLEAN]
  /\ kept \in Seq(Cells)
  /\ up \in BOOLEAN
  /\ \A t \in Threads :
       pc[t] \in {"take", "unlink", "free", "tail", "link", "fill"}
         => at[t] \in Cells \/ ~up

(***************************************************************************)
(* Connected and static routes that were there before the first Dijkstra   *)
(* run began stay at the front of the table for good, whatever overlapping *)
(* runs do to the memory of the others.                                    *)
(***************************************************************************)
ConnectedKept ==
  /\ kept # <<>> => head = kept[1]
  /\ \A i \in DOMAIN kept :
       /\ kept[i] \in used
       /\ cells[kept[i]].dest \in Nets /\ ~cells[kept[i]].dynamic
       /\ i < Len(kept) => cells[kept[i]].next = kept[i + 1]

(***************************************************************************)
(* A packet for one of those networks is never refused, lost or sent       *)
(* elsewhere while runs clear the table under the match (sr_router.c looks *)
(* the entry up and uses it later, without a lock).                        *)
(***************************************************************************)
ConnectedReached == pc[Forward] \in Outcomes /\ want.due => pc[Forward] = "forwarded"

(***************************************************************************)
(* Every LSU sent announces all of them, whatever the table looks like     *)
(* between count_routes and the walk; and once start-up is over it ends    *)
(* within the packet that was allocated for the routes counted, if no run  *)
(* overlapped with start-up.  If one did, a route that it took off the     *)
(* list with a cell of its own can come back into it under the walk.       *)
(***************************************************************************)
LsuAnnounces ==
  pc[Lsu] = "sent" => lsu.counted >= lsu.kept /\ lsu.filled >= lsu.kept

LsuFits == lsu.settled /\ pc[Lsu] # "count" => lsu.filled <= lsu.counted

LsuComplete == LsuAnnounces /\ LsuFits
=============================================================================
