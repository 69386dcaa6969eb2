---------------------------- MODULE LsuAnnounce -----------------------------
(***************************************************************************)
(* How a router announces its links: LSUs to every neighbour in rounds     *)
(* (send_all_lsu), and at once when a HELLO brings a new neighbour.  The   *)
(* rounds hold the lock of the subsystem; the HELLO handler and the        *)
(* send_lsu threads it starts take none, although all of them use          *)
(* g_sequence_num and the interfaces' neighbours.                          *)
(*                                                                         *)
(* Neighbours come and go; one, on Watched, stays once it is there, and    *)
(* the model follows what it makes of the LSUs: the router's claim, one    *)
(* entry of its topology table with its number, its links and its age.     *)
(* No LSU is lost or overtaken on its way (PwospfTopology has that), and   *)
(* what is due in a second happens in that second, in any order.           *)
(***************************************************************************)
EXTENDS Naturals, FiniteSets

CONSTANTS
  Ifaces,       \* the interfaces, 1 .. n in the order of if_list
  Watched,      \* the interface of the neighbour whose table we follow
  LsuInt,       \* OSPF_DEFAULT_LSUINT
  TopoTimeout,  \* OSPF_TOPO_ENTRY_TIMEOUT
  SeqNumbers    \* bound: 2^16 in the code

Round == 0  \* the send_lsu that send_all_lsu calls itself

ASSUME AnnounceAssumption ==
  /\ IsFiniteSet(Ifaces) /\ Ifaces = 1 .. Cardinality(Ifaces)
  /\ Watched \in Ifaces
  /\ LsuInt \in Nat \ {0} /\ TopoTimeout \in Nat /\ LsuInt <= TopoTimeout
  /\ SeqNumbers \in Nat /\ 2 * Cardinality(Ifaces) < SeqNumbers

VARIABLES
  neighbors,  \* interfaces with a neighbour (neighbor_id and neighbor_ip)
  number,     \* g_sequence_num
  handler,    \* where the HELLO handler is with a new neighbour
  round,      \* where send_all_lsu is, and with which interface
  thread,     \* each send_lsu: the round's own, and those the handler starts
  claim,      \* this router's entry in the topology table of that neighbour
  greeted,    \* bound: neighbours that were new since the last round
  last,       \* the number of the last LSU a round sent to it
  repeated    \* it has dropped an LSU as repeated since it accepted one

vars == <<neighbors, number, handler, round, thread, claim, greeted,
          last, repeated>>

\* Thread i is the one the HELLO handler starts for Watched when i is new.
Threads == Ifaces \cup {Round}
Idle == [at |-> "idle", seq |-> 0]
Target(t) == IF t = Round THEN round.iface ELSE Watched

NoClaim == [seq |-> SeqNumbers, links |-> {}, age |-> 0]
Numbers == 0 .. SeqNumbers - 1

Init ==
  /\ neighbors = {} /\ number = 0
  /\ handler = [at |-> "idle", iface |-> 0, value |-> 0]
  /\ round = [at |-> "asleep", iface |-> 0, value |-> 0, wait |-> LsuInt]
  /\ thread = [t \in Threads |-> Idle]
  /\ claim = NoClaim
  /\ greeted = {}
  /\ last = SeqNumbers /\ repeated = FALSE
-----------------------------------------------------------------------------
(***************************************************************************)
(* A HELLO that brings a new neighbour (PwospfNeighbors has every step of  *)
(* it): a send_lsu thread for each interface with a neighbour (those for   *)
(* others than Watched change nothing here), and g_sequence_num++, which   *)
(* loads and stores.                                                       *)
(***************************************************************************)
NewNeighbor(i) ==
  /\ handler.at = "idle"
  /\ i \notin neighbors /\ i \notin greeted
  /\ thread[i] = Idle
  /\ neighbors' = neighbors \cup {i}
  /\ greeted' = greeted \cup {i}
  /\ handler' = [handler EXCEPT !.at = "threads", !.iface = i]
  /\ UNCHANGED <<number, round, thread, claim, last, repeated>>

StartThreads ==
  /\ handler.at = "threads"
  /\ thread' = IF Watched \in neighbors
               THEN [thread EXCEPT ![handler.iface] = [at |-> "begin", seq |-> 0]]
               ELSE thread
  /\ handler' = [handler EXCEPT !.at = "load"]
  /\ UNCHANGED <<neighbors, number, round, claim, greeted, last, repeated>>

HandlerLoads ==
  /\ handler.at = "load"
  /\ handler' = [handler EXCEPT !.at = "store", !.value = number]
  /\ UNCHANGED <<neighbors, number, round, thread, claim, greeted, last, repeated>>

NotIncremented(value) == value
Increment(value) == (value + 1) % SeqNumbers

HandlerStores ==
  /\ handler.at = "store"
  /\ number' = Increment(handler.value)
  /\ handler' = [handler EXCEPT !.at = "idle", !.iface = 0, !.value = 0]
  /\ UNCHANGED <<neighbors, round, thread, claim, greeted, last, repeated>>

\* check_neighbors_life clears the interface of a silent neighbour.
Leave(i) ==
  /\ i \in neighbors \ {Watched}
  /\ neighbors' = neighbors \ {i}
  /\ UNCHANGED <<number, handler, round, thread, claim, greeted, last, repeated>>
-----------------------------------------------------------------------------
(***************************************************************************)
(* send_lsu: without a neighbour it returns; it takes the number first,    *)
(* and the links as it fills in the LSAs; then the LSU is sent.            *)
(***************************************************************************)
TakeNumber(t) ==
  /\ thread[t].at = "begin"
  /\ IF Target(t) \in neighbors
     THEN /\ thread' = [thread EXCEPT ![t] = [at |-> "fill", seq |-> number]]
          /\ last' = IF t = Round /\ Target(t) = Watched THEN number ELSE last
     ELSE thread' = [thread EXCEPT ![t] = Idle] /\ UNCHANGED last
  /\ UNCHANGED <<neighbors, number, handler, round, claim, greeted, repeated>>

(***************************************************************************)
(* The neighbour that receives it (PwospfTopology has every step of that)  *)
(* drops it as repeated unless its number is greater than its entry's.     *)
(***************************************************************************)
Fresh(t) == claim = NoClaim \/ claim.seq < thread[t].seq

Accepted(t) ==
  /\ Fresh(t)
  /\ claim' = [seq |-> thread[t].seq, links |-> neighbors, age |-> 0]
  /\ repeated' = FALSE
Repeated(t) ==
  /\ ~Fresh(t)
  /\ repeated' = TRUE
  /\ UNCHANGED claim

FillAndSend(t) ==
  /\ thread[t].at = "fill"
  /\ thread' = [thread EXCEPT ![t] = Idle]
  /\ IF Target(t) = Watched THEN Accepted(t) \/ Repeated(t)
                            ELSE UNCHANGED <<claim, repeated>>
  /\ UNCHANGED <<neighbors, number, handler, round, greeted, last>>
-----------------------------------------------------------------------------
(***************************************************************************)
(* send_all_lsu: awake after LsuInt seconds, it holds the lock while it    *)
(* calls send_lsu for one interface with a neighbour after the other, and  *)
(* for the g_sequence_num++ that ends the round.                           *)
(***************************************************************************)
Locked == round.at # "asleep"

RoundBegins ==
  /\ round.at = "asleep" /\ round.wait = 0
  /\ round' = [round EXCEPT !.at = "loop", !.iface = 1]
  /\ greeted' = {}
  /\ UNCHANGED <<neighbors, number, handler, thread, claim, last, repeated>>

RoundSends ==
  /\ round.at = "loop" /\ round.iface \in neighbors
  /\ thread' = [thread EXCEPT ![Round] = [at |-> "begin", seq |-> 0]]
  /\ round' = [round EXCEPT !.at = "sending"]
  /\ UNCHANGED <<neighbors, number, handler, claim, greeted, last, repeated>>

RoundPassesBy ==
  /\ \/ round.at = "loop" /\ round.iface \in Ifaces
     \/ round.at = "sending" /\ thread[Round] = Idle
  /\ round' = [round EXCEPT !.at = "loop", !.iface = @ + 1]
  /\ UNCHANGED <<neighbors, number, handler, thread, claim, greeted, last,
                 repeated>>

RoundGoesOn ==
  /\ \/ round.at = "loop" /\ round.iface \in Ifaces \ neighbors
     \/ round.at = "sending" /\ thread[Round] = Idle
  /\ round' = [round EXCEPT !.at = "loop", !.iface = @ + 1]
  /\ UNCHANGED <<neighbors, number, handler, thread, claim, greeted, last,
                 repeated>>

RoundLoads ==
  /\ round.at = "loop" /\ round.iface \notin Ifaces
  /\ round' = [round EXCEPT !.at = "store", !.value = number]
  /\ UNCHANGED <<neighbors, number, handler, thread, claim, greeted, last,
                 repeated>>

RoundEnds ==
  /\ round.at = "store"
  /\ number' = Increment(round.value)
  /\ round' = [at |-> "asleep", iface |-> 0, value |-> 0, wait |-> LsuInt]
  /\ UNCHANGED <<neighbors, handler, thread, claim, greeted, last, repeated>>
-----------------------------------------------------------------------------
(***************************************************************************)
(* A second passes, and the neighbours' check_topology_age with it.        *)
(***************************************************************************)
Busy ==
  \/ handler.at # "idle" \/ Locked \/ round.wait = 0
  \/ \E t \in Threads : thread[t] # Idle

OlderForEver == IF claim = NoClaim \/ claim.age = TopoTimeout THEN claim
                ELSE [claim EXCEPT !.age = @ + 1]
Older == IF claim = NoClaim \/ claim.age = TopoTimeout THEN NoClaim
         ELSE [claim EXCEPT !.age = @ + 1]

Second ==
  /\ ~Busy
  /\ round' = [round EXCEPT !.wait = @ - 1]
  /\ claim' = Older
  /\ UNCHANGED <<neighbors, number, handler, thread, greeted, last, repeated>>
-----------------------------------------------------------------------------
Handler == StartThreads \/ HandlerLoads \/ HandlerStores
SendLsu(t) == TakeNumber(t) \/ FillAndSend(t)
SendAllLsu == RoundBegins \/ RoundSends \/ RoundGoesOn \/ RoundLoads \/ RoundEnds

Next ==
  \/ \E i \in Ifaces : NewNeighbor(i) \/ Leave(i)
  \/ \E t \in Threads : SendLsu(t)
  \/ Handler \/ SendAllLsu \/ Second

(***************************************************************************)
(* The scheduler runs every thread, the network delivers and time passes.  *)
(* No neighbour is obliged to come or to go.                               *)
(***************************************************************************)
Fairness ==
  /\ WF_vars(Handler) /\ WF_vars(SendAllLsu)
  /\ \A t \in Threads : WF_vars(SendLsu(t))
  /\ WF_vars(Second)

Spec == Init /\ [][Next]_vars
FairSpec == Spec /\ Fairness
-----------------------------------------------------------------------------
\* Every variable has its type.
TypeOK ==
  /\ neighbors \subseteq Ifaces /\ number \in Numbers
  /\ handler \in [at : {"idle", "threads", "load", "store"},
                  iface : Ifaces \cup {0}, value : Numbers]
  /\ round \in [at : {"asleep", "loop", "sending", "store"}, iface : Nat,
                value : Numbers, wait : 0 .. LsuInt]
  /\ thread \in [Threads -> [at : {"idle", "begin", "fill"}, seq : Numbers]]
  /\ \/ claim = NoClaim
     \/ claim \in [seq : Numbers, links : SUBSET Ifaces, age : 0 .. TopoTimeout]
  /\ greeted \subseteq Ifaces
  /\ last \in 0 .. SeqNumbers /\ repeated \in BOOLEAN

(***************************************************************************)
(* Two rounds in a row do not send a neighbour the same number, although   *)
(* the increments of the round and of the HELLO handler may overlap and    *)
(* one of them be lost.                                                    *)
(***************************************************************************)
RoundsDiffer ==
  [][TakeNumber(Round) /\ Target(Round) = Watched => number # last]_vars

(***************************************************************************)
(* The timers fit: the neighbour loses the router's claim only if it has   *)
(* dropped an LSU as repeated.                                             *)
(***************************************************************************)
ExpiryHasReason ==
  [][claim # NoClaim /\ claim' = NoClaim => repeated]_vars

(***************************************************************************)
(* The neighbour learns: once the router's neighbours stay the same, it    *)
(* has the router's links, all of them, again and again, whatever numbers  *)
(* were used twice or lost before.                                         *)
(***************************************************************************)
LinksLearnt ==
  <>[][neighbors' = neighbors]_vars /\ <>(Watched \in neighbors)
    => []<>(claim # NoClaim /\ claim.links = neighbors)
=============================================================================
