--------------------------- MODULE MCRoutingTable ---------------------------
(* Two runs that overlap, with the start-up thread or after it.             *)
EXTENDS RoutingTable, TLC

CONSTANTS r1, r2, start, lsuThread, receive, c1, c2, d1, d2

Fixed(n) == [dest |-> n, dynamic |-> FALSE]
Computed(n) == [dest |-> n, dynamic |-> TRUE]
MCConnected == <<c1>>
MCTargets == <<d1>>
MCTables ==
  {[routes |-> <<>>, done |-> FALSE],
   [routes |-> <<Fixed(c2), Fixed(c1), Computed(d1)>>, done |-> TRUE]}

\* The readers write nothing that others read: one LSU or one packet, at any
\* point of a behaviour, will do.  A walk round a loop may count for ever.
OneReader ==
  /\ pc[lsuThread] = "idle" \/ pc[receive] = "idle"
  /\ pc[lsuThread] # "sent" /\ pc[receive] \notin Outcomes
MaxCount == lsu.counted <= 4 /\ lsu.filled <= 4
Bounds == OneReader /\ MaxCount
Symmetry == Permutations(Runs)
=============================================================================
