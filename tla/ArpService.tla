----------------------------- MODULE ArpService -----------------------------
(***************************************************************************)
(* What the ARP layer promises to the code that hands it a packet: the     *)
(* packet is accepted once and then has one outcome, for good.  It is sent *)
(* or reported unreachable; it is discarded only when its next hop has     *)
(* itself asked for the router's address.                                  *)
(***************************************************************************)
CONSTANTS Packets, Hops, NextHop
VARIABLES
  fate,   \* what has become of each packet
  asked,  \* the hops that have sent the router an ARP request
  up      \* the process is alive

Outcomes == {"sent", "reported", "discarded"}
Fates == {"idle", "accepted"} \cup Outcomes

Init == fate = [p \in Packets |-> "idle"] /\ asked = {} /\ up = TRUE

Advance(p) ==
  \/ fate'[p] = fate[p]
  \/ fate[p] = "idle" /\ fate'[p] = "accepted"
  \/ fate[p] = "accepted" /\ fate'[p] \in {"sent", "reported"}
  \/ fate[p] = "accepted" /\ fate'[p] = "discarded" /\ NextHop[p] \in asked'

Next ==
  /\ up
  /\ up' \in BOOLEAN
  /\ asked \subseteq asked' /\ asked' \subseteq Hops
  /\ fate' \in [Packets -> Fates]
  /\ \A p \in Packets : Advance(p)

vars == <<fate, asked, up>>

\* An accepted packet gets its outcome, unless the process dies first.
Settles ==
  \A p \in Packets : fate[p] = "accepted" ~> (fate[p] \in Outcomes \/ ~up)

Spec == Init /\ [][Next]_vars /\ Settles
=============================================================================
