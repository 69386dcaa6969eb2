----------------------------- MODULE MCArpCache -----------------------------
(***************************************************************************)
(* Small instances of ArpCache: two next hops A and B, an error for a      *)
(* packet to A goes back through B, packets to B are the router's own or   *)
(* have no way back.                                                       *)
(***************************************************************************)
EXTENDS ArpCache

CONSTANTS A, B, toA, toB, lsuA, lsuB, errB

MCNextHop ==
  [p \in Packets |-> IF p \in {toA, lsuA} THEN A ELSE B]
MCNoError == [p \in Packets |-> NoPacket]
MCErrorBack == [p \in Packets |-> IF p = toA THEN errB ELSE NoPacket]

(***************************************************************************)
(* The histories sent, reported and asked are read by no action: a run of  *)
(* invariants that do not mention them need not tell them apart.           *)
(***************************************************************************)
MCView == <<cache, req, lock, stack, up, arrived>>
=============================================================================
