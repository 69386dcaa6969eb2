--------------------------- MODULE MCLsuAnnounce ----------------------------
(***************************************************************************)
(* A router with two interfaces and a neighbour on each.                   *)
(***************************************************************************)
EXTENDS LsuAnnounce
MCIfaces == {1, 2}
=============================================================================
