--------------------------- MODULE MCRouterStart ----------------------------
(***************************************************************************)
(* A router with three interfaces that is started twice.  The memory of an   *)
(* interface may hold no address or one above all others.                  *)
(***************************************************************************)
EXTENDS RouterStart
MCIfaces == {1, 2, 3}
MCJunk == {0, 4}
=============================================================================
