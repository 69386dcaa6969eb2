------------------------- MODULE MCPwospfNeighbors --------------------------
(***************************************************************************)
(* Two neighbours, each on a link of its own, as all links of              *)
(* pwospf_topo.py are.                                                     *)
(***************************************************************************)
EXTENDS PwospfNeighbors
MCIfaces == {1, 2}
MCRouters == {11, 12}
MCPointToPoint == {<<11, 1>>, <<12, 2>>}
=============================================================================
