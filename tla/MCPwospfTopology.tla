-------------------------- MODULE MCPwospfTopology --------------------------
(***************************************************************************)
(* Routers 2 and 3 share network "s"; 3 also has a network of its own.     *)
(***************************************************************************)
EXTENDS PwospfTopology, TLC
MCRouters == {2, 3}
MCNets == {"s", "t"}
L(n, nb) == [net |-> n, neighbor |-> nb]
MCOneNet == [r \in {1, 2, 3} |->
  CASE r = 1 -> {}
    [] r = 2 -> {<<L("s", 0)>>}
    [] r = 3 -> {<<L("s", 2)>>}]
\* 2 has heard 3's HELLOs, so it always names it; 3 may not have heard 2's.
MCHeard == [r \in {1, 2, 3} |->
  CASE r = 1 -> {<<L("t", 0)>>}
    [] r = 2 -> {<<L("s", 3)>>}
    [] r = 3 -> {<<L("t", 0), L("s", 0)>>, <<L("t", 0), L("s", 2)>>}]
MCDirect == [r \in {1, 2, 3} |-> {r}]
\* The LSUs of 3 come through 2.
MCThrough2 == [r \in {1, 2, 3} |-> {2}]
InUse == OnList \cup ({thread[w].ptr : w \in {x \in Workers : thread[x] # Idle}} \ {NoPtr})
\* Memory nobody points to is not part of the state.
MCView ==
  <<[p \in InUse |-> mem[p]], table, thread, walk, aged, routed, quiet>>
\* Nor is the count of silence, where no property reads it.
MCThreadsView == <<[p \in InUse |-> mem[p]], table, thread, walk, aged, routed>>
MCSymmetry == Permutations(Workers)
=============================================================================
