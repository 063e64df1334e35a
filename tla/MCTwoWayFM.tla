----------------------------- MODULE MCTwoWayFM -----------------------------
(* A four-node hypergraph with hyperedges of size 2, 3, 3 and 4, so that   *)
(* every case of updateNeighbours (the size-2 and size-3 special cases     *)
(* included) occurs, and a block bound that makes some heads ineligible.   *)
EXTENDS TwoWayFM

MCNodes == 1 .. 4
MCEdges == {"e1", "e2", "e3", "e4"}
MCPins == [e \in MCEdges |->
            CASE e = "e1" -> {1, 2}
              [] e = "e2" -> {1, 2, 3}
              [] e = "e3" -> {2, 3, 4}
              [] e = "e4" -> {1, 2, 3, 4}]
MCNodeWeight == [v \in MCNodes |-> IF v = 4 THEN 2 ELSE 1]
MCEdgeWeight == [e \in MCEdges |-> IF e = "e3" THEN 2 ELSE 1]
\* epsilon = 1/4
MCMaxImbalance == [num |-> 1, den |-> 4]

(* The laws of the sums the proofs assume, evaluated on this instance.    *)
ASSUME MCSumLaws == SumFacts /\ MoveLaws
=============================================================================
