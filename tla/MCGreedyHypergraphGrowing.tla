------------------------ MODULE MCGreedyHypergraphGrowing ------------------------
(* Five nodes, one of weight 4 and one in no hyperedge, two blocks.  The   *)
(* isolated node is reached only through getUnassignedNode, and the heavy  *)
(* node makes blocks full before every node is assigned.                   *)
EXTENDS GreedyHypergraphGrowing

MCNodes == 1 .. 5
MCEdges == {"e1", "e2", "e3"}
MCPins == [e \in MCEdges |->
            CASE e = "e1" -> {1, 2}
              [] e = "e2" -> {2, 3, 4}
              [] e = "e3" -> {3, 4}]
MCNodeWeight == [v \in MCNodes |-> IF v = 4 THEN 4 ELSE 1]
\* epsilon = 1/4
MCEpsilon == [num |-> 1, den |-> 4]

\* The law of the sums the theorems of GreedyHypergraphGrowingProofs take
\* as a hypothesis holds of this hypergraph.
ASSUME MCGHGSumLaws == GHGSumFacts
=============================================================================
