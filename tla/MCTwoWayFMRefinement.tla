------------------------ MODULE MCTwoWayFMRefinement ------------------------
(* The refinement checked on the hypergraph of MCTwoWayFM with weights     *)
(* 1, 1, 2, 2 and block bound 4.  A 3:3 split is within max_imbalance and  *)
(* a 4:2 split is not but respects the bound, so a pass can trade balance  *)
(* for cut, which the contract restricts.                                  *)
EXTENDS TwoWayFMRefinement, MCTwoWayFM

MCRNodeWeight == [v \in MCNodes |-> IF v \in {3, 4} THEN 2 ELSE 1]

(* The laws of the sums, evaluated with these weights.                    *)
ASSUME MCRSumLaws == SumFacts /\ MoveLaws
=============================================================================
