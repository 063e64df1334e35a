---------------------------- MODULE FMPassContract ----------------------------
(***************************************************************************)
(* What one call of a two-way refiner promises its caller, seen only at    *)
(* its entry and its return: refine(u, v, best_cut, max_imbalance,         *)
(* best_imbalance) replaces the partition by one whose cut is no larger    *)
(* (the ASSERT best_cut <= initial_cut at the end of                       *)
(* TwoWayFMRefiner::refine), reports its cut and imbalance through         *)
(* best_cut and best_imbalance, and changes the partition only for a       *)
(* strict gain in cut or imbalance.  The caller then asks the improvement  *)
(* policy (FMImprovementPolicies.h) whether the pass improved anything.    *)
(*                                                                         *)
(* The cut, the imbalance and their order are parameters, so that the      *)
(* module says nothing about how they are computed.                        *)
(***************************************************************************)
EXTENDS Integers

CONSTANTS
  Nodes,            \* hypernode ids
  Cut(_),           \* the hyperedge cut of a partition
  Imbalance(_),     \* the imbalance of a partition
  Less(_, _),       \* the strict order of imbalances
  MaxImbalance      \* the max_imbalance argument

VARIABLES
  apart,            \* the partition the caller sees
  abestCut,         \* the caller's best_cut
  abestImbalance,   \* the caller's best_imbalance
  improved          \* what improvementFound said of the last pass

avars == <<apart, abestCut, abestImbalance, improved>>

Partitions == [Nodes -> {0, 1}]

(* CutDecreasedOrInfeasibleImbalanceDecreased::improvementFound.           *)
ImprovementFound(best_cut, initial_cut, best_imbalance, initial_imbalance, max_imbalance) ==
  \/ best_cut < initial_cut
  \/ Less(max_imbalance, initial_imbalance) /\ Less(best_imbalance, initial_imbalance)

Init ==
  /\ apart \in Partitions
  /\ abestCut = Cut(apart)
  /\ abestImbalance = Imbalance(apart)
  /\ improved = FALSE

(* One refine() call, from its entry to its return.  The result p has no   *)
(* larger cut; it is the old partition unless it is strictly better in     *)
(* cut or in imbalance; and it is within max_imbalance or no less          *)
(* balanced than the old one.                                              *)
Pass ==
  \E p \in Partitions :
    /\ Cut(p) <= Cut(apart)
    /\ p # apart => Cut(p) < Cut(apart) \/ Less(Imbalance(p), Imbalance(apart))
    /\ Less(Imbalance(p), MaxImbalance) \/ ~Less(Imbalance(apart), Imbalance(p))
    /\ apart' = p
    /\ abestCut' = Cut(p)
    /\ abestImbalance' = Imbalance(p)
    /\ improved' = ImprovementFound(Cut(p), Cut(apart), Imbalance(p),
                                    Imbalance(apart), MaxImbalance)

Spec == Init /\ [][Pass]_avars

=============================================================================
