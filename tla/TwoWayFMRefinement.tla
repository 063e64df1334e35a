------------------------- MODULE TwoWayFMRefinement -------------------------
(***************************************************************************)
(* TwoWayFM implements FMPassContract: seen from its caller, each pass of  *)
(* TwoWayFMRefiner::refine is one Pass step of the contract.               *)
(*                                                                         *)
(* Two history variables support the mapping: passStart is the partition  *)
(* at the entry of the running pass, and verdict is what improvementFound  *)
(* returns for the last pass that returned.  Between the entry and the     *)
(* return the caller sees the partition, best_cut and best_imbalance it    *)
(* passed in, so every inner step of the pass is a stutter of the          *)
(* contract and the return is its Pass step.                               *)
(***************************************************************************)
EXTENDS TwoWayFM

VARIABLES
  passStart,      \* history: part at the entry of the running refine()
  verdict         \* history: improvementFound of the last returned pass

rvars == <<vars, passStart, verdict>>

(* calculateImbalance() of a partition, from its block weights.           *)
PartImbalance(p) == Imbalance(BlockWeight(p))

Contract == INSTANCE FMPassContract
  WITH apart          <- IF phase = "idle" THEN part ELSE passStart,
       abestCut       <- IF phase = "idle" THEN bestCut ELSE initialCut,
       abestImbalance <- IF phase = "idle" THEN bestImbalance
                         ELSE PartImbalance(passStart),
       improved       <- verdict,
       Cut            <- HyperedgeCut,
       Imbalance      <- PartImbalance,
       Less           <- ImbalanceLess

(* The caller's verdict on the pass that returns in this step.             *)
Verdict ==
  Contract!ImprovementFound(bestCut', initialCut, bestImbalance',
                            PartImbalance(passStart), MaxImbalance)

RInit == Init /\ passStart = part /\ verdict = FALSE

RNext ==
  /\ Next
  /\ passStart' = IF phase = "idle" THEN part ELSE passStart
  /\ verdict' = IF phase # "idle" /\ phase' = "idle" THEN Verdict ELSE verdict

RSpec == RInit /\ [][RNext]_rvars

(* Every pass of the two-way FM refiner keeps the contract of a refine()   *)
(* call: the partition it returns has no larger cut, is the entry          *)
(* partition unless strictly better in cut or imbalance, is no less        *)
(* balanced unless within max_imbalance, and best_cut and best_imbalance   *)
(* describe it.                                                            *)
ContractSpec == Contract!Spec

=============================================================================
