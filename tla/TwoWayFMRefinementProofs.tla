--------------------- MODULE TwoWayFMRefinementProofs ---------------------
(***************************************************************************)
(* The proof that TwoWayFM implements FMPassContract, step by step.        *)
(*                                                                         *)
(* The argument is about the checkpoints of a pass: best_cut, best_imbalance *)
(* and the checkpoint partition only ever improve on the entry partition   *)
(* in the order the contract asks, and the rollback returns the            *)
(* checkpoint.  RefinementThm takes the numeric bookkeeping of the        *)
(* refiner as hypotheses (CutTracksHypergraph, PartitionSizesExact);       *)
(* RefinementFromGainsThm discharges them with the proofs of               *)
(* TwoWayFMBookkeepingProofs, and needs only QueuedGainsExact and the laws *)
(* of the sums (SumFacts, MoveLaws), whose proofs need induction over the  *)
(* folds that define the sums.                                             *)
(***************************************************************************)
EXTENDS TwoWayFMRefinement, TwoWayFMBookkeepingProofs

\* The checkpoint of the running pass against the pass's entry partition.
PassBest ==
  /\ initialCut = HyperedgeCut(passStart)
  /\ bestCut = HyperedgeCut(bestPart)
  /\ bestImbalance = PartImbalance(bestPart)
  /\ bestCut <= initialCut
  /\ \/ bestPart = passStart
     \/ bestCut < initialCut
     \/ ImbalanceLess(bestImbalance, PartImbalance(passStart))
  /\ \/ ImbalanceLess(bestImbalance, MaxImbalance)
     \/ ~ImbalanceLess(PartImbalance(passStart), bestImbalance)

\* The refinement invariant: between passes best_cut and best_imbalance
\* describe the partition; during a pass the checkpoint is no worse than
\* the entry partition.
RInv ==
  /\ passStart \in [Nodes -> Blocks]
  /\ phase = "idle" => bestCut = HyperedgeCut(part) /\ bestImbalance = PartImbalance(part)
  /\ phase # "idle" => PassBest

-----------------------------------------------------------------------------

\* ImbalanceLess compares fractions by cross-multiplying, which is an order
\* when the denominators are positive.
LEMMA ImbalanceLessTrans ==
  ASSUME NEW x, NEW y, NEW z,
         x.num \in Int, y.num \in Int, z.num \in Int,
         x.den \in Nat \ {0}, y.den \in Nat \ {0}, z.den \in Nat \ {0},
         ImbalanceLess(x, y), ImbalanceLess(y, z)
  PROVE  ImbalanceLess(x, z)
<1> DEFINE a == x.num  b == x.den  c == y.num  d == y.den  e == z.num  f == z.den
<1>1. a * d < c * b /\ c * f < e * d
  BY DEF ImbalanceLess
<1>2. (a * d) * f < (c * b) * f
  BY <1>1
<1>3. (c * f) * b < (e * d) * b
  BY <1>1
<1>4. d * (a * f) < d * (e * b)
  BY <1>2, <1>3
<1>5. a * f < e * b
  BY <1>4
<1>6. QED
  BY <1>5 DEF ImbalanceLess

\* No imbalance is less than itself.
LEMMA ImbalanceLessIrreflexive ==
  ASSUME NEW x, x.num \in Int, x.den \in Int
  PROVE  ~ImbalanceLess(x, x)
BY DEF ImbalanceLess

\* The imbalance of a partition is a fraction with a positive denominator.
LEMMA PartImbalanceType ==
  ASSUME SumFacts, NEW p \in [Nodes -> Blocks]
  PROVE  /\ PartImbalance(p).num \in Int
         /\ PartImbalance(p).den \in Nat \ {0}
<1>1. BlockWeight(p) \in [Blocks -> Nat] /\ BlockWeight(p)[0] + BlockWeight(p)[1] > 0
  BY DEF SumFacts
<1>2. QED
  BY <1>1 DEF PartImbalance, Imbalance, Blocks

\* A step of the pass [RNext]_rvars is a step of TwoWayFM.
LEMMA RNextNext == [RNext]_rvars => [Next]_vars
BY DEF RNext, rvars

\* Inside a pass, a step that leaves the checkpoint and the entry values
\* alone keeps the refinement invariant.
LEMMA InnerStepRInv ==
  ASSUME RInv, phase # "idle", phase' # "idle", passStart' = passStart,
         UNCHANGED <<initialCut, bestCut, bestPart, bestImbalance>>
  PROVE  RInv'
BY DEF RInv, PassBest

\* refine() entered: the entry partition is the checkpoint, and best_cut
\* and best_imbalance are its cut and imbalance.
LEMMA RefineRInv ==
  ASSUME SumFacts, IInv, RInv, NEW u \in Nodes, NEW v \in Nodes, Refine(u, v),
         passStart' = part
  PROVE  RInv'
<1>1. /\ phase = "idle" /\ phase' = "forward"
      /\ initialCut' = bestCut /\ bestPart' = part
      /\ UNCHANGED <<part, bestCut, bestImbalance>>
  BY DEF Refine
<1>2. part \in [Nodes -> Blocks]
  BY DEF IInv, ControlTypeOK
<1>3. bestCut = HyperedgeCut(part) /\ bestImbalance = PartImbalance(part)
  BY <1>1 DEF RInv
<1>4. HyperedgeCut(part) \in Int
  BY <1>2 DEF SumFacts
<1>5. ~ImbalanceLess(PartImbalance(part), PartImbalance(part))
  BY <1>2, PartImbalanceType, ImbalanceLessIrreflexive
<1>6. QED
  BY <1>1, <1>2, <1>3, <1>4, <1>5 DEF RInv, PassBest

\* The checkpoint test of the forward loop.  A checkpoint is taken only
\* for a cut no larger and a better imbalance, or for a smaller cut within
\* max_imbalance; as the cut and _partition_size are exact, the new
\* best_cut and best_imbalance are those of the checkpoint partition, and
\* by transitivity of the order of imbalances the new checkpoint still
\* improves on the entry partition as the contract asks.
LEMMA FinishMoveRInv ==
  ASSUME SumFacts, IInv, RInv, CutTracksHypergraph, PartitionSizesExact,
         FinishMove, passStart' = passStart
  PROVE  RInv'
<1>1. phase = "update" /\ phase' = "forward" /\ UNCHANGED initialCut
  BY DEF FinishMove
<1>2. PassBest
  BY <1>1 DEF RInv
<1>3. /\ part \in [Nodes -> Blocks] /\ bestPart \in [Nodes -> Blocks]
      /\ passStart \in [Nodes -> Blocks]
  BY DEF IInv, ControlTypeOK, RInv
<1> DEFINE imb == PartImbalance(part)
           ps  == PartImbalance(passStart)
           hc  == HyperedgeCut(part)
<1>4. cut = hc
  BY <1>1 DEF CutTracksHypergraph
<1>5. Imbalance(partSize) = imb
  BY DEF PartitionSizesExact, PartImbalance
<1>6. /\ hc \in Int /\ HyperedgeCut(bestPart) \in Int /\ HyperedgeCut(passStart) \in Int
      /\ imb.num \in Int /\ imb.den \in Nat \ {0}
      /\ ps.num \in Int /\ ps.den \in Nat \ {0}
      /\ bestImbalance.num \in Int /\ bestImbalance.den \in Nat \ {0}
      /\ MaxImbalance.num \in Int /\ MaxImbalance.den \in Nat \ {0}
  <2>1. PartImbalance(bestPart).num \in Int /\ PartImbalance(bestPart).den \in Nat \ {0}
    BY <1>3, PartImbalanceType
  <2>2. QED
    BY <1>2, <1>3, <2>1, PartImbalanceType, ParameterAssumption DEF SumFacts, PassBest
<1>7. CASE Improved
  <2>1. /\ bestImbalance' = imb /\ bestCut' = hc /\ bestPart' = part
    BY <1>4, <1>5, <1>7 DEF FinishMove, Improved
  <2>2. \/ ImbalanceLess(imb, bestImbalance) /\ hc <= bestCut
        \/ hc < bestCut /\ ImbalanceLess(imb, MaxImbalance)
    BY <1>4, <1>5, <1>7 DEF Improved
  <2>3. hc <= initialCut
    BY <1>2, <1>6, <2>2 DEF PassBest
  <2>4. hc < initialCut \/ ImbalanceLess(imb, ps)
    <3>1. CASE hc < bestCut
      BY <1>2, <1>6, <3>1 DEF PassBest
    <3>2. CASE ImbalanceLess(imb, bestImbalance) /\ hc <= bestCut
      <4>1. CASE bestPart = passStart
        BY <1>2, <3>2, <4>1 DEF PassBest
      <4>2. CASE bestCut < initialCut
        BY <1>6, <3>2, <4>2, <1>2 DEF PassBest
      <4>3. CASE ImbalanceLess(bestImbalance, ps)
        BY <1>6, <3>2, <4>3, ImbalanceLessTrans
      <4>4. QED
        BY <1>2, <4>1, <4>2, <4>3 DEF PassBest
    <3>3. QED
      BY <2>2, <3>1, <3>2
  <2>5. ImbalanceLess(imb, MaxImbalance) \/ ~ImbalanceLess(ps, imb)
    <3>1. CASE hc < bestCut /\ ImbalanceLess(imb, MaxImbalance)
      BY <3>1
    <3>2. CASE ImbalanceLess(imb, bestImbalance)
      <4>1. CASE ImbalanceLess(bestImbalance, MaxImbalance)
        BY <1>6, <3>2, <4>1, ImbalanceLessTrans
      <4>2. CASE ~ImbalanceLess(ps, bestImbalance)
        BY <1>6, <3>2, <4>2, ImbalanceLessTrans
      <4>3. QED
        BY <1>2, <4>1, <4>2 DEF PassBest
    <3>3. QED
      BY <2>2, <3>1, <3>2
  <2>6. QED
    BY <1>1, <1>3, <2>1, <2>3, <2>4, <2>5 DEF RInv, PassBest
<1>8. CASE ~Improved
  <2>1. UNCHANGED <<initialCut, bestCut, bestPart, bestImbalance>>
    BY <1>8 DEF FinishMove
  <2>2. QED
    BY <1>1, <2>1, InnerStepRInv
<1>9. QED
  BY <1>7, <1>8
\* refine() returns with the checkpoint partition, whose cut and
\* imbalance best_cut and best_imbalance hold.
LEMMA RollbackDoneRInv ==
  ASSUME RInv, IInv', RollbackDone, passStart' = passStart
  PROVE  RInv'
<1>1. /\ phase = "rollback" /\ phase' = "idle"
      /\ UNCHANGED <<part, bestCut, bestImbalance, bestPart>>
  BY DEF RollbackDone
<1>2. part' = bestPart'
  BY <1>1 DEF IInv, RollbackRestoresCheckpoint
<1>3. QED
  BY <1>1, <1>2 DEF RInv, PassBest

\* The refinement invariant is inductive, given exact bookkeeping of the
\* cut and of _partition_size.
LEMMA NextRInv ==
  ASSUME SumFacts, IInv, RInv, CutTracksHypergraph, PartitionSizesExact,
         [RNext]_rvars
  PROVE  RInv'
<1>1. IInv'
  BY RNextNext, NextIInv
<1>2. CASE UNCHANGED rvars
  BY <1>2 DEF RInv, PassBest, rvars, vars
<1>3. CASE RNext
  <2>1. passStart' = IF phase = "idle" THEN part ELSE passStart
    BY <1>3 DEF RNext
  <2>2. CASE \E u, v \in Nodes : Refine(u, v)
    <3>1. PICK u, v \in Nodes : Refine(u, v)
      BY <2>2
    <3>2. passStart' = part
      BY <2>1, <3>1 DEF Refine
    <3>3. QED
      BY <3>1, <3>2, RefineRInv
  <2>3. CASE MoveNode
    BY <2>1, <2>3, InnerStepRInv DEF MoveNode
  <2>4. CASE \E he \in Edges : UpdateEdge(he)
    BY <2>1, <2>4, InnerStepRInv DEF UpdateEdge
  <2>5. CASE FinishMove
    <3>1. passStart' = passStart
      BY <2>1, <2>5 DEF FinishMove
    <3>2. QED
      BY <2>5, <3>1, FinishMoveRInv
  <2>6. CASE Stop
    BY <2>1, <2>6, InnerStepRInv DEF Stop
  <2>7. CASE RollbackStep
    BY <2>1, <2>7, InnerStepRInv DEF RollbackStep
  <2>8. CASE RollbackDone
    <3>1. passStart' = passStart
      BY <2>1, <2>8 DEF RollbackDone
    <3>2. QED
      BY <1>1, <2>8, <3>1, RollbackDoneRInv
  <2>9. QED
    BY <1>3, <2>2, <2>3, <2>4, <2>5, <2>6, <2>7, <2>8 DEF RNext, Next
<1>4. QED
  BY <1>2, <1>3

\* Only refine() changes initial_cut, and only its entry leaves the idle
\* phase; only the return of rollback() enters it.
LEMMA PhaseSteps ==
  ASSUME Next
  PROVE  /\ phase = "idle" => \E u, v \in Nodes : Refine(u, v)
         /\ phase # "idle" => UNCHANGED initialCut
         /\ phase # "idle" /\ phase' = "idle" => RollbackDone
BY DEF Next, Refine, MoveNode, UpdateEdge, FinishMove, Stop, RollbackStep, RollbackDone

\* The return of refine() is a Pass step of the contract, with the
\* checkpoint partition as its result.
LEMMA ReturnIsPass ==
  ASSUME SumFacts, RInv, IInv', RollbackDone,
         passStart' = passStart, verdict' = Verdict
  PROVE  Contract!Pass
<1>1. /\ phase = "rollback" /\ phase' = "idle"
      /\ UNCHANGED <<part, bestCut, bestImbalance, bestPart, initialCut>>
  BY DEF RollbackDone
<1>2. part' = bestPart
  BY <1>1 DEF IInv, RollbackRestoresCheckpoint
<1>3. PassBest /\ passStart \in [Nodes -> Blocks]
  BY <1>1 DEF RInv
<1>4. bestPart \in [Nodes -> {0, 1}]
  BY <1>2, <1>1 DEF IInv, ControlTypeOK, Blocks
<1>5. verdict' = Contract!ImprovementFound(HyperedgeCut(bestPart), HyperedgeCut(passStart),
                                          PartImbalance(bestPart), PartImbalance(passStart),
                                          MaxImbalance)
  BY <1>1, <1>3 DEF Verdict, PassBest
<1>6. QED
  BY <1>1, <1>2, <1>3, <1>4, <1>5 DEF Contract!Pass, Contract!Partitions, PassBest

\* Every step of the pass, with the history variables, is a Pass step or
\* a stutter of the contract.
LEMMA StepRefines ==
  ASSUME SumFacts, IInv, RInv, IInv', RInv', [RNext]_rvars
  PROVE  [Contract!Pass]_Contract!avars
<1>1. CASE UNCHANGED rvars
  BY <1>1 DEF Contract!avars, rvars, vars
<1>2. CASE RNext /\ phase = "idle"
  <2>1. PICK u, v \in Nodes : Refine(u, v)
    BY <1>2, PhaseSteps DEF RNext
  <2>2. /\ phase' = "forward" /\ initialCut' = bestCut
        /\ UNCHANGED <<part, bestCut, bestImbalance>>
    BY <2>1 DEF Refine
  <2>3. passStart' = part /\ verdict' = verdict
    BY <1>2, <2>2 DEF RNext
  <2>4. bestImbalance = PartImbalance(part)
    BY <1>2 DEF RInv
  <2>5. QED
    BY <1>2, <2>2, <2>3, <2>4 DEF Contract!avars
<1>3. CASE RNext /\ phase # "idle" /\ phase' # "idle"
  <2>1. UNCHANGED <<initialCut, passStart, verdict>>
    BY <1>3, PhaseSteps DEF RNext
  <2>2. QED
    BY <1>3, <2>1 DEF Contract!avars
<1>4. CASE RNext /\ phase # "idle" /\ phase' = "idle"
  <2>1. RollbackDone
    BY <1>4, PhaseSteps DEF RNext
  <2>2. passStart' = passStart /\ verdict' = Verdict
    BY <1>4 DEF RNext
  <2>3. QED
    BY <2>1, <2>2, ReturnIsPass
<1>5. QED
  BY <1>1, <1>2, <1>3, <1>4

\* The initial states of the refiner map to initial states of the
\* contract: the caller's best_cut and best_imbalance are those of the
\* partition it starts from.
LEMMA InitRefines ==
  RInit => IInv /\ RInv /\ Contract!Init
<1> SUFFICES ASSUME RInit PROVE IInv /\ RInv /\ Contract!Init
  OBVIOUS
<1>1. IInv
  BY InitIInv DEF RInit
<1>2. /\ phase = "idle" /\ passStart = part /\ verdict = FALSE
      /\ part \in [Nodes -> Blocks]
      /\ bestCut = HyperedgeCut(part) /\ bestImbalance = PartImbalance(part)
  BY DEF RInit, Init, PartImbalance
<1>3. QED
  BY <1>1, <1>2 DEF RInv, Contract!Init, Contract!Partitions, Blocks

\* TwoWayFMRefiner::refine implements the contract of a refine() call
\* (ContractSpec): for every hypergraph and every parameter, seen at the
\* entries and returns of its calls, the refiner only returns a partition
\* with no larger cut, changes the partition only for a strict gain in cut
\* or imbalance, leaves max_imbalance only to become more balanced, and
\* reports the returned partition's cut and imbalance in best_cut and
\* best_imbalance -- provided the incremental cut and _partition_size are
\* exact and the sums of weights behave as sums do.
THEOREM RefinementThm ==
  ASSUME SumFacts
  PROVE  RSpec /\ []CutTracksHypergraph /\ []PartitionSizesExact => ContractSpec
<1>1. IInv /\ RInv /\ CutTracksHypergraph /\ PartitionSizesExact /\ [RNext]_rvars
        => IInv' /\ RInv'
  BY RNextNext, NextIInv, NextRInv
<1>2. IInv /\ RInv /\ IInv' /\ RInv' /\ [RNext]_rvars => [Contract!Pass]_Contract!avars
  BY StepRefines
<1>3. QED
  BY <1>1, <1>2, InitRefines, PTL DEF RSpec, ContractSpec, Contract!Spec

\* The same refinement with the bookkeeping proved rather than assumed:
\* the incremental cut and _partition_size of refine() need only the gains
\* cached in the PQs to be exact (QueuedGainsExact, checked by TLC) for
\* every pass to keep the contract of FMPassContract.
THEOREM RefinementFromGainsThm ==
  ASSUME SumFacts, MoveLaws
  PROVE  RSpec /\ []QueuedGainsExact => ContractSpec
<1>1. RInit => BInv /\ CutInv
  BY InitBInv, InitCutInv DEF RInit
<1>2. (BInv /\ CutInv) /\ QueuedGainsExact /\ [RNext]_rvars => (BInv /\ CutInv)'
  BY RNextNext, NextBInv, NextCutInv
<1>3. BInv /\ CutInv => CutTracksHypergraph /\ PartitionSizesExact
  BY DEF BInv, CutInv, CutTracksHypergraph
<1>4. RSpec /\ []CutTracksHypergraph /\ []PartitionSizesExact => ContractSpec
  BY RefinementThm
<1>5. QED
  BY <1>1, <1>2, <1>3, <1>4, PTL DEF RSpec

=============================================================================
