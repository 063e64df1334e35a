-------------------- MODULE TwoWayFMBookkeepingProofs --------------------
(***************************************************************************)
(* Proofs about the numeric bookkeeping of the FM pass: the types of the   *)
(* cached gains and cuts, _partition_size, and the incremental cut,        *)
(* best_cut and best_imbalance.                                            *)
(*                                                                         *)
(* They rest on the laws of the sums SumFacts and MoveLaws of TwoWayFM,    *)
(* taken as hypotheses (MCTwoWayFM and MCTwoWayFMRefinement evaluate them), *)
(* and on the control invariant IInv of TwoWayFMProofs.  The cut is exact  *)
(* only as long as the cached gains are: that is QueuedGainsExact, which   *)
(* TLC checks and the theorems about the cut take as a hypothesis.         *)
(***************************************************************************)
EXTENDS TwoWayFMProofs, FiniteSetTheorems

\* At most one move per node is recorded, and during updateNeighbours the
\* move in progress still fits.
MovesBound ==
  /\ Len(moves) <= NumNodes
  /\ phase = "update" => Len(moves) < NumNodes

\* The types of the numeric state.
NumericTypeOK ==
  /\ key \in [Blocks -> [Nodes -> Int]]
  /\ cut \in Int /\ bestCut \in Int /\ initialCut \in Int
  /\ bestImbalance \in [num : Int, den : Int]
  /\ lastIndex \in -1 .. NumNodes - 1
  /\ fruitless \in Nat
  /\ passes \in 0 .. MaxPasses

\* The inductive invariant of the types and of _partition_size.
BInv ==
  /\ IInv
  /\ PartitionSizesExact
  /\ MovesBound
  /\ NumericTypeOK

\* The cut, best_cut and best_imbalance against the hypergraph: the local
\* cut is the partition's during the forward loop, the caller's values are
\* the checkpoint's during a pass and the partition's between passes.
CutInv ==
  /\ phase \in {"forward", "update"} => cut = HyperedgeCut(part)
  /\ phase = "idle" => bestCut = HyperedgeCut(part) /\ bestImbalance = Imbalance(partSize)
  /\ phase # "idle" => /\ bestCut = HyperedgeCut(bestPart)
                       /\ bestImbalance = Imbalance(BlockWeight(bestPart))

-----------------------------------------------------------------------------

LEMMA NumNodesNat == NumNodes \in Nat
BY GraphAssumption, FS_CardinalityType DEF NumNodes

\* The gain signs updatePin applies are integers.
LEMMA PinSignsInt ==
  ASSUME NEW he \in Edges, NEW from, NEW to
  PROVE  \A v \in DOMAIN PinSigns(he, from, to) : PinSigns(he, from, to)[v] \in Int
BY DEF PinSigns

\* calculateImbalance of natural block weights is a fraction of integers.
LEMMA ImbalanceType ==
  ASSUME NEW ps \in [Blocks -> Nat]
  PROVE  Imbalance(ps) \in [num : Int, den : Int]
BY DEF Imbalance, Blocks

\* activate(hn) stores an integer gain.
LEMMA ActivatedKeyType ==
  ASSUME MoveLaws, NEW k \in [Blocks -> [Nodes -> Int]], NEW p \in [Nodes -> Blocks],
         NEW hn \in Nodes
  PROVE  ActivatedKey(k, p, hn) \in [Blocks -> [Nodes -> Int]]
<1>1. ComputeGain(p, hn) \in Int
  BY DEF MoveLaws
<1>2. QED
  BY <1>1 DEF ActivatedKey, Blocks

\* Moving hn out of block from, as moveHypernode and the rollback do, is
\* Moved, and shifts the weights as _partition_size is updated.
LEMMA MoveWeights ==
  ASSUME MoveLaws, NEW p \in [Nodes -> Blocks], NEW hn \in Nodes, NEW from,
         from = p[hn]
  PROVE  /\ [p EXCEPT ![hn] = Other(from)] = Moved(p, hn)
         /\ BlockWeight(Moved(p, hn)) =
              [BlockWeight(p) EXCEPT ![from] = @ - NodeWeight[hn],
                                     ![Other(from)] = @ + NodeWeight[hn]]
BY DEF MoveLaws, Moved

\* The initial state, with the caller's best_cut of the partition.
LEMMA InitBInv ==
  ASSUME SumFacts
  PROVE  Init => BInv
<1> SUFFICES ASSUME Init PROVE BInv
  OBVIOUS
<1>1. IInv
  BY InitIInv
<1>2. HyperedgeCut(part) \in Int /\ BlockWeight(part) \in [Blocks -> Nat]
  BY DEF Init, SumFacts
<1>3. Imbalance(partSize) \in [num : Int, den : Int]
  BY <1>2, ImbalanceType DEF Init
<1>4. QED
  BY <1>1, <1>2, <1>3, NumNodesNat, ParameterAssumption
     DEF Init, BInv, PartitionSizesExact, MovesBound, NumericTypeOK, Blocks

\* refine() entered: the PQs get the gains of u and v, and the local cut
\* starts from best_cut.
LEMMA RefineBInv ==
  ASSUME MoveLaws, BInv, NEW u \in Nodes, NEW v \in Nodes, Refine(u, v)
  PROVE  BInv'
<1>1. IInv'
  BY RefineIInv DEF BInv
<1>2. /\ key \in [Blocks -> [Nodes -> Int]] /\ part \in [Nodes -> Blocks]
  BY DEF BInv, NumericTypeOK, IInv, ControlTypeOK
<1>3. key' \in [Blocks -> [Nodes -> Int]]
  <2>1. ActivatedKey(key, part, u) \in [Blocks -> [Nodes -> Int]]
    BY <1>2, ActivatedKeyType
  <2>2. QED
    BY <1>2, <2>1, ActivatedKeyType DEF Refine
<1>4. PartitionSizesExact'
  BY DEF Refine, BInv, PartitionSizesExact
<1>5. NumericTypeOK'
  <2>1. /\ cut' \in Int /\ bestCut' \in Int /\ initialCut' \in Int
        /\ bestImbalance' \in [num : Int, den : Int]
        /\ lastIndex' \in -1 .. NumNodes - 1
    BY DEF Refine, BInv, NumericTypeOK
  <2>2. fruitless' \in Nat /\ passes' \in 0 .. MaxPasses
    BY ParameterAssumption DEF Refine, BInv, NumericTypeOK
  <2>3. QED
    BY <1>3, <2>1, <2>2 DEF NumericTypeOK
<1>6. MovesBound'
  BY NumNodesNat DEF Refine, MovesBound
<1>7. QED
  BY <1>1, <1>4, <1>5, <1>6 DEF BInv

\* A forward iteration moves a queued node out of its own block, so
\* moveHypernode's update of _partition_size is the shift of its weight.
LEMMA MoveNodeBInv ==
  ASSUME MoveLaws, BInv, MoveNode
  PROVE  BInv'
<1>1. PICK hn \in Nodes, from \in Blocks : hn \in pq[from] /\ PerformMove(hn, from)
  BY MoveNodeChoice DEF BInv
<1>2. /\ phase = "forward" /\ phase' = "update" /\ Len(moves) < NumNodes
      /\ UNCHANGED <<key, moves, bestCut, bestImbalance, initialCut, lastIndex, passes>>
  BY DEF MoveNode, LoopContinues
<1>3. part[hn] = from /\ part \in [Nodes -> Blocks]
  BY <1>1, <1>2 DEF BInv, IInv, QueuedUnmarked, ControlTypeOK
<1>4. PartitionSizesExact'
  <2>1. /\ part' = [part EXCEPT ![hn] = Other(from)]
        /\ partSize' = [partSize EXCEPT ![from] = @ - NodeWeight[hn],
                                        ![Other(from)] = @ + NodeWeight[hn]]
    BY <1>1 DEF PerformMove
  <2>2. /\ [part EXCEPT ![hn] = Other(from)] = Moved(part, hn)
        /\ BlockWeight(Moved(part, hn)) =
             [BlockWeight(part) EXCEPT ![from] = @ - NodeWeight[hn],
                                       ![Other(from)] = @ + NodeWeight[hn]]
    BY <1>3, MoveWeights
  <2>3. QED
    BY <2>1, <2>2 DEF BInv, PartitionSizesExact
<1>5. key[from][hn] \in Int /\ cut \in Int /\ fruitless \in Nat
  BY <1>1 DEF BInv, NumericTypeOK
<1>6. QED
  BY <1>1, <1>2, <1>4, <1>5, MoveNodeIInv
     DEF BInv, MovesBound, NumericTypeOK, PerformMove

\* updatePin adds integer deltas to the cached gains and activate() stores
\* integer gains.
LEMMA UpdateEdgeBInv ==
  ASSUME MoveLaws, BInv, NEW he \in Edges, UpdateEdge(he)
  PROVE  BInv'
<1> DEFINE to   == part[movedNode]
           sign == PinSigns(he, Other(to), to)
<1>1. \A v \in DOMAIN sign : sign[v] \in Int
  BY PinSignsInt
<1>2. \A v \in Nodes : ComputeGain(part, v) \in Int
  BY DEF MoveLaws, BInv, IInv, ControlTypeOK
<1>3. EdgeWeight[he] \in Nat /\ key \in [Blocks -> [Nodes -> Int]]
  BY WeightAssumption DEF BInv, NumericTypeOK
<1>4. key' \in [Blocks -> [Nodes -> Int]]
  BY <1>1, <1>2, <1>3 DEF UpdateEdge
<1>5. QED
  BY <1>4, UpdateEdgeIInv
     DEF UpdateEdge, BInv, PartitionSizesExact, MovesBound, NumericTypeOK

\* The end of an iteration records one more move, which fits by the loop
\* condition; a checkpoint copies the integer cut and the imbalance of the
\* natural block weights.
LEMMA FinishMoveBInv ==
  ASSUME SumFacts, BInv, FinishMove
  PROVE  BInv'
<1>1. /\ phase = "update" /\ phase' = "forward" /\ Len(moves) < NumNodes
      /\ moves \in Seq(Nodes) /\ part \in [Nodes -> Blocks]
      /\ movedNode \in Nodes
  BY DEF FinishMove, BInv, MovesBound, IInv, ControlTypeOK
<1>2. Imbalance(partSize) \in [num : Int, den : Int]
  <2>1. partSize \in [Blocks -> Nat]
    BY <1>1 DEF SumFacts, BInv, PartitionSizesExact
  <2>2. QED
    BY <2>1, ImbalanceType
<1>3. MovesBound'
  <2>1. Len(moves') = Len(moves) + 1
    BY <1>1 DEF FinishMove
  <2>2. QED
    BY <1>1, <2>1, NumNodesNat DEF MovesBound
<1>4. NumericTypeOK'
  <2>1. CASE Improved
    BY <1>2, <2>1 DEF FinishMove, BInv, NumericTypeOK
  <2>2. CASE ~Improved
    BY <2>2 DEF FinishMove, BInv, NumericTypeOK
  <2>3. QED
    BY <2>1, <2>2
<1>5. PartitionSizesExact'
  BY DEF FinishMove, BInv, PartitionSizesExact
<1>6. QED
  BY <1>3, <1>4, <1>5, FinishMoveIInv DEF BInv

\* The rollback starts at num_moves - 1, within the recorded moves.
LEMMA StopBInv ==
  ASSUME BInv, Stop
  PROVE  BInv'
<1>1. Len(moves) <= NumNodes /\ moves \in Seq(Nodes)
  BY DEF BInv, MovesBound, IInv, ControlTypeOK
<1>2. lastIndex' \in -1 .. NumNodes - 1
  BY <1>1, NumNodesNat DEF Stop
<1>3. QED
  BY <1>2, StopIInv DEF Stop, BInv, PartitionSizesExact, MovesBound, NumericTypeOK

\* One rollback iteration moves _performed_moves[last_index] back, and
\* _partition_size is updated from its current block first; last_index
\* stays at or above min_cut_index >= -1.
LEMMA RollbackStepBInv ==
  ASSUME MoveLaws, BInv, RollbackStep
  PROVE  BInv'
<1> DEFINE hn == moves[lastIndex + 1]
           b  == part[hn]
<1>1. /\ lastIndex \in minCutIndex + 1 .. Len(moves) - 1
      /\ minCutIndex \in -1 .. Len(moves) - 1
      /\ moves \in Seq(Nodes) /\ part \in [Nodes -> Blocks]
      /\ Len(moves) <= NumNodes
  BY DEF RollbackStep, BInv, IInv, ControlTypeOK, MinCutInRange, RollbackShape,
         MovesBound
<1>2. hn \in Nodes
  BY <1>1
<1>3. /\ part' = [part EXCEPT ![hn] = Other(b)]
      /\ partSize' = [partSize EXCEPT ![b] = @ - NodeWeight[hn],
                                      ![Other(b)] = @ + NodeWeight[hn]]
  BY DEF RollbackStep
<1>4. /\ [part EXCEPT ![hn] = Other(b)] = Moved(part, hn)
      /\ BlockWeight(Moved(part, hn)) =
           [BlockWeight(part) EXCEPT ![b] = @ - NodeWeight[hn],
                                     ![Other(b)] = @ + NodeWeight[hn]]
  BY <1>1, <1>2, MoveWeights
<1>5. PartitionSizesExact'
  BY <1>3, <1>4 DEF BInv, PartitionSizesExact
<1>6. lastIndex' \in -1 .. NumNodes - 1
  BY <1>1, NumNodesNat DEF RollbackStep, BInv, NumericTypeOK
<1>7. QED
  BY <1>5, <1>6, RollbackStepIInv
     DEF RollbackStep, BInv, MovesBound, NumericTypeOK

LEMMA RollbackDoneBInv ==
  ASSUME BInv, RollbackDone
  PROVE  BInv'
BY RollbackDoneIInv DEF RollbackDone, BInv, PartitionSizesExact, MovesBound, NumericTypeOK

LEMMA StutterBInv ==
  ASSUME BInv, UNCHANGED vars
  PROVE  BInv'
BY StutterIInv DEF vars, BInv, PartitionSizesExact, MovesBound, NumericTypeOK

\* BInv is an inductive invariant of the pass, given the laws of the sums.
LEMMA NextBInv ==
  ASSUME SumFacts, MoveLaws
  PROVE  BInv /\ [Next]_vars => BInv'
<1> SUFFICES ASSUME BInv, [Next]_vars PROVE BInv'
  OBVIOUS
<1>1. CASE \E u, v \in Nodes : Refine(u, v)
  BY <1>1, RefineBInv
<1>2. CASE MoveNode
  BY <1>2, MoveNodeBInv
<1>3. CASE \E he \in Edges : UpdateEdge(he)
  BY <1>3, UpdateEdgeBInv
<1>4. CASE FinishMove
  BY <1>4, FinishMoveBInv
<1>5. CASE Stop
  BY <1>5, StopBInv
<1>6. CASE RollbackStep
  BY <1>6, RollbackStepBInv
<1>7. CASE RollbackDone
  BY <1>7, RollbackDoneBInv
<1>8. CASE UNCHANGED vars
  BY <1>8, StutterBInv
<1>9. QED
  BY <1>1, <1>2, <1>3, <1>4, <1>5, <1>6, <1>7, <1>8 DEF Next

\* Every state of the pass has the types TypeOK states: the block weights
\* kept in _partition_size are natural numbers, min_cut_index and
\* last_index are -1 or indices of _performed_moves, and the cut and the
\* cached gains are integers.
THEOREM TypeOKThm ==
  ASSUME SumFacts, MoveLaws
  PROVE  Spec => []TypeOK
<1>1. BInv => TypeOK
  <2> SUFFICES ASSUME BInv PROVE TypeOK
    OBVIOUS
  <2>1. part \in [Nodes -> Blocks] /\ moves \in Seq(Nodes)
        /\ Len(moves) <= NumNodes /\ MinCutInRange
    BY DEF BInv, IInv, ControlTypeOK, MovesBound
  <2>2. partSize \in [Blocks -> Nat]
    BY <2>1 DEF SumFacts, BInv, PartitionSizesExact
  <2>3. minCutIndex \in -1 .. NumNodes - 1
    BY <2>1, NumNodesNat DEF MinCutInRange
  <2>4. QED
    BY <2>2, <2>3 DEF BInv, IInv, ControlTypeOK, NumericTypeOK, TypeOK
<1>2. Init => BInv
  BY InitBInv
<1>3. BInv /\ [Next]_vars => BInv'
  BY NextBInv
<1>4. QED
  BY <1>1, <1>2, <1>3, PTL DEF Spec

\* _partition_size always equals the block weights of the partition
\* (the ASSERT of calculateImbalance): the updates in moveHypernode, in the
\* rollback and at initialize() keep it exact through every pass.
THEOREM PartitionSizesExactThm ==
  ASSUME SumFacts, MoveLaws
  PROVE  Spec => []PartitionSizesExact
<1>1. BInv => PartitionSizesExact
  BY DEF BInv
<1>2. Init => BInv
  BY InitBInv
<1>3. BInv /\ [Next]_vars => BInv'
  BY NextBInv
<1>4. QED
  BY <1>1, <1>2, <1>3, PTL DEF Spec

-----------------------------------------------------------------------------
(* The cut.  refine() keeps `cut' by subtracting the gain it read from the *)
(* PQ; this matches the hypergraph's cut as long as the cached gains are   *)
(* exact (QueuedGainsExact, which only TLC checks), and the checkpoint of  *)
(* best_cut and best_imbalance is the cut and imbalance of bestPart.       *)

LEMMA InitCutInv ==
  Init => CutInv
BY DEF Init, CutInv

\* At refine() entry cut and initial_cut are set to best_cut, the cut of
\* the partition the pass starts from.
LEMMA RefineCutInv ==
  ASSUME BInv, CutInv, NEW u \in Nodes, NEW v \in Nodes, Refine(u, v)
  PROVE  CutInv'
<1>1. bestCut = HyperedgeCut(part) /\ bestImbalance = Imbalance(BlockWeight(part))
  BY DEF Refine, CutInv, BInv, PartitionSizesExact
<1>2. QED
  BY <1>1 DEF Refine, CutInv

\* cut -= max_gain, and max_gain is the key of the head of _pq[from],
\* which is its exact gain.
LEMMA MoveNodeCutInv ==
  ASSUME MoveLaws, BInv, CutInv, QueuedGainsExact, MoveNode
  PROVE  CutInv'
<1>1. PICK hn \in Nodes, from \in Blocks : hn \in pq[from] /\ PerformMove(hn, from)
  BY MoveNodeChoice DEF BInv
<1>2. /\ part \in [Nodes -> Blocks] /\ phase = "forward" /\ phase' = "update"
  BY DEF MoveNode, BInv, IInv, ControlTypeOK
<1>3. part[hn] = from /\ key[from][hn] = ComputeGain(part, hn)
  BY <1>1, <1>2 DEF QueuedGainsExact
<1>4. part' = Moved(part, hn)
  <2>1. [part EXCEPT ![hn] = Other(from)] = Moved(part, hn)
    BY <1>2, <1>3, MoveWeights
  <2>2. QED
    BY <1>1, <2>1 DEF PerformMove
<1>5. HyperedgeCut(Moved(part, hn)) = HyperedgeCut(part) - ComputeGain(part, hn)
  BY <1>2 DEF MoveLaws
<1>6. cut' = HyperedgeCut(part')
  BY <1>1, <1>2, <1>3, <1>4, <1>5 DEF PerformMove, CutInv
<1>7. QED
  BY <1>2, <1>6 DEF MoveNode, CutInv

LEMMA UpdateEdgeCutInv ==
  ASSUME CutInv, NEW he \in Edges, UpdateEdge(he)
  PROVE  CutInv'
BY DEF UpdateEdge, CutInv

\* A checkpoint records the current cut and the imbalance of
\* _partition_size, the block weights of the partition it records.
LEMMA FinishMoveCutInv ==
  ASSUME BInv, CutInv, FinishMove
  PROVE  CutInv'
<1>1. phase = "update" /\ phase' = "forward" /\ cut = HyperedgeCut(part)
  BY DEF FinishMove, CutInv
<1>2. CASE Improved
  BY <1>1, <1>2 DEF FinishMove, CutInv, BInv, PartitionSizesExact
<1>3. CASE ~Improved
  BY <1>1, <1>3 DEF FinishMove, CutInv
<1>4. QED
  BY <1>2, <1>3

LEMMA StopCutInv ==
  ASSUME CutInv, Stop
  PROVE  CutInv'
BY DEF Stop, CutInv

LEMMA RollbackStepCutInv ==
  ASSUME CutInv, RollbackStep
  PROVE  CutInv'
BY DEF RollbackStep, CutInv

\* When the rollback ends the partition is the checkpoint's again, so
\* best_cut and best_imbalance describe it.
LEMMA RollbackDoneCutInv ==
  ASSUME BInv, CutInv, RollbackDone
  PROVE  CutInv'
<1>1. part = bestPart
  <2>1. IInv'
    BY RollbackDoneIInv DEF BInv
  <2>2. QED
    BY <2>1 DEF RollbackDone, IInv, RollbackRestoresCheckpoint
<1>2. QED
  BY <1>1 DEF RollbackDone, CutInv, BInv, PartitionSizesExact

LEMMA StutterCutInv ==
  ASSUME CutInv, UNCHANGED vars
  PROVE  CutInv'
BY DEF vars, CutInv

LEMMA NextCutInv ==
  ASSUME MoveLaws
  PROVE  BInv /\ CutInv /\ QueuedGainsExact /\ [Next]_vars => CutInv'
<1> SUFFICES ASSUME BInv, CutInv, QueuedGainsExact, [Next]_vars PROVE CutInv'
  OBVIOUS
<1>1. CASE \E u, v \in Nodes : Refine(u, v)
  BY <1>1, RefineCutInv
<1>2. CASE MoveNode
  BY <1>2, MoveNodeCutInv
<1>3. CASE \E he \in Edges : UpdateEdge(he)
  BY <1>3, UpdateEdgeCutInv
<1>4. CASE FinishMove
  BY <1>4, FinishMoveCutInv
<1>5. CASE Stop
  BY <1>5, StopCutInv
<1>6. CASE RollbackStep
  BY <1>6, RollbackStepCutInv
<1>7. CASE RollbackDone
  BY <1>7, RollbackDoneCutInv
<1>8. CASE UNCHANGED vars
  BY <1>8, StutterCutInv
<1>9. QED
  BY <1>1, <1>2, <1>3, <1>4, <1>5, <1>6, <1>7, <1>8 DEF Next

\* BInv and CutInv together are inductive for the behaviours whose cached
\* gains are exact.
LEMMA CutInvariant ==
  ASSUME SumFacts, MoveLaws
  PROVE  Spec /\ []QueuedGainsExact => [](BInv /\ CutInv)
<1>1. Init => BInv /\ CutInv
  BY InitBInv, InitCutInv
<1>2. (BInv /\ CutInv) /\ QueuedGainsExact /\ [Next]_vars => (BInv /\ CutInv)'
  BY NextBInv, NextCutInv
<1>3. QED
  BY <1>1, <1>2, PTL DEF Spec

\* The cut refine() maintains by `cut -= max_gain' is the hypergraph's cut
\* after every move (the ASSERT after moveHypernode), in every behaviour in
\* which the gains cached in the PQs are exact.
THEOREM CutTracksHypergraphThm ==
  ASSUME SumFacts, MoveLaws
  PROVE  Spec /\ []QueuedGainsExact => []CutTracksHypergraph
<1>1. BInv /\ CutInv => CutTracksHypergraph
  BY DEF CutInv, CutTracksHypergraph
<1>2. QED
  BY <1>1, CutInvariant, PTL

\* Each call of refine() finds best_cut, best_imbalance and _partition_size
\* describing the partition it is given: the rollback and the checkpoint
\* of the previous call leave them consistent, given exact cached gains.
THEOREM RefineEntryConsistentThm ==
  ASSUME SumFacts, MoveLaws
  PROVE  Spec /\ []QueuedGainsExact => []RefineEntryConsistent
<1>1. BInv /\ CutInv => RefineEntryConsistent
  BY DEF BInv, PartitionSizesExact, CutInv, RefineEntryConsistent
<1>2. QED
  BY <1>1, CutInvariant, PTL

=============================================================================
