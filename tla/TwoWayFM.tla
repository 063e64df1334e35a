------------------------------ MODULE TwoWayFM ------------------------------
(***************************************************************************)
(* The two-way Fiduccia-Mattheyses local search of TwoWayFMRefiner.h.      *)
(*                                                                         *)
(* The refiner works on a fixed hypergraph (Nodes, Edges, Pins, weights)  *)
(* whose nodes are all assigned to block 0 or block 1.  Each call of       *)
(* refine(u, v, best_cut, max_imbalance, best_imbalance) is one pass:      *)
(*   Refine      clears both PQs and activates u and v;                    *)
(*   MoveNode    one forward iteration up to updateNeighbours: picks the   *)
(*               head of a PQ, moves it, updates cut and block weights;    *)
(*   UpdateEdge  one iteration of updateNeighbours' loop over the moved    *)
(*               node's incident hyperedges (gain deltas, activation,      *)
(*               removal of nodes that stopped being border nodes);        *)
(*   FinishMove  the rest of the iteration: the checkpoint test and the    *)
(*               record in _performed_moves;                               *)
(*   Stop        leaves the forward loop;                                  *)
(*   RollbackStep, RollbackDone   the rollback loop and the return.        *)
(* The pin counts n(e, b) of the hypergraph (Hypergraph.h, not under src/) *)
(* are derived from part, so they are always exact; what the refiner       *)
(* caches itself (gains in the PQs, _partition_size, cut) is state.        *)
(***************************************************************************)
EXTENDS Integers, FiniteSets, Sequences, FiniteSetsExt

CONSTANTS
  Nodes,          \* hypernode ids
  Edges,          \* hyperedge ids
  Pins,           \* Pins[e]: the pins of hyperedge e
  NodeWeight,     \* c(v)
  EdgeWeight,     \* omega(e)
  UpperBound,     \* _config.partitioning.partition_size_upper_bound
  MaxImbalance,   \* the max_imbalance argument, a fraction [num, den]
  MaxFruitless,   \* max_number_of_fruitless_moves of the simple stopping rule
  MaxPasses       \* bound: number of refine() calls explored

ASSUME GraphAssumption ==
  /\ IsFiniteSet(Nodes) /\ Nodes # {}
  /\ IsFiniteSet(Edges)
  /\ Pins \in [Edges -> SUBSET Nodes]
  /\ \A e \in Edges : Cardinality(Pins[e]) >= 2

ASSUME WeightAssumption ==
  /\ NodeWeight \in [Nodes -> Nat \ {0}]
  /\ EdgeWeight \in [Edges -> Nat \ {0}]

ASSUME ParameterAssumption ==
  /\ UpperBound \in Nat
  /\ MaxImbalance.num \in Nat /\ MaxImbalance.den \in Nat \ {0}
  /\ MaxFruitless \in Nat
  /\ MaxPasses \in Nat

VARIABLES
  part,           \* _hg.partitionIndex(v)
  partSize,       \* _partition_size
  pq,             \* pq[b]: the ids contained in _pq[b]
  key,            \* key[b][v]: the key of v in _pq[b]
  marked,         \* _marked
  justActivated,  \* _just_activated
  moves,          \* _performed_moves[0 .. num_moves - 1], as a sequence
  movedNode,      \* max_gain_node of the current iteration
  pending,        \* incident hyperedges updateNeighbours has yet to visit
  cut,            \* the local cut of refine()
  bestCut,        \* best_cut (owned by the caller, passed by reference)
  bestImbalance,  \* best_imbalance (owned by the caller)
  initialCut,     \* initial_cut
  minCutIndex,    \* min_cut_index
  lastIndex,      \* last_index of rollback()
  fruitless,      \* the statistics of the stopping policy
  phase,          \* where refine() is: "idle", "forward", "update", "rollback"
  passes,         \* number of refine() calls so far
  bestPart        \* history: part at the last checkpoint of the pass

vars == <<part, partSize, pq, key, marked, justActivated, moves, movedNode,
          pending, cut, bestCut, bestImbalance, initialCut, minCutIndex,
          lastIndex, fruitless, phase, passes, bestPart>>

-----------------------------------------------------------------------------
(* The hypergraph queries.                                                 *)

Blocks == {0, 1}

Other(b) == 1 - b                               \* b ^ 1

NumNodes == Cardinality(Nodes)

Incident(v) == {e \in Edges : v \in Pins[e]}

EdgeSize(e) == Cardinality(Pins[e])

PinCount(p, e, b) == Cardinality({v \in Pins[e] : p[v] = b})

\* The sum of the node weights of block b under partition p.
BlockWeight(p) ==
  [b \in Blocks |-> MapThenSumSet(LAMBDA v : NodeWeight[v], {v \in Nodes : p[v] = b})]

\* metrics::hyperedgeCut: the weight of the hyperedges with pins in both blocks.
HyperedgeCut(p) ==
  MapThenSumSet(LAMBDA e : EdgeWeight[e],
                {e \in Edges : PinCount(p, e, 0) > 0 /\ PinCount(p, e, 1) > 0})

-----------------------------------------------------------------------------
(* The refiner's helpers.                                                  *)

\* isBorderNode: some incident hyperedge has pins in both blocks.
IsBorderNode(p, v) ==
  \E e \in Incident(v) : PinCount(p, e, 0) > 0 /\ PinCount(p, e, 1) > 0

\* computeGain: the cut decrease of moving v to the other block.
ComputeGain(p, v) ==
  LET own    == p[v]
      target == Other(own)
  IN  MapThenSumSet(LAMBDA e : IF PinCount(p, e, target) = 0 THEN -EdgeWeight[e]
                               ELSE IF PinCount(p, e, own) = 1 THEN EdgeWeight[e]
                               ELSE 0,
                    Incident(v))

\* calculateImbalance: 2 * max(w0, w1) / (w0 + w1) - 1, kept as a fraction.
Imbalance(ps) ==
  LET total == ps[0] + ps[1]
      heavy == IF ps[0] >= ps[1] THEN ps[0] ELSE ps[1]
  IN  [num |-> 2 * heavy - total, den |-> total]

ImbalanceLess(x, y) == x.num * y.den < y.num * x.den

\* movePreservesBalanceConstraint(hn, from, to)
MovePreservesBalance(hn, to) ==
  partSize[to] + NodeWeight[hn] <= UpperBound

\* activate(hn) on the PQs and keys of partition p.
ActivatedPQ(q, p, hn) ==
  IF IsBorderNode(p, hn) THEN [q EXCEPT ![p[hn]] = @ \cup {hn}] ELSE q

ActivatedKey(k, p, hn) ==
  IF IsBorderNode(p, hn) THEN [k EXCEPT ![p[hn]][hn] = ComputeGain(p, hn)] ELSE k

-----------------------------------------------------------------------------
(* The laws of the sums.  The cut, the gains and the block weights are     *)
(* sums over sets (MapThenSumSet); these are the facts about them that the *)
(* proofs of the bookkeeping rest on.  They are theorems of arithmetic for *)
(* every finite hypergraph with positive weights (a fold of + over a set  *)
(* with one element added, or of integers), but proving them takes         *)
(* induction over the fold, so the proofs take them as hypotheses and the  *)
(* MC modules evaluate them as ASSUMEs.                                    *)

\* The cut of a partition is an integer, and the block weights are natural
\* numbers of positive total.
SumFacts ==
  \A p \in [Nodes -> Blocks] :
    /\ HyperedgeCut(p) \in Int
    /\ BlockWeight(p) \in [Blocks -> Nat]
    /\ BlockWeight(p)[0] + BlockWeight(p)[1] > 0

\* p with node v moved to the other block.
Moved(p, v) == [p EXCEPT ![v] = Other(p[v])]

\* Moving a node shifts its weight from its block to the other one, and
\* decreases the cut by its gain: the gain is an integer, and what
\* computeGain computes is exactly the cut decrease.
MoveLaws ==
  \A p \in [Nodes -> Blocks], v \in Nodes :
    /\ ComputeGain(p, v) \in Int
    /\ BlockWeight(Moved(p, v)) =
         [BlockWeight(p) EXCEPT ![p[v]] = @ - NodeWeight[v],
                                ![Other(p[v])] = @ + NodeWeight[v]]
    /\ HyperedgeCut(Moved(p, v)) = HyperedgeCut(p) - ComputeGain(p, v)

-----------------------------------------------------------------------------
\* The ids with the maximum key in _pq[b]: max() returns one of them.
MaxNodes(b) == {v \in pq[b] : \A w \in pq[b] : key[b][w] <= key[b][v]}

Heads(b) == IF pq[b] = {} THEN {CHOOSE v \in Nodes : TRUE} ELSE MaxNodes(b)

\* The EligibleTopGain queue selection policy (not under src/): the
\* eligible queue with the higher max gain, ties either way.  When neither
\* head is eligible the spec leaves the choice open: any non-empty queue.
SelectQueue(e0, e1, g0, g1) ==
  IF e0 /\ e1 THEN (IF g0 > g1 THEN {0} ELSE IF g1 > g0 THEN {1} ELSE {0, 1})
  ELSE IF e0 THEN {0}
  ELSE IF e1 THEN {1}
  ELSE {b \in Blocks : pq[b] # {}}

\* NumberOfFruitlessMovesStopsSearch::searchShouldStop (not under src/).
SearchShouldStop == fruitless >= MaxFruitless

\* The condition under which the forward loop performs another iteration.
LoopContinues ==
  /\ Len(moves) < NumNodes
  /\ ~(pq[0] = {} /\ pq[1] = {})
  /\ ~SearchShouldStop

\* Mutant: the size-3 correction of the 2 -> 1 case is left out.
PinSignsNoSize3Correction(he, from, to) ==
  LET new == [b \in Blocks |-> PinCount(part, he, b)]
      old == [b \in Blocks |-> IF b = to THEN new[b] - 1 ELSE new[b] + 1]
      Went(x, y) == \E b \in Blocks : old[b] = x /\ new[b] = y
  IN  IF EdgeSize(he) = 2 THEN [v \in Pins[he] |-> IF new[0] = 1 THEN 2 ELSE -2]
      ELSE IF Went(0, 1) THEN [v \in Pins[he] |-> 1]
      ELSE IF Went(1, 0) THEN [v \in Pins[he] |-> -1]
      ELSE IF Went(2, 1) THEN [v \in Pins[he] |-> IF part[v] = from THEN 1 ELSE 0]
      ELSE IF Went(1, 2) THEN [v \in Pins[he] |-> IF part[v] = to THEN -1 ELSE 0]
      ELSE [v \in {} |-> 0]

\* The gain sign updateNeighbours applies to each pin of he after a move
\* from -> to; a hyperedge none of whose cases applies is not visited.
PinSigns(he, from, to) ==
  LET new == [b \in Blocks |-> PinCount(part, he, b)]
      old == [b \in Blocks |-> IF b = to THEN new[b] - 1 ELSE new[b] + 1]
      Went(x, y) == \E b \in Blocks : old[b] = x /\ new[b] = y
  IN  IF EdgeSize(he) = 2 THEN [v \in Pins[he] |-> IF new[0] = 1 THEN 2 ELSE -2]
      ELSE IF Went(0, 1) THEN [v \in Pins[he] |-> 1]
      ELSE IF Went(1, 0) THEN [v \in Pins[he] |-> -1]
      ELSE IF Went(2, 1) THEN [v \in Pins[he] |->
                                 IF part[v] = from THEN 1
                                 ELSE IF EdgeSize(he) = 3 THEN -1 ELSE 0]
      ELSE IF Went(1, 2) THEN [v \in Pins[he] |-> IF part[v] = to THEN -1 ELSE 0]
      ELSE [v \in {} |-> 0]

-----------------------------------------------------------------------------
(* The operations.                                                         *)

\* initialize(), and the caller's best_cut and best_imbalance.
Init ==
  /\ part \in [Nodes -> Blocks]
  /\ partSize = BlockWeight(part)
  /\ pq = [b \in Blocks |-> {}]
  /\ key = [b \in Blocks |-> [v \in Nodes |-> 0]]
  /\ marked = {}
  /\ justActivated = {}
  /\ moves = <<>>
  /\ movedNode = CHOOSE v \in Nodes : TRUE
  /\ pending = {}
  /\ bestCut = HyperedgeCut(part)
  /\ bestImbalance = Imbalance(partSize)
  /\ cut = bestCut
  /\ initialCut = bestCut
  /\ minCutIndex = -1
  /\ lastIndex = -1
  /\ fruitless = 0
  /\ phase = "idle"
  /\ passes = 0
  /\ bestPart = part

\* refine(u, v, ...) up to the forward loop.
Refine(u, v) ==
  /\ phase = "idle"
  /\ passes < MaxPasses
  /\ u # v
  /\ pq' = ActivatedPQ(ActivatedPQ([b \in Blocks |-> {}], part, u), part, v)
  /\ key' = ActivatedKey(ActivatedKey(key, part, u), part, v)
  /\ marked' = {}
  /\ moves' = <<>>
  /\ cut' = bestCut
  /\ initialCut' = bestCut
  /\ minCutIndex' = -1
  /\ fruitless' = 0
  /\ phase' = "forward"
  /\ passes' = passes + 1
  /\ bestPart' = part
  /\ UNCHANGED <<part, partSize, justActivated, movedNode, pending, bestCut,
                 bestImbalance, lastIndex>>

\* deleteMax of hn from _pq[from], moveHypernode(hn, from, to), the cut and
\* statistics update, and the reset of _just_activated at the start of
\* updateNeighbours.
PerformMove(hn, from) ==
  LET to == Other(from)
  IN  /\ pq' = [pq EXCEPT ![from] = @ \ {hn}]
      /\ part' = [part EXCEPT ![hn] = to]
      /\ marked' = marked \cup {hn}
      /\ partSize' = [partSize EXCEPT ![from] = @ - NodeWeight[hn],
                                      ![to] = @ + NodeWeight[hn]]
      /\ cut' = cut - key[from][hn]
      /\ fruitless' = fruitless + 1
      /\ justActivated' = {}
      /\ movedNode' = hn
      /\ pending' = Incident(hn)

\* checkPQsForEligibleMoves: _pq[b] is non-empty and moving its max to the
\* other block keeps that block within the upper bound.
Eligible(hn, b) == pq[b] # {} /\ MovePreservesBalance(hn, Other(b))

\* A forward iteration up to updateNeighbours: checkPQsForEligibleMoves,
\* selectQueue, and the move of the head of the chosen PQ.  The two-way
\* refiner is built with the NullPolicy clogging policy (KaHyPar.cc:452),
\* whose removeCloggingQueueEntries never discards a head, so the
\* `continue' at line 143 is never taken.
MoveNode ==
  /\ phase = "forward"
  /\ LoopContinues
  /\ \E h0 \in Heads(0), h1 \in Heads(1) :
       \E from \in SelectQueue(Eligible(h0, 0), Eligible(h1, 1), key[0][h0], key[1][h1]) :
         PerformMove(IF from = 0 THEN h0 ELSE h1, from)
  /\ phase' = "update"
  /\ UNCHANGED <<key, moves, bestCut, bestImbalance, initialCut, minCutIndex,
                 lastIndex, passes, bestPart>>

\* Mutant: updatePin applies gain deltas to nodes activated in this step.
UpdateEdgeIgnoringJustActivated(he) ==
  /\ phase = "update"
  /\ he \in pending
  /\ LET to      == part[movedNode]
         sign    == PinSigns(he, Other(to), to)
         touched == DOMAIN sign
         InPQ(v) == v \in pq[part[v]]
         removed   == {v \in touched : InPQ(v) /\ ~IsBorderNode(part, v)}
         adjusted  == {v \in touched : InPQ(v) /\ IsBorderNode(part, v)}
         activates == {v \in touched : ~InPQ(v) /\ v \notin marked}
         inserted  == {v \in activates : IsBorderNode(part, v)}
     IN  /\ pq' = [b \in Blocks |-> (pq[b] \ {v \in removed : part[v] = b})
                                     \cup {v \in inserted : part[v] = b}]
         /\ key' = [b \in Blocks |-> [v \in Nodes |->
                      IF v \in adjusted /\ part[v] = b
                        THEN key[b][v] + sign[v] * EdgeWeight[he]
                      ELSE IF v \in inserted /\ part[v] = b
                        THEN ComputeGain(part, v)
                      ELSE key[b][v]]]
         /\ justActivated' = justActivated \cup activates
  /\ pending' = pending \ {he}
  /\ UNCHANGED <<part, partSize, marked, moves, movedNode, cut, bestCut,
                 bestImbalance, initialCut, minCutIndex, lastIndex, fruitless,
                 phase, passes, bestPart>>

\* One hyperedge of updateNeighbours: updatePinsOfHyperedge and updatePin
\* for every pin of he.
UpdateEdge(he) ==
  /\ phase = "update"
  /\ he \in pending
  /\ LET to      == part[movedNode]
         sign    == PinSigns(he, Other(to), to)
         touched == DOMAIN sign
         InPQ(v) == v \in pq[part[v]]
         removed   == {v \in touched : InPQ(v) /\ ~IsBorderNode(part, v)}
         adjusted  == {v \in touched : InPQ(v) /\ IsBorderNode(part, v) /\ v \notin justActivated}
         activates == {v \in touched : ~InPQ(v) /\ v \notin marked}
         inserted  == {v \in activates : IsBorderNode(part, v)}
     IN  /\ pq' = [b \in Blocks |-> (pq[b] \ {v \in removed : part[v] = b})
                                     \cup {v \in inserted : part[v] = b}]
         /\ key' = [b \in Blocks |-> [v \in Nodes |->
                      IF v \in adjusted /\ part[v] = b
                        THEN key[b][v] + sign[v] * EdgeWeight[he]
                      ELSE IF v \in inserted /\ part[v] = b
                        THEN ComputeGain(part, v)
                      ELSE key[b][v]]]
         /\ justActivated' = justActivated \cup activates
  /\ pending' = pending \ {he}
  /\ UNCHANGED <<part, partSize, marked, moves, movedNode, cut, bestCut,
                 bestImbalance, initialCut, minCutIndex, lastIndex, fruitless,
                 phase, passes, bestPart>>

\* Mutant: improved_cut_within_balance without the balance condition.
ImprovedIgnoringBalance ==
  LET imbalance == Imbalance(partSize)
  IN  \/ ImbalanceLess(imbalance, bestImbalance) /\ cut <= bestCut
      \/ cut < bestCut

\* The end of a forward iteration: the checkpoint test and the record of
\* the move in _performed_moves[num_moves].
Improved ==
  LET imbalance == Imbalance(partSize)
  IN  \/ ImbalanceLess(imbalance, bestImbalance) /\ cut <= bestCut
      \/ cut < bestCut /\ ImbalanceLess(imbalance, MaxImbalance)

\* Mutant: a checkpoint that forgets best_imbalance.
FinishMoveKeepingBestImbalance ==
  /\ phase = "update"
  /\ pending = {}
  /\ \/ /\ Improved
        /\ bestCut' = cut
        /\ minCutIndex' = Len(moves)
        /\ fruitless' = 0
        /\ bestPart' = part
        /\ UNCHANGED bestImbalance
     \/ /\ ~Improved
        /\ UNCHANGED <<bestImbalance, bestCut, minCutIndex, fruitless, bestPart>>
  /\ moves' = Append(moves, movedNode)
  /\ phase' = "forward"
  /\ UNCHANGED <<part, partSize, pq, key, marked, justActivated, movedNode,
                 pending, cut, initialCut, lastIndex, passes>>

\* Mutant: the checkpoint index is one too small (num_moves - 1).
FinishMoveIndexOffByOne ==
  /\ phase = "update"
  /\ pending = {}
  /\ \/ /\ Improved
        /\ bestImbalance' = Imbalance(partSize)
        /\ bestCut' = cut
        /\ minCutIndex' = Len(moves) - 1
        /\ fruitless' = 0
        /\ bestPart' = part
     \/ /\ ~Improved
        /\ UNCHANGED <<bestImbalance, bestCut, minCutIndex, fruitless, bestPart>>
  /\ moves' = Append(moves, movedNode)
  /\ phase' = "forward"
  /\ UNCHANGED <<part, partSize, pq, key, marked, justActivated, movedNode,
                 pending, cut, initialCut, lastIndex, passes>>

FinishMove ==
  /\ phase = "update"
  /\ pending = {}
  /\ \/ /\ Improved
        /\ bestImbalance' = Imbalance(partSize)
        /\ bestCut' = cut
        /\ minCutIndex' = Len(moves)
        /\ fruitless' = 0
        /\ bestPart' = part
     \/ /\ ~Improved
        /\ UNCHANGED <<bestImbalance, bestCut, minCutIndex, fruitless, bestPart>>
  /\ moves' = Append(moves, movedNode)
  /\ phase' = "forward"
  /\ UNCHANGED <<part, partSize, pq, key, marked, justActivated, movedNode,
                 pending, cut, initialCut, lastIndex, passes>>

\* The forward loop ends: rollback(_performed_moves, num_moves - 1, ...).
Stop ==
  /\ phase = "forward"
  /\ ~LoopContinues
  /\ lastIndex' = Len(moves) - 1
  /\ phase' = "rollback"
  /\ UNCHANGED <<part, partSize, pq, key, marked, justActivated, moves,
                 movedNode, pending, cut, bestCut, bestImbalance, initialCut,
                 minCutIndex, fruitless, passes, bestPart>>

\* Mutant: the block weights are updated after changeNodePartition, from
\* the node's new block.
RollbackStepSizesAfterChange ==
  /\ phase = "rollback"
  /\ lastIndex # minCutIndex
  /\ LET hn == moves[lastIndex + 1]
         b  == Other(part[hn])
     IN  /\ partSize' = [partSize EXCEPT ![b] = @ - NodeWeight[hn],
                                         ![Other(b)] = @ + NodeWeight[hn]]
         /\ part' = [part EXCEPT ![hn] = b]
  /\ lastIndex' = lastIndex - 1
  /\ UNCHANGED <<pq, key, marked, justActivated, moves, movedNode, pending, cut,
                 bestCut, bestImbalance, initialCut, minCutIndex, fruitless,
                 phase, passes, bestPart>>

\* Mutant: the loop forgets --last_index.
RollbackStepNoDecrement ==
  /\ phase = "rollback"
  /\ lastIndex # minCutIndex
  /\ LET hn == moves[lastIndex + 1]
         b  == part[hn]
     IN  /\ partSize' = [partSize EXCEPT ![b] = @ - NodeWeight[hn],
                                         ![Other(b)] = @ + NodeWeight[hn]]
         /\ part' = [part EXCEPT ![hn] = Other(b)]
  /\ UNCHANGED <<pq, key, marked, justActivated, moves, movedNode, pending, cut,
                 bestCut, bestImbalance, initialCut, minCutIndex, lastIndex,
                 fruitless, phase, passes, bestPart>>

\* One iteration of rollback(): undo _performed_moves[last_index].
RollbackStep ==
  /\ phase = "rollback"
  /\ lastIndex # minCutIndex
  /\ LET hn == moves[lastIndex + 1]
         b  == part[hn]
     IN  /\ partSize' = [partSize EXCEPT ![b] = @ - NodeWeight[hn],
                                         ![Other(b)] = @ + NodeWeight[hn]]
         /\ part' = [part EXCEPT ![hn] = Other(b)]
  /\ lastIndex' = lastIndex - 1
  /\ UNCHANGED <<pq, key, marked, justActivated, moves, movedNode, pending, cut,
                 bestCut, bestImbalance, initialCut, minCutIndex, fruitless,
                 phase, passes, bestPart>>

\* rollback() returns, and so does refine().
RollbackDone ==
  /\ phase = "rollback"
  /\ lastIndex = minCutIndex
  /\ phase' = "idle"
  /\ UNCHANGED <<part, partSize, pq, key, marked, justActivated, moves,
                 movedNode, pending, cut, bestCut, bestImbalance, initialCut,
                 minCutIndex, lastIndex, fruitless, passes, bestPart>>

Next ==
  \/ \E u, v \in Nodes : Refine(u, v)
  \/ MoveNode
  \/ \E he \in Edges : UpdateEdge(he)
  \/ FinishMove
  \/ Stop
  \/ RollbackStep
  \/ RollbackDone

\* refine() is plain sequential code: once called it runs to its return.
Spec == Init /\ [][Next]_vars /\ WF_vars(Next)

-----------------------------------------------------------------------------
(* Properties.                                                             *)

TypeOK ==
  /\ part \in [Nodes -> Blocks]
  /\ partSize \in [Blocks -> Nat]
  /\ pq \in [Blocks -> SUBSET Nodes]
  /\ key \in [Blocks -> [Nodes -> Int]]
  /\ marked \subseteq Nodes
  /\ justActivated \subseteq Nodes
  /\ moves \in Seq(Nodes)
  /\ movedNode \in Nodes
  /\ pending \subseteq Edges
  /\ cut \in Int /\ bestCut \in Int /\ initialCut \in Int
  /\ bestImbalance \in [num : Int, den : Int]
  /\ minCutIndex \in -1 .. NumNodes - 1
  /\ lastIndex \in -1 .. NumNodes - 1
  /\ fruitless \in Nat
  /\ phase \in {"idle", "forward", "update", "rollback"}
  /\ passes \in 0 .. MaxPasses
  /\ bestPart \in [Nodes -> Blocks]

\* Between two forward iterations every id in a PQ is unmarked, sits in the
\* PQ of its own block only, and its key is the gain computeGain would
\* return now: the gain-update rules of updateNeighbours (the size-2 and
\* size-3 special cases, just_activated, removal of non-border nodes) keep
\* every cached gain exact.
QueuedGainsExact ==
  phase = "forward" =>
    \A b \in Blocks : \A v \in pq[b] :
      /\ part[v] = b
      /\ v \notin marked
      /\ key[b][v] = ComputeGain(part, v)

\* The incrementally maintained cut of refine() (cut -= max_gain) equals
\* the cut of the hypergraph after every move (the ASSERT after
\* moveHypernode).
CutTracksHypergraph ==
  phase \in {"forward", "update"} => cut = HyperedgeCut(part)

\* _partition_size, which moveHypernode and the rollback update by the
\* weight of each node they move, is the weight of each block of the
\* current partition at every step (the ASSERT of calculateImbalance that
\* its imbalance equals metrics::imbalance of the hypergraph).
PartitionSizesExact == partSize = BlockWeight(part)

\* Whenever refine() is (re)entered its preconditions hold: best_cut is the
\* hypergraph's cut, best_imbalance is the imbalance of the cached block
\* weights, and _partition_size is the real weight of each block; i.e. the
\* rollback restores exactly the state recorded at min_cut_index.
RefineEntryConsistent ==
  phase = "idle" =>
    /\ bestCut = HyperedgeCut(part)
    /\ partSize = BlockWeight(part)
    /\ bestImbalance = Imbalance(partSize)

\* The rollback brings back exactly the partition of the last checkpoint:
\* every move after min_cut_index, and no other, is undone.
RollbackRestoresCheckpoint ==
  phase = "idle" => part = bestPart

\* Each iteration of rollback() moves every node whose block it changes
\* back to its block at the last checkpoint: the loop undoes
\* moves made after min_cut_index and never touches a move
\* the checkpoint kept.
RollbackMovesBack ==
  [][phase = "rollback" =>
       \A v \in Nodes : part'[v] # part[v] => part'[v] = bestPart[v]]_vars

\* Every refine() pass returns: the forward loop and the rollback end.
PassTerminates == phase # "idle" ~> phase = "idle"

=============================================================================
