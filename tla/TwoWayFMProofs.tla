--------------------------- MODULE TwoWayFMProofs ---------------------------
(***************************************************************************)
(* Proofs about the FM pass of TwoWayFM, for every hypergraph and every    *)
(* value of the parameters.                                                *)
(*                                                                         *)
(* The gains, the cut and the block weights are sums over sets (folds),    *)
(* about which the provers cannot reason without induction; the theorems   *)
(* here are about the control of the pass: which nodes sit in which PQ,    *)
(* which nodes are marked, the record of performed moves, and the          *)
(* rollback.  The numeric properties are checked by TLC (MCTwoWayFM).      *)
(***************************************************************************)
EXTENDS TwoWayFM, TLAPS

\* The types of the variables the control of the pass consists of.
ControlTypeOK ==
  /\ part \in [Nodes -> Blocks]
  /\ bestPart \in [Nodes -> Blocks]
  /\ pq \in [Blocks -> SUBSET Nodes]
  /\ marked \subseteq Nodes
  /\ justActivated \subseteq Nodes
  /\ moves \in Seq(Nodes)
  /\ movedNode \in Nodes
  /\ pending \subseteq Edges
  /\ minCutIndex \in Int
  /\ lastIndex \in Int
  /\ phase \in {"idle", "forward", "update", "rollback"}
  /\ passes \in Nat

\* p with the nodes of S moved to the other block.
Flip(p, S) == [v \in Nodes |-> IF v \in S THEN Other(p[v]) ELSE p[v]]

\* The nodes of _performed_moves[lo - 1 .. hi - 1].
MovesIn(lo, hi) == {moves[i] : i \in lo .. hi}

\* No node is recorded twice in _performed_moves.
MovesDistinct == \A i, j \in 1 .. Len(moves) : moves[i] = moves[j] => i = j

MinCutInRange == minCutIndex \in -1 .. Len(moves) - 1

\* A queued node sits in the PQ of its block and is unmarked.
QueuedUnmarked ==
  phase \in {"forward", "update"} =>
    \A b \in Blocks : \A v \in pq[b] : part[v] = b /\ v \notin marked

\* Between iterations the marked nodes are the performed moves, and the
\* partition is the checkpoint's with the moves after min_cut_index done.
ForwardShape ==
  phase = "forward" =>
    /\ marked = MovesIn(1, Len(moves))
    /\ part = Flip(bestPart, MovesIn(minCutIndex + 2, Len(moves)))

\* During updateNeighbours the moved node is marked but not yet recorded.
UpdateShape ==
  phase = "update" =>
    /\ movedNode \notin MovesIn(1, Len(moves))
    /\ marked = MovesIn(1, Len(moves)) \cup {movedNode}
    /\ part = Flip(bestPart, MovesIn(minCutIndex + 2, Len(moves)) \cup {movedNode})

\* During the rollback the moves up to last_index are still done.
RollbackShape ==
  phase = "rollback" =>
    /\ lastIndex \in minCutIndex .. Len(moves) - 1
    /\ part = Flip(bestPart, MovesIn(minCutIndex + 2, lastIndex + 1))

\* The inductive invariant.  The partition is always the checkpoint's
\* partition with the moves performed after min_cut_index flipped; the
\* rollback can only undo them because no node is moved twice in a pass,
\* which holds because every queued node is unmarked and the marked nodes
\* are exactly the performed moves.
IInv ==
  /\ ControlTypeOK
  /\ MovesDistinct
  /\ MinCutInRange
  /\ QueuedUnmarked
  /\ ForwardShape
  /\ UpdateShape
  /\ RollbackShape
  /\ RollbackRestoresCheckpoint

-----------------------------------------------------------------------------

LEMMA FlipEmpty ==
  ASSUME NEW p \in [Nodes -> Blocks]
  PROVE  Flip(p, {}) = p
BY DEF Flip

LEMMA FlipAdd ==
  ASSUME NEW p \in [Nodes -> Blocks], NEW S, NEW x \in Nodes, x \notin S
  PROVE  Flip(p, S \cup {x}) = [Flip(p, S) EXCEPT ![x] = Other(Flip(p, S)[x])]
BY DEF Flip, Other

LEMMA FlipType ==
  ASSUME NEW p \in [Nodes -> Blocks], NEW S
  PROVE  Flip(p, S) \in [Nodes -> Blocks]
BY DEF Flip, Other, Blocks

\* The moves of an appended sequence.
LEMMA MovesAppend ==
  ASSUME NEW s \in Seq(Nodes), NEW x \in Nodes, NEW lo \in 1 .. Len(s) + 1
  PROVE  {Append(s, x)[i] : i \in lo .. Len(s) + 1} = {s[i] : i \in lo .. Len(s)} \cup {x}
<1>1. \A i \in lo .. Len(s) : Append(s, x)[i] = s[i]
  OBVIOUS
<1>2. Append(s, x)[Len(s) + 1] = x
  OBVIOUS
<1>3. QED
  BY <1>1, <1>2

\* Taking the last of a range of distinct moves off.
LEMMA MovesDrop ==
  ASSUME NEW s \in Seq(Nodes), NEW lo \in Int, NEW hi \in lo .. Len(s), lo >= 1,
         \A i, j \in 1 .. Len(s) : s[i] = s[j] => i = j
  PROVE  /\ {s[i] : i \in lo .. hi} = {s[i] : i \in lo .. hi - 1} \cup {s[hi]}
         /\ s[hi] \notin {s[i] : i \in lo .. hi - 1}
OBVIOUS

\* activate(hn) adds at most hn, to the PQ of its own block.
LEMMA ActivatedPQProps ==
  ASSUME NEW q \in [Blocks -> SUBSET Nodes], NEW p \in [Nodes -> Blocks], NEW hn \in Nodes
  PROVE  /\ ActivatedPQ(q, p, hn) \in [Blocks -> SUBSET Nodes]
         /\ \A b \in Blocks : \A w \in ActivatedPQ(q, p, hn)[b] :
              w \in q[b] \/ (w = hn /\ p[hn] = b)
BY DEF ActivatedPQ, Blocks

\* updateNeighbours visits only pins of the hyperedge.
LEMMA PinSignsDomain ==
  ASSUME NEW he \in Edges, NEW from, NEW to
  PROVE  DOMAIN PinSigns(he, from, to) \subseteq Pins[he]
BY DEF PinSigns

\* selectQueue returns a block whose PQ is non-empty.
LEMMA SelectQueueNonEmpty ==
  ASSUME NEW h0, NEW h1, NEW g0, NEW g1,
         NEW from \in SelectQueue(Eligible(h0, 0), Eligible(h1, 1), g0, g1)
  PROVE  from \in Blocks /\ pq[from] # {}
BY DEF SelectQueue, Eligible, Blocks

-----------------------------------------------------------------------------

\* The initial state, before the first refine() call.
LEMMA InitIInv == Init => IInv
<1> SUFFICES ASSUME Init PROVE IInv
  OBVIOUS
<1>1. ControlTypeOK
  BY GraphAssumption DEF Init, ControlTypeOK, Blocks
<1>2. QED
  BY <1>1 DEF Init, IInv, MovesDistinct, MinCutInRange, QueuedUnmarked,
     ForwardShape, UpdateShape, RollbackShape, RollbackRestoresCheckpoint

\* refine() is entered: both PQs hold at most u and v, nothing is marked or
\* recorded, and the checkpoint is the current partition.
LEMMA RefineIInv ==
  ASSUME IInv, NEW u \in Nodes, NEW v \in Nodes, Refine(u, v)
  PROVE  IInv'
<1> USE DEF ControlTypeOK, Blocks
<1>1. part \in [Nodes -> Blocks] /\ pq \in [Blocks -> SUBSET Nodes]
  BY DEF IInv
<1>2. /\ pq' \in [Blocks -> SUBSET Nodes]
      /\ \A b \in Blocks : \A w \in pq'[b] : part[w] = b
  <2> DEFINE q1 == ActivatedPQ([b \in Blocks |-> {}], part, u)
  <2>1. /\ q1 \in [Blocks -> SUBSET Nodes]
        /\ \A b \in Blocks : \A w \in q1[b] : w = u /\ part[u] = b
    BY <1>1, ActivatedPQProps
  <2>2. /\ ActivatedPQ(q1, part, v) \in [Blocks -> SUBSET Nodes]
        /\ \A b \in Blocks : \A w \in ActivatedPQ(q1, part, v)[b] :
             w \in q1[b] \/ (w = v /\ part[v] = b)
    BY <1>1, <2>1, ActivatedPQProps
  <2>3. pq' = ActivatedPQ(q1, part, v)
    BY DEF Refine
  <2>4. QED
    BY <2>1, <2>2, <2>3
<1>3. MovesIn(1, Len(moves))' = {} /\ MovesIn(minCutIndex + 2, Len(moves))' = {}
  BY DEF Refine, MovesIn
<1>4. part' = Flip(bestPart', {})
  BY <1>1, FlipEmpty DEF Refine
<1>5. ControlTypeOK'
  BY <1>2 DEF IInv, Refine
<1>6. QED
  BY <1>2, <1>3, <1>4, <1>5 DEF Refine, IInv, MovesDistinct, MinCutInRange,
     QueuedUnmarked, ForwardShape, UpdateShape, RollbackShape

\* The forward loop ends and the rollback starts at num_moves - 1.
LEMMA StopIInv ==
  ASSUME IInv, Stop
  PROVE  IInv'
BY DEF IInv, Stop, ControlTypeOK, MovesDistinct, MinCutInRange, QueuedUnmarked,
   ForwardShape, UpdateShape, RollbackShape, RollbackRestoresCheckpoint, MovesIn

\* rollback() returns once last_index = min_cut_index.
LEMMA RollbackDoneIInv ==
  ASSUME IInv, RollbackDone
  PROVE  IInv'
<1>1. MovesIn(minCutIndex + 2, lastIndex + 1) = {}
  BY DEF RollbackDone, MovesIn, IInv, ControlTypeOK
<1>2. part = Flip(bestPart, {}) /\ bestPart \in [Nodes -> Blocks]
  BY <1>1 DEF IInv, RollbackShape, RollbackDone, ControlTypeOK
<1>3. part = bestPart
  BY <1>2, FlipEmpty
<1>4. QED
  BY <1>3 DEF IInv, RollbackDone, ControlTypeOK, MovesDistinct, MinCutInRange,
     QueuedUnmarked, ForwardShape, UpdateShape, RollbackShape,
     RollbackRestoresCheckpoint, MovesIn

LEMMA StutterIInv ==
  ASSUME IInv, UNCHANGED vars
  PROVE  IInv'
BY DEF IInv, vars, ControlTypeOK, MovesDistinct, MinCutInRange, QueuedUnmarked,
   ForwardShape, UpdateShape, RollbackShape, RollbackRestoresCheckpoint, MovesIn

\* The node a forward iteration moves is taken from a non-empty PQ: it is
\* the head of the PQ selectQueue chose.
LEMMA MoveNodeChoice ==
  ASSUME IInv, MoveNode
  PROVE  \E hn \in Nodes, from \in Blocks : hn \in pq[from] /\ PerformMove(hn, from)
<1>1. PICK h0 \in Heads(0), h1 \in Heads(1) :
        \E f \in SelectQueue(Eligible(h0, 0), Eligible(h1, 1), key[0][h0], key[1][h1]) :
          PerformMove(IF f = 0 THEN h0 ELSE h1, f)
  BY DEF MoveNode
<1>2. PICK from \in SelectQueue(Eligible(h0, 0), Eligible(h1, 1), key[0][h0], key[1][h1]) :
        PerformMove(IF from = 0 THEN h0 ELSE h1, from)
  BY <1>1
<1>3. from \in Blocks /\ pq[from] # {}
  BY <1>2, SelectQueueNonEmpty
<1>4. (IF from = 0 THEN h0 ELSE h1) \in pq[from]
  BY <1>1, <1>3 DEF Heads, MaxNodes, Blocks
<1>5. pq \in [Blocks -> SUBSET Nodes]
  BY DEF IInv, ControlTypeOK
<1>6. QED
  BY <1>2, <1>3, <1>4, <1>5

\* A forward iteration moves an unmarked node out of the PQ of its block;
\* it is marked, not yet recorded, and its move is the one flipped on top of
\* the performed moves.
LEMMA MoveNodeIInv ==
  ASSUME IInv, MoveNode
  PROVE  IInv'
<1> USE DEF Blocks
<1>1. PICK hn \in Nodes, from \in Blocks : hn \in pq[from] /\ PerformMove(hn, from)
  BY MoveNodeChoice
<1> DEFINE S  == MovesIn(minCutIndex + 2, Len(moves))
           to == Other(from)
<1>2. /\ phase = "forward" /\ phase' = "update"
      /\ UNCHANGED <<moves, minCutIndex, lastIndex, bestPart, passes>>
  BY DEF MoveNode
<1>3. /\ part \in [Nodes -> Blocks] /\ pq \in [Blocks -> SUBSET Nodes]
      /\ marked = MovesIn(1, Len(moves))
      /\ part = Flip(bestPart, S)
      /\ minCutIndex \in -1 .. Len(moves) - 1
      /\ bestPart \in [Nodes -> Blocks]
  BY <1>2 DEF IInv, ControlTypeOK, ForwardShape, MinCutInRange
<1>4. part[hn] = from /\ hn \notin marked
  BY <1>1, <1>2 DEF IInv, QueuedUnmarked
<1>5. S \subseteq marked
  BY <1>3 DEF MovesIn
<1>6. part' = [part EXCEPT ![hn] = to] /\ marked' = marked \cup {hn}
      /\ pq' = [pq EXCEPT ![from] = @ \ {hn}] /\ movedNode' = hn
  BY <1>1 DEF PerformMove
<1>7. part' = Flip(bestPart, S \cup {hn})
  <2>1. Flip(bestPart, S \cup {hn}) = [part EXCEPT ![hn] = Other(part[hn])]
    BY <1>3, <1>4, <1>5, FlipAdd
  <2>2. QED
    BY <1>4, <1>6, <2>1
<1>8. QueuedUnmarked'
  BY <1>2, <1>3, <1>4, <1>6 DEF IInv, QueuedUnmarked, Other
<1>9. ControlTypeOK'
  BY <1>1, <1>3, <1>6 DEF IInv, ControlTypeOK, PerformMove, MoveNode, Other, Incident
<1>10. UpdateShape'
  <2>1. MovesIn(1, Len(moves))' = MovesIn(1, Len(moves)) /\ S' = S
    BY <1>2 DEF MovesIn
  <2>2. QED
    BY <1>2, <1>3, <1>4, <1>6, <1>7, <2>1 DEF UpdateShape
<1>11. QED
  BY <1>2, <1>8, <1>9, <1>10 DEF IInv, MovesDistinct, MinCutInRange, ForwardShape,
     RollbackShape, RollbackRestoresCheckpoint

\* One hyperedge of updateNeighbours: only unmarked pins of the hyperedge
\* enter a PQ, each the PQ of its own block.
LEMMA UpdateEdgeIInv ==
  ASSUME IInv, NEW he \in Edges, UpdateEdge(he)
  PROVE  IInv'
<1> USE DEF Blocks
<1>1. /\ phase = "update" /\ pending' \subseteq Edges
      /\ UNCHANGED <<part, marked, moves, movedNode, minCutIndex, lastIndex,
                     phase, passes, bestPart>>
  BY DEF UpdateEdge, IInv, ControlTypeOK
<1>2. DOMAIN PinSigns(he, Other(part[movedNode]), part[movedNode]) \subseteq Nodes
  BY PinSignsDomain, GraphAssumption
<1>3. /\ pq' \in [Blocks -> SUBSET Nodes]
      /\ \A b \in Blocks : \A w \in pq'[b] :
           w \in pq[b] \/ (part[w] = b /\ w \notin marked)
      /\ justActivated' \subseteq Nodes
  BY <1>2 DEF UpdateEdge, IInv, ControlTypeOK
<1>4. QueuedUnmarked'
  BY <1>1, <1>3 DEF IInv, QueuedUnmarked
<1>5. ControlTypeOK'
  BY <1>1, <1>3 DEF IInv, ControlTypeOK
<1>6. MovesIn(1, Len(moves))' = MovesIn(1, Len(moves))
      /\ MovesIn(minCutIndex + 2, Len(moves))' = MovesIn(minCutIndex + 2, Len(moves))
  BY <1>1 DEF MovesIn
<1>7. QED
  BY <1>1, <1>4, <1>5, <1>6 DEF IInv, MovesDistinct, MinCutInRange, ForwardShape,
     UpdateShape, RollbackShape, RollbackRestoresCheckpoint

\* The end of an iteration records the moved node in _performed_moves; a
\* checkpoint makes the current partition the one to come back to.
LEMMA FinishMoveIInv ==
  ASSUME IInv, FinishMove
  PROVE  IInv'
<1>1. /\ moves' = Append(moves, movedNode)
      /\ phase = "update" /\ phase' = "forward"
      /\ UNCHANGED <<part, pq, marked, justActivated, movedNode, pending, lastIndex, passes>>
  BY DEF FinishMove
<1>2. /\ moves \in Seq(Nodes) /\ movedNode \in Nodes /\ part \in [Nodes -> Blocks]
      /\ minCutIndex \in -1 .. Len(moves) - 1
      /\ movedNode \notin MovesIn(1, Len(moves))
      /\ marked = MovesIn(1, Len(moves)) \cup {movedNode}
      /\ part = Flip(bestPart, MovesIn(minCutIndex + 2, Len(moves)) \cup {movedNode})
  BY <1>1 DEF IInv, ControlTypeOK, MinCutInRange, UpdateShape
<1>3. MovesDistinct'
  BY <1>1, <1>2 DEF IInv, MovesDistinct, MovesIn
<1>9. moves' \in Seq(Nodes) /\ Len(moves') = Len(moves) + 1
  BY <1>1, <1>2
<1>4. MovesIn(1, Len(moves))' = MovesIn(1, Len(moves)) \cup {movedNode}
  BY <1>1, <1>2, MovesAppend DEF MovesIn
<1>5. QueuedUnmarked'
  BY <1>1 DEF IInv, QueuedUnmarked
<1>6. CASE Improved
  <2>1. minCutIndex' = Len(moves) /\ bestPart' = part
    BY <1>6 DEF FinishMove
  <2>2. MovesIn(minCutIndex + 2, Len(moves))' = {}
    BY <1>1, <1>2, <2>1 DEF MovesIn
  <2>3. part' = Flip(bestPart', {})
    BY <1>1, <1>2, <2>1, FlipEmpty
  <2>4. ControlTypeOK' /\ MinCutInRange'
    <3>1. minCutIndex' \in -1 .. Len(moves') - 1
      BY <1>2, <1>9, <2>1
    <3>2. bestPart' \in [Nodes -> Blocks]
      BY <1>2, <2>1
    <3>3. QED
      BY <1>1, <1>9, <3>1, <3>2 DEF IInv, ControlTypeOK, MinCutInRange
  <2>5. QED
    BY <1>1, <1>3, <1>4, <1>5, <2>2, <2>3, <2>4 DEF IInv, ForwardShape, UpdateShape,
       RollbackShape, RollbackRestoresCheckpoint
<1>7. CASE ~Improved
  <2>1. UNCHANGED <<minCutIndex, bestPart>>
    BY <1>7 DEF FinishMove
  <2>2. MovesIn(minCutIndex + 2, Len(moves))'
          = MovesIn(minCutIndex + 2, Len(moves)) \cup {movedNode}
    BY <1>1, <1>2, <2>1, MovesAppend DEF MovesIn
  <2>3. ControlTypeOK' /\ MinCutInRange'
    <3>1. minCutIndex' \in -1 .. Len(moves') - 1
      BY <1>2, <1>9, <2>1
    <3>2. bestPart' \in [Nodes -> Blocks]
      BY <2>1 DEF IInv, ControlTypeOK
    <3>3. QED
      BY <1>1, <1>9, <3>1, <3>2 DEF IInv, ControlTypeOK, MinCutInRange
  <2>4. QED
    BY <1>1, <1>2, <1>3, <1>4, <1>5, <2>1, <2>2, <2>3 DEF IInv, ForwardShape,
       UpdateShape, RollbackShape, RollbackRestoresCheckpoint
<1>8. QED
  BY <1>6, <1>7

\* One rollback iteration undoes _performed_moves[last_index], which is the
\* last move still done; as no node is recorded twice, flipping it back
\* leaves exactly the moves up to last_index - 1 done.
LEMMA RollbackStepIInv ==
  ASSUME IInv, RollbackStep
  PROVE  IInv'
<1> DEFINE hn == moves[lastIndex + 1]
           S  == MovesIn(minCutIndex + 2, lastIndex)
           F  == Flip(bestPart, S)
<1>1. /\ phase = "rollback"
      /\ lastIndex \in minCutIndex + 1 .. Len(moves) - 1
      /\ minCutIndex \in -1 .. Len(moves) - 1
      /\ moves \in Seq(Nodes) /\ bestPart \in [Nodes -> Blocks]
      /\ part = Flip(bestPart, MovesIn(minCutIndex + 2, lastIndex + 1))
  BY DEF RollbackStep, IInv, ControlTypeOK, MinCutInRange, RollbackShape
<1>2. /\ MovesIn(minCutIndex + 2, lastIndex + 1) = S \cup {hn}
      /\ hn \notin S /\ hn \in Nodes
  <2>1. \A i, j \in 1 .. Len(moves) : moves[i] = moves[j] => i = j
    BY DEF IInv, MovesDistinct
  <2>2. /\ {moves[i] : i \in minCutIndex + 2 .. lastIndex + 1}
             = {moves[i] : i \in minCutIndex + 2 .. (lastIndex + 1) - 1} \cup {moves[lastIndex + 1]}
        /\ moves[lastIndex + 1] \notin {moves[i] : i \in minCutIndex + 2 .. (lastIndex + 1) - 1}
    BY <1>1, <2>1, MovesDrop
  <2>3. (lastIndex + 1) - 1 = lastIndex /\ lastIndex + 1 \in 1 .. Len(moves)
    BY <1>1
  <2>4. QED
    BY <1>1, <2>2, <2>3 DEF MovesIn, S
<1>3. F \in [Nodes -> Blocks]
  BY <1>1, FlipType
<1>4. part = [F EXCEPT ![hn] = Other(F[hn])]
  <2>1. part = Flip(bestPart, S \cup {hn})
    BY <1>1, <1>2
  <2>2. Flip(bestPart, S \cup {hn}) = [Flip(bestPart, S) EXCEPT ![hn] = Other(Flip(bestPart, S)[hn])]
    <3>1. bestPart \in [Nodes -> Blocks] /\ hn \in Nodes /\ hn \notin S
      BY <1>1, <1>2
    <3>2. QED
      BY <3>1, FlipAdd
  <2>3. QED
    BY <2>1, <2>2
<1>5. part' = [part EXCEPT ![hn] = Other(part[hn])]
  BY DEF RollbackStep
<1>6. part' = F
  BY <1>2, <1>3, <1>4, <1>5 DEF Other, Blocks
<1>7. /\ UNCHANGED <<pq, marked, justActivated, moves, movedNode, pending,
                    minCutIndex, phase, passes, bestPart>>
      /\ lastIndex' = lastIndex - 1
  BY DEF RollbackStep
<1>8. MovesIn(minCutIndex + 2, lastIndex + 1)' = S
  BY <1>1, <1>7 DEF MovesIn, S
<1>9. RollbackShape'
  BY <1>1, <1>6, <1>7, <1>8 DEF RollbackShape, F
<1>10. ControlTypeOK'
  BY <1>1, <1>3, <1>6, <1>7 DEF IInv, ControlTypeOK
<1>11. QED
  BY <1>1, <1>7, <1>9, <1>10 DEF IInv, MovesDistinct, MinCutInRange,
     QueuedUnmarked, ForwardShape, UpdateShape, RollbackRestoresCheckpoint

\* IInv is an inductive invariant of the pass.
LEMMA NextIInv == IInv /\ [Next]_vars => IInv'
<1> SUFFICES ASSUME IInv, [Next]_vars PROVE IInv'
  OBVIOUS
<1>1. CASE \E u, v \in Nodes : Refine(u, v)
  BY <1>1, RefineIInv
<1>2. CASE MoveNode
  BY <1>2, MoveNodeIInv
<1>3. CASE \E he \in Edges : UpdateEdge(he)
  BY <1>3, UpdateEdgeIInv
<1>4. CASE FinishMove
  BY <1>4, FinishMoveIInv
<1>5. CASE Stop
  BY <1>5, StopIInv
<1>6. CASE RollbackStep
  BY <1>6, RollbackStepIInv
<1>7. CASE RollbackDone
  BY <1>7, RollbackDoneIInv
<1>8. CASE UNCHANGED vars
  BY <1>8, StutterIInv
<1>9. QED
  BY <1>1, <1>2, <1>3, <1>4, <1>5, <1>6, <1>7, <1>8 DEF Next

\* The control state of refine() always has its type: the PQs hold hypernode
\* ids, the performed moves are hypernodes, and so on.
THEOREM ControlTyping == Spec => []ControlTypeOK
<1>1. IInv => ControlTypeOK
  BY DEF IInv
<1>2. QED
  BY <1>1, InitIInv, NextIInv, PTL DEF Spec

\* Every refine() call returns with the partition of its last checkpoint
\* (RollbackRestoresCheckpoint): the rollback of TwoWayFMRefiner undoes
\* exactly the moves after min_cut_index, for every hypergraph and every
\* stopping bound.
THEOREM RollbackRestoresCheckpointThm == Spec => []RollbackRestoresCheckpoint
<1>1. IInv => RollbackRestoresCheckpoint
  BY DEF IInv
<1>2. QED
  BY <1>1, InitIInv, NextIInv, PTL DEF Spec

\* A node is never moved twice within one pass: every node in a PQ between
\* iterations is unmarked, so _performed_moves holds distinct nodes.
THEOREM MovesDistinctThm == Spec => []MovesDistinct
<1>1. IInv => MovesDistinct
  BY DEF IInv
<1>2. QED
  BY <1>1, InitIInv, NextIInv, PTL DEF Spec

\* One iteration of the rollback loop changes only the block of
\* _performed_moves[last_index], and that node is in the flipped range, so
\* the iteration returns it to its block at the checkpoint.
LEMMA RollbackStepBack ==
  ASSUME IInv, RollbackStep
  PROVE  \A v \in Nodes : part'[v] # part[v] => part'[v] = bestPart[v]
<1> DEFINE hn == moves[lastIndex + 1]
<1>1. /\ lastIndex \in minCutIndex + 1 .. Len(moves) - 1
      /\ minCutIndex \in -1 .. Len(moves) - 1
      /\ moves \in Seq(Nodes) /\ bestPart \in [Nodes -> Blocks]
      /\ part = Flip(bestPart, MovesIn(minCutIndex + 2, lastIndex + 1))
  BY DEF RollbackStep, IInv, ControlTypeOK, MinCutInRange, RollbackShape
<1>2. hn \in MovesIn(minCutIndex + 2, lastIndex + 1) /\ hn \in Nodes
  BY <1>1 DEF MovesIn
<1>3. part[hn] = Other(bestPart[hn])
  BY <1>1, <1>2 DEF Flip
<1>4. part' = [part EXCEPT ![hn] = Other(part[hn])]
  BY DEF RollbackStep
<1>5. ASSUME NEW v \in Nodes, part'[v] # part[v]
      PROVE  part'[v] = bestPart[v]
  <2>1. v = hn
    BY <1>1, <1>4, <1>5 DEF Flip
  <2>2. QED
    BY <1>1, <1>2, <1>3, <1>4, <2>1 DEF Flip, Other, Blocks
<1>6. QED
  BY <1>5

\* The rollback loop of TwoWayFMRefiner::rollback (RollbackMovesBack): in
\* every step of the pass taken while rolling back, a node whose block
\* changes goes back to its block at the last checkpoint, for every
\* hypergraph and every stopping bound.
THEOREM RollbackMovesBackThm == Spec => RollbackMovesBack
<1>1. IInv /\ [Next]_vars =>
        [phase = "rollback" =>
           \A v \in Nodes : part'[v] # part[v] => part'[v] = bestPart[v]]_vars
  <2> SUFFICES ASSUME IInv, [Next]_vars, phase = "rollback"
               PROVE  \A v \in Nodes : part'[v] # part[v] => part'[v] = bestPart[v]
    OBVIOUS
  <2>1. CASE RollbackStep
    BY <2>1, RollbackStepBack
  <2>2. CASE RollbackDone \/ UNCHANGED vars
    BY <2>2 DEF RollbackDone, vars
  <2>3. QED
    BY <2>1, <2>2 DEF Next, Refine, MoveNode, UpdateEdge, FinishMove, Stop
<1>2. QED
  BY <1>1, InitIInv, NextIInv, PTL DEF Spec, RollbackMovesBack
=============================================================================
