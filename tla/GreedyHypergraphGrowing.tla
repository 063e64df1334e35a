----------------------- MODULE GreedyHypergraphGrowing -----------------------
(***************************************************************************)
(* initialPartition() of GreedyHypergraphGrowingInitialPartitioner.h: the  *)
(* k-way greedy growing of blocks from start nodes.                        *)
(*                                                                         *)
(* Each block b has a bucket queue _pq[b] of candidate nodes and an        *)
(* enabled bit.  One iteration of the while(true) loop either              *)
(*   BreakOnLightUnassignedPart  leaves because the unassigned block got   *)
(*                               lighter than its minimum weight,          *)
(*   ReleaseUpperBound           finds every queue disabled the first      *)
(*                               time and relaxes the weight bound,        *)
(*   BreakAfterRelease           finds every queue disabled again,         *)
(*   AssignHypernode             assigns the selected node and runs        *)
(*                               insertAndUpdateNodesAfterMove, or         *)
(*   DisablePart                 disables the selected block, which is     *)
(*                               full.                                     *)
(* AssignRemaining is the code after the loop.                             *)
(*                                                                         *)
(* The policies of the template (GainComputation, QueueSelection,          *)
(* StartNodeSelection), KWayPriorityQueue and InitialPartitionerBase are   *)
(* not under src/.  Gains are left out: a queue is the set of ids it       *)
(* contains, and nextQueueID may return any node of any enabled queue,     *)
(* which includes every choice a policy makes.  deltaGainUpdate changes    *)
(* keys only, so it changes nothing here.                                  *)
(***************************************************************************)
EXTENDS Integers, FiniteSets, FiniteSetsExt, Functions

CONSTANTS
  Nodes,          \* hypernode ids
  Edges,          \* hyperedge ids
  Pins,           \* Pins[e]: the pins of hyperedge e
  NodeWeight,     \* c(v)
  K,              \* _config.initial_partitioning.k
  Epsilon,        \* _config.initial_partitioning.epsilon, a fraction
  NoNode          \* kInvalidNode, returned by getUnassignedNode()

ASSUME GHGAssumption ==
  /\ IsFiniteSet(Nodes) /\ Nodes # {}
  /\ IsFiniteSet(Edges)
  /\ Pins \in [Edges -> SUBSET Nodes]
  /\ NodeWeight \in [Nodes -> Nat \ {0}]
  /\ K \in Nat /\ K >= 2
  /\ Epsilon.num \in Nat /\ Epsilon.den \in Nat \ {0}
  /\ NoNode \notin Nodes

VARIABLES
  part,           \* _hg.partID(v); -1 is unassigned
  pq,             \* pq[b]: the ids contained in _pq[b]
  enabled,        \* the blocks b with _pq.isEnabled(b)
  inQueue,        \* _hyperedge_in_queue, as a set of <<block, hyperedge>>
  released,       \* is_upper_bound_released
  minWeight,      \* minimum_unassigned_part_weight
  phase,          \* "idle", "loop", "finish" (after the loop), "done"
  opU,            \* QueueSelection::getOperatingUnassignedPart()
  cfgU            \* the unassigned_part of the configuration (line 72)

vars == <<part, pq, enabled, inQueue, released, minWeight, phase, opU, cfgU>>

Blocks == 0 .. K - 1

Incident(hn) == {e \in Edges : hn \in Pins[e]}

PartWeight(p, b) == MapThenSumSet(LAMBDA n : NodeWeight[n], {n \in Nodes : p[n] = b})

TotalWeight == MapThenSumSet(LAMBDA n : NodeWeight[n], Nodes)

(* The law of the sums the proofs rest on: the total node weight is a      *)
(* natural number.  MapThenSumSet is a fold defined by recursion, which    *)
(* the provers cannot unfold, so the law is a hypothesis of the theorems   *)
(* that need it and MCGreedyHypergraphGrowing evaluates it.               *)
GHGSumFacts == TotalWeight \in Nat

(* perfect_balance_partition_weight: ceil(c(V) / k) for every block.       *)
PerfectWeight == (TotalWeight + K - 1) \div K

(* upper_allowed_partition_weight after recalculateBalanceConstraints(e):  *)
(* (1 + e) * perfect weight, truncated to an integer weight.               *)
UpperAllowedWeight(rel) ==
  IF rel THEN (PerfectWeight * (Epsilon.den + Epsilon.num)) \div Epsilon.den
         ELSE PerfectWeight

(* assignHypernodeToPartition succeeds iff the block keeps its bound.      *)
Fits(hn, b) == PartWeight(part, b) + NodeWeight[hn] <= UpperAllowedWeight(released)

UnassignedNodes(p) == {n \in Nodes : p[n] = opU}

(* The values getUnassignedNode() can return in partition p.               *)
UnassignedChoice(p) == IF UnassignedNodes(p) = {} THEN {NoNode} ELSE UnassignedNodes(p)

(* insertUnassignedHypernodeIntoPQ on queue q with the node n0 it gets.    *)
(* insertNodeIntoPQ inserts n0 (unassigned, so not in the target block)   *)
(* unless it is already there.                                             *)
InsertUnassigned(q, n0) == IF n0 = NoNode THEN q ELSE q \cup {n0}

-----------------------------------------------------------------------------
Init ==
  /\ part = [n \in Nodes |-> -1]
  /\ pq = [b \in Blocks |-> {}]
  /\ enabled = {}
  /\ inQueue = {}
  /\ released = FALSE
  /\ minWeight = 0
  /\ phase = "idle"
  /\ opU \in {-1} \cup Blocks
  /\ cfgU \in {-1} \cup Blocks

(* Mutant: the start-node loop of calculateStartNodes runs to i <= k, one  *)
(* block too far; the read past the vector's end yields some node.        *)
InitialPartitionStartLoopPastK ==
  /\ phase \in {"idle", "done"}
  /\ \E start \in Injection(Blocks, Nodes), w \in 0 .. TotalWeight, x \in Nodes :
       /\ part' = [n \in Nodes |-> opU]
       /\ pq' = [b \in 0 .. K |-> IF b = opU THEN {} ELSE IF b < K THEN {start[b]} ELSE {x}]
       /\ enabled' = (0 .. K) \ {opU}
       /\ minWeight' = IF opU = -1 THEN 0
                       ELSE IF cfgU = -1 THEN w ELSE PerfectWeight
  /\ inQueue' = {}
  /\ released' = FALSE
  /\ phase' = "loop"
  /\ UNCHANGED <<opU, cfgU>>

(* Lines 72-95: resetPartitioning puts every node into the operating       *)
(* unassigned part; calculateStartNodes inserts start node i into _pq[i]   *)
(* (insertNodeIntoPQ skips the block the node is in and enables the       *)
(* others); the unassigned part's queue is disabled.  The minimum weight   *)
(* is read at index unassigned_part of the configuration, which is out of  *)
(* range when that is -1: the value read is then any weight.              *)
InitialPartition ==
  /\ phase \in {"idle", "done"}
  /\ \E start \in Injection(Blocks, Nodes), w \in 0 .. TotalWeight :
       /\ part' = [n \in Nodes |-> opU]
       /\ pq' = [b \in Blocks |-> IF b = opU THEN {} ELSE {start[b]}]
       /\ enabled' = Blocks \ {opU}
       /\ minWeight' = IF opU = -1 THEN 0
                       ELSE IF cfgU = -1 THEN w ELSE PerfectWeight
  /\ inQueue' = {}
  /\ released' = FALSE
  /\ phase' = "loop"
  /\ UNCHANGED <<opU, cfgU>>

(* The condition of lines 97-99 under which the loop breaks at once.       *)
UnassignedPartTooLight ==
  opU # -1 /\ minWeight > PartWeight(part, opU)

BreakOnLightUnassignedPart ==
  /\ phase = "loop" /\ UnassignedPartTooLight
  /\ phase' = "finish"
  /\ UNCHANGED <<part, pq, enabled, inQueue, released, minWeight, opU, cfgU>>

(* Mutant: is_upper_bound_released is never set.                          *)
ReleaseUpperBoundForgettingFlag ==
  /\ phase = "loop" /\ ~UnassignedPartTooLight
  /\ enabled = {} /\ ~released
  /\ \E n0 \in UnassignedChoice(part) :
       LET q == [b \in Blocks |-> IF b # opU /\ pq[b] = {}
                                  THEN InsertUnassigned({}, n0) ELSE pq[b]]
       IN /\ pq' = q
          /\ enabled' = {b \in Blocks \ {opU} : q[b] # {}}
  /\ UNCHANGED <<part, inQueue, released, minWeight, phase, opU, cfgU>>

(* Lines 110-127: nextQueueID found no enabled queue for the first time.   *)
(* The bound is relaxed to epsilon; every disabled block other than the    *)
(* unassigned part gets an unassigned node if its queue is empty, and is   *)
(* enabled otherwise.  getUnassignedNode returns the same node n0 for each *)
(* block, as the partition does not change in the loop.                    *)
ReleaseUpperBound ==
  /\ phase = "loop" /\ ~UnassignedPartTooLight
  /\ enabled = {} /\ ~released
  /\ \E n0 \in UnassignedChoice(part) :
       LET q == [b \in Blocks |-> IF b # opU /\ pq[b] = {}
                                  THEN InsertUnassigned({}, n0) ELSE pq[b]]
       IN /\ pq' = q
          /\ enabled' = {b \in Blocks \ {opU} : q[b] # {}}
  /\ released' = TRUE
  /\ UNCHANGED <<part, inQueue, minWeight, phase, opU, cfgU>>

(* Lines 128-130: no enabled queue after the release.                      *)
BreakAfterRelease ==
  /\ phase = "loop" /\ ~UnassignedPartTooLight
  /\ enabled = {} /\ released
  /\ phase' = "finish"
  /\ UNCHANGED <<part, pq, enabled, inQueue, released, minWeight, opU, cfgU>>

(* deleteNodeInAllBucketQueues(hn) after hn moved to target: hn leaves     *)
(* every queue; an enabled queue of another block that held only hn first  *)
(* gets the unassigned node n0, so that it does not run empty.             *)
DeleteNodeInAllBucketQueues(hn, target, n0) ==
  [b \in Blocks |-> IF b \in enabled /\ pq[b] = {hn} /\ b # target
                    THEN InsertUnassigned({hn}, n0) \ {hn}
                    ELSE pq[b] \ {hn}]

(* Mutant: hn is removed from the target block's queue only.               *)
InsertAndUpdateDeletingFromTargetOnly(hn, target, n0, p) ==
  LET q1 == [pq EXCEPT ![target] = @ \ {hn}]
      e1 == {b \in enabled : q1[b] # {}}
      fresh == {e \in Incident(hn) : <<target, e>> \notin inQueue}
      q2 == [q1 EXCEPT ![target] =
               @ \cup ((UNION {Pins[e] : e \in fresh}) \cap UnassignedNodes(p))]
      e2 == IF q2[target] # {} THEN e1 \cup {target} ELSE e1
      refill == target \notin e2 /\ n0 # NoNode
  IN [pq |-> IF refill THEN [q2 EXCEPT ![target] = {n0}] ELSE q2,
      enabled |-> IF refill THEN e2 \cup {target} ELSE e2,
      inQueue |-> inQueue \cup {<<target, e>> : e \in Incident(hn)}]

(* Mutant: the refill of the target queue at lines 245-247 is missing.    *)
InsertAndUpdateWithoutRefill(hn, target, n0, p) ==
  LET q1 == DeleteNodeInAllBucketQueues(hn, target, n0)
      e1 == {b \in enabled : q1[b] # {}}
      fresh == {e \in Incident(hn) : <<target, e>> \notin inQueue}
      q2 == [q1 EXCEPT ![target] =
               @ \cup ((UNION {Pins[e] : e \in fresh}) \cap UnassignedNodes(p))]
      e2 == IF q2[target] # {} THEN e1 \cup {target} ELSE e1
  IN [pq |-> q2, enabled |-> e2,
      inQueue |-> inQueue \cup {<<target, e>> : e \in Incident(hn)}]

(* insertAndUpdateNodesAfterMove(hn, target) in the new partition p, with  *)
(* getUnassignedNode() returning n0.  KWayPriorityQueue disables a queue   *)
(* whose last element is removed and enables one on insertion.  The        *)
(* unassigned pins of each incident hyperedge not yet expanded for target  *)
(* are inserted into _pq[target] and the hyperedge is marked; a target     *)
(* queue left disabled gets the unassigned node.                           *)
InsertAndUpdateNodesAfterMove(hn, target, n0, p) ==
  LET q1 == DeleteNodeInAllBucketQueues(hn, target, n0)
      e1 == {b \in enabled : q1[b] # {}}
      fresh == {e \in Incident(hn) : <<target, e>> \notin inQueue}
      q2 == [q1 EXCEPT ![target] =
               @ \cup ((UNION {Pins[e] : e \in fresh}) \cap UnassignedNodes(p))]
      e2 == IF q2[target] # {} THEN e1 \cup {target} ELSE e1
      refill == target \notin e2 /\ n0 # NoNode
  IN [pq |-> IF refill THEN [q2 EXCEPT ![target] = {n0}] ELSE q2,
      enabled |-> IF refill THEN e2 \cup {target} ELSE e2,
      inQueue |-> inQueue \cup {<<target, e>> : e \in Incident(hn)}]

(* Lines 103-156: nextQueueID selects hn from the enabled queue of b;      *)
(* assignHypernodeToPartition(hn, b) succeeds and the queues are updated.  *)
AssignHypernode ==
  /\ phase = "loop" /\ ~UnassignedPartTooLight
  /\ \E b \in enabled, hn \in Nodes :
       /\ hn \in pq[b]
       /\ Fits(hn, b)
       /\ part' = [part EXCEPT ![hn] = b]
       /\ \E n0 \in UnassignedChoice(part') :
            LET r == InsertAndUpdateNodesAfterMove(hn, b, n0, part')
            IN /\ pq' = r.pq
               /\ enabled' = r.enabled
               /\ inQueue' = r.inQueue
  /\ UNCHANGED <<released, minWeight, phase, opU, cfgU>>

(* Lines 157-159: the assignment would overload b, which is disabled.      *)
DisablePart ==
  /\ phase = "loop" /\ ~UnassignedPartTooLight
  /\ \E b \in enabled, hn \in Nodes :
       /\ hn \in pq[b]
       /\ ~Fits(hn, b)
       /\ enabled' = enabled \ {b}
  /\ UNCHANGED <<part, pq, inQueue, released, minWeight, phase, opU, cfgU>>

(* Mutant: the configured unassigned_part is restored (line 182) before   *)
(* the test of line 167, which then reads it instead of the operating one.*)
AssignRemainingAfterRestore ==
  /\ phase = "finish"
  /\ \E side \in [Nodes -> {0, 1}] :
       part' = [n \in Nodes |-> IF cfgU = -1 /\ part[n] = -1 THEN side[n] ELSE part[n]]
  /\ phase' = "done"
  /\ UNCHANGED <<pq, enabled, inQueue, released, minWeight, opU, cfgU>>

(* Lines 167-186: with no operating unassigned part, every node still      *)
(* unassigned goes to block 0 or block 1, whichever gain is larger (gains  *)
(* are not modelled, so either).  rollbackToBestCut and                    *)
(* performFMRefinement of InitialPartitionerBase are not under src/.       *)
AssignRemaining ==
  /\ phase = "finish"
  /\ \E side \in [Nodes -> {0, 1}] :
       part' = [n \in Nodes |-> IF opU = -1 /\ part[n] = -1 THEN side[n] ELSE part[n]]
  /\ phase' = "done"
  /\ UNCHANGED <<pq, enabled, inQueue, released, minWeight, opU, cfgU>>

Next ==
  \/ InitialPartition
  \/ BreakOnLightUnassignedPart
  \/ ReleaseUpperBound
  \/ BreakAfterRelease
  \/ AssignHypernode
  \/ DisablePart
  \/ AssignRemaining

(* initialPartition() is sequential code: once called it runs on.          *)
Spec == Init /\ [][Next]_vars /\ WF_vars(Next)

-----------------------------------------------------------------------------
GHGTypeOK ==
  /\ part \in [Nodes -> {-1} \cup Blocks]
  /\ pq \in [Blocks -> SUBSET Nodes]
  /\ enabled \subseteq Blocks
  /\ inQueue \subseteq Blocks \X Edges
  /\ released \in BOOLEAN
  /\ minWeight \in 0 .. TotalWeight
  /\ phase \in {"idle", "loop", "finish", "done"}
  /\ opU \in {-1} \cup Blocks
  /\ cfgU \in {-1} \cup Blocks

(* The ASSERT at line 135: every node a queue offers during the loop is    *)
(* still in the operating unassigned part.  It rests on                    *)
(* deleteNodeInAllBucketQueues removing an assigned node from the queues   *)
(* of all blocks, and on every insertion taking unassigned nodes only.     *)
QueuedNodesUnassigned ==
  phase = "loop" => \A b \in Blocks : \A n \in pq[b] : part[n] = opU

(* While unassigned nodes remain, an assignment never leaves a block's     *)
(* queue disabled that was enabled before it: the refills of lines 271-273 *)
(* and 245-247 keep a block that ran out of candidates growing.  Only      *)
(* DisablePart, which leaves the partition alone, disables a block.        *)
QueuesStayAlive ==
  [][phase = "loop" /\ part' # part /\ UnassignedNodes(part') # {}
       => enabled \subseteq enabled']_vars

(* When initialPartition() returns, every node is in one of the k blocks:  *)
(* the nodes the loop left in the operating unassigned part are in a real *)
(* block when that part is one, and are placed by lines 167-178 when it   *)
(* is -1.  The test must read the operating part, not the configured one  *)
(* that line 182 restores.                                                *)
EveryNodeAssigned ==
  phase = "done" => \A n \in Nodes : part[n] \in Blocks

(* Every call of initialPartition() returns: the loop cannot go on for     *)
(* ever, because each iteration assigns a node, disables a block, or       *)
(* releases the bound, which happens once.                                 *)
InitialPartitionTerminates ==
  phase = "loop" ~> phase = "done"

=============================================================================
