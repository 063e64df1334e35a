-------------------- MODULE GreedyHypergraphGrowingProofs --------------------
(***************************************************************************)
(* Proofs about the queues of the greedy growing loop, for every           *)
(* hypergraph, every k and every choice of the queue-selection and         *)
(* start-node policies.  The weight bound is only a guard here, so no      *)
(* sum has to be reasoned about.                                           *)
(***************************************************************************)
EXTENDS GreedyHypergraphGrowing, TLAPS

\* The types of the variables the queues consist of.
ProofTypeOK ==
  /\ part \in [Nodes -> {-1} \cup Blocks]
  /\ pq \in [Blocks -> SUBSET Nodes]
  /\ enabled \subseteq Blocks
  /\ phase \in {"idle", "loop", "finish", "done"}
  /\ opU \in {-1} \cup Blocks

\* KWayPriorityQueue never has an empty queue enabled.
EnabledNonEmpty == \A b \in enabled : pq[b] # {}

\* The operating unassigned part's queue is never enabled.
UnassignedPartDisabled == opU \notin enabled

IInv == ProofTypeOK /\ EnabledNonEmpty /\ UnassignedPartDisabled /\ QueuedNodesUnassigned

-----------------------------------------------------------------------------
\* What getUnassignedNode() returns: an unassigned node, or kInvalidNode
\* when there is none.
LEMMA UnassignedChoiceProps ==
  ASSUME NEW p, NEW n0 \in UnassignedChoice(p)
  PROVE  /\ n0 = NoNode => UnassignedNodes(p) = {}
         /\ n0 # NoNode => n0 \in Nodes /\ p[n0] = opU
BY GHGAssumption DEF UnassignedChoice, UnassignedNodes

\* The queues after deleteNodeInAllBucketQueues(hn): they hold no more than
\* before except the refill n0, and an enabled queue is only emptied when
\* there is no unassigned node.
LEMMA DeleteNodeProps ==
  ASSUME ProofTypeOK, EnabledNonEmpty,
         NEW hn \in Nodes, NEW target \in Blocks, NEW n0 \in Nodes \cup {NoNode},
         n0 # hn
  PROVE  LET q1 == DeleteNodeInAllBucketQueues(hn, target, n0) IN
         /\ q1 \in [Blocks -> SUBSET (Nodes \cup {NoNode})]
         /\ \A c \in Blocks : q1[c] \subseteq (pq[c] \ {hn}) \cup {n0}
         /\ \A c \in Blocks : n0 = NoNode => q1[c] \subseteq pq[c] \ {hn}
         /\ \A c \in enabled \ {target} : n0 # NoNode => q1[c] # {}
<1> DEFINE q1 == DeleteNodeInAllBucketQueues(hn, target, n0)
<1>1. q1 = [b \in Blocks |-> IF b \in enabled /\ pq[b] = {hn} /\ b # target
                             THEN (IF n0 = NoNode THEN {} ELSE {n0})
                             ELSE pq[b] \ {hn}]
  BY DEF q1, DeleteNodeInAllBucketQueues, InsertUnassigned
<1>2. q1 \in [Blocks -> SUBSET (Nodes \cup {NoNode})]
  BY <1>1 DEF ProofTypeOK
<1>3. \A c \in Blocks : q1[c] \subseteq (pq[c] \ {hn}) \cup {n0}
  BY <1>1
<1>4. \A c \in Blocks : n0 = NoNode => q1[c] \subseteq pq[c] \ {hn}
  BY <1>1
<1>5. \A c \in enabled \ {target} : n0 # NoNode => q1[c] # {}
  <2> SUFFICES ASSUME NEW c \in enabled \ {target}, n0 # NoNode
               PROVE  q1[c] # {}
    OBVIOUS
  <2>1. c \in Blocks /\ pq[c] # {}
    BY DEF EnabledNonEmpty, ProofTypeOK
  <2>2. CASE pq[c] = {hn}
    BY <1>1, <2>1, <2>2
  <2>3. CASE pq[c] # {hn}
    <3>1. pq[c] \ {hn} # {}
      BY <2>1, <2>3, Zenon
    <3>2. QED
      BY <1>1, <2>1, <2>3, <3>1
  <2>4. QED
    BY <2>2, <2>3
<1>6. QED
  BY <1>2, <1>3, <1>4, <1>5 DEF q1

\* What insertAndUpdateNodesAfterMove(hn, b) leaves: typed queues of
\* unassigned nodes, enabled queues non-empty and other than the unassigned
\* part's, and, while an unassigned node exists, every queue enabled before
\* still enabled.
LEMMA AfterMoveProps ==
  ASSUME IInv, phase = "loop",
         NEW b \in enabled, NEW hn \in Nodes, hn \in pq[b],
         NEW n0 \in UnassignedChoice([part EXCEPT ![hn] = b])
  PROVE  LET p == [part EXCEPT ![hn] = b]
             r == InsertAndUpdateNodesAfterMove(hn, b, n0, p)
         IN  /\ r.pq \in [Blocks -> SUBSET Nodes]
             /\ r.enabled \subseteq Blocks \ {opU}
             /\ \A c \in r.enabled : r.pq[c] # {}
             /\ \A c \in Blocks : \A n \in r.pq[c] : p[n] = opU
             /\ UnassignedNodes(p) # {} => enabled \subseteq r.enabled
<1> DEFINE p == [part EXCEPT ![hn] = b]
           q1 == DeleteNodeInAllBucketQueues(hn, b, n0)
           e1 == {c \in enabled : q1[c] # {}}
           fresh == {e \in Incident(hn) : <<b, e>> \notin inQueue}
           new == (UNION {Pins[e] : e \in fresh}) \cap UnassignedNodes(p)
           q2 == [q1 EXCEPT ![b] = @ \cup new]
           e2 == IF q2[b] # {} THEN e1 \cup {b} ELSE e1
           refill == b \notin e2 /\ n0 # NoNode
           r == InsertAndUpdateNodesAfterMove(hn, b, n0, p)
<1> HIDE DEF p, q1, e1, fresh, new, q2, e2, refill, r
<1>1. /\ b \in Blocks /\ b # opU
      /\ p \in [Nodes -> {-1} \cup Blocks] /\ p[hn] = b
      /\ \A n \in Nodes \ {hn} : p[n] = part[n]
  BY DEF IInv, ProofTypeOK, UnassignedPartDisabled, p
<1>2. /\ n0 = NoNode => UnassignedNodes(p) = {}
      /\ n0 # NoNode => n0 \in Nodes /\ p[n0] = opU
  BY UnassignedChoiceProps DEF p
<1>3. n0 \in Nodes \cup {NoNode} /\ n0 # hn
  BY <1>1, <1>2, GHGAssumption
<1>4. /\ q1 \in [Blocks -> SUBSET (Nodes \cup {NoNode})]
      /\ \A c \in Blocks : q1[c] \subseteq (pq[c] \ {hn}) \cup {n0}
      /\ \A c \in Blocks : n0 = NoNode => q1[c] \subseteq pq[c] \ {hn}
      /\ \A c \in enabled \ {b} : n0 # NoNode => q1[c] # {}
  <2>1. ProofTypeOK /\ EnabledNonEmpty /\ hn \in Nodes /\ b \in Blocks
        /\ n0 \in Nodes \cup {NoNode} /\ n0 # hn
    BY <1>1, <1>3 DEF IInv
  <2>2. QED
    BY <2>1, DeleteNodeProps DEF q1
<1>5. \A c \in Blocks : \A n \in q1[c] : n \in Nodes /\ p[n] = opU
  <2> SUFFICES ASSUME NEW c \in Blocks, NEW n \in q1[c]
               PROVE  n \in Nodes /\ p[n] = opU
    OBVIOUS
  <2>1. CASE n = n0
    BY <2>1, <1>2, <1>4, GHGAssumption DEF IInv, ProofTypeOK
  <2>2. CASE n # n0
    <3>1. n \in pq[c] /\ n # hn
      BY <2>2, <1>4
    <3>2. n \in Nodes /\ part[n] = opU
      BY <3>1 DEF IInv, ProofTypeOK, QueuedNodesUnassigned
    <3>3. QED
      BY <3>1, <3>2, <1>1
  <2>3. QED
    BY <2>1, <2>2
<1>6. new \subseteq Nodes /\ \A n \in new : p[n] = opU
  BY GHGAssumption DEF new, fresh, Incident, UnassignedNodes
<1>7. /\ q2 \in [Blocks -> SUBSET Nodes]
      /\ \A c \in Blocks : \A n \in q2[c] : p[n] = opU
      /\ \A c \in Blocks \ {b} : q2[c] = q1[c]
      /\ q1[b] \subseteq q2[b]
  BY <1>1, <1>4, <1>5, <1>6 DEF q2
<1>8. /\ e2 \subseteq Blocks \ {opU}
      /\ \A c \in e2 : q2[c] # {}
  BY <1>1, <1>7 DEF e2, e1, IInv, ProofTypeOK, UnassignedPartDisabled
<1>9. r = [pq |-> IF refill THEN [q2 EXCEPT ![b] = {n0}] ELSE q2,
           enabled |-> IF refill THEN e2 \cup {b} ELSE e2,
           inQueue |-> inQueue \cup {<<b, e>> : e \in Incident(hn)}]
  BY DEF r, InsertAndUpdateNodesAfterMove, q1, e1, fresh, new, q2, e2, refill
<1>10. r.pq \in [Blocks -> SUBSET Nodes]
  BY <1>1, <1>2, <1>7, <1>9 DEF refill
<1>11. r.enabled \subseteq Blocks \ {opU}
  BY <1>1, <1>8, <1>9
<1>12. \A c \in r.enabled : r.pq[c] # {}
  BY <1>1, <1>7, <1>8, <1>9 DEF refill
<1>13. \A c \in Blocks : \A n \in r.pq[c] : p[n] = opU
  BY <1>1, <1>2, <1>7, <1>9 DEF refill
<1>14. UnassignedNodes(p) # {} => enabled \subseteq r.enabled
  <2> SUFFICES ASSUME UnassignedNodes(p) # {}, NEW c \in enabled
               PROVE  c \in r.enabled
    OBVIOUS
  <2>1. n0 # NoNode
    BY <1>2
  <2>2. CASE c = b
    BY <2>1, <2>2, <1>9 DEF refill
  <2>3. CASE c # b
    <3>1. q1[c] # {} /\ c \in Blocks
      BY <2>1, <2>3, <1>4 DEF IInv, ProofTypeOK
    <3>2. c \in e2
      BY <3>1 DEF e2, e1
    <3>3. QED
      BY <3>2, <1>9
  <2>4. QED
    BY <2>2, <2>3
<1>15. QED
  BY <1>10, <1>11, <1>12, <1>13, <1>14 DEF r, p

-----------------------------------------------------------------------------
(* IInv is inductive: one lemma per action.                                *)

LEMMA InitIInv == Init => IInv
BY DEF Init, IInv, ProofTypeOK, EnabledNonEmpty, UnassignedPartDisabled,
       QueuedNodesUnassigned

LEMMA InitialPartitionIInv == IInv /\ InitialPartition => IInv'
<1> SUFFICES ASSUME IInv, InitialPartition PROVE IInv'
  OBVIOUS
<1>1. PICK start \in Injection(Blocks, Nodes) :
        /\ part' = [n \in Nodes |-> opU]
        /\ pq' = [b \in Blocks |-> IF b = opU THEN {} ELSE {start[b]}]
        /\ enabled' = Blocks \ {opU}
  BY DEF InitialPartition
<1>2. start \in [Blocks -> Nodes]
  BY DEF Injection
<1>3. opU' = opU /\ phase' = "loop"
  BY DEF InitialPartition
<1>4. ProofTypeOK'
  BY <1>1, <1>2, <1>3 DEF IInv, ProofTypeOK
<1>5. QED
  BY <1>1, <1>2, <1>3, <1>4
     DEF IInv, EnabledNonEmpty, UnassignedPartDisabled, QueuedNodesUnassigned

LEMMA ReleaseUpperBoundIInv == IInv /\ ReleaseUpperBound => IInv'
<1> SUFFICES ASSUME IInv, ReleaseUpperBound PROVE IInv'
  OBVIOUS
<1>1. PICK n0 \in UnassignedChoice(part) :
        LET q == [b \in Blocks |-> IF b # opU /\ pq[b] = {}
                                   THEN InsertUnassigned({}, n0) ELSE pq[b]]
        IN /\ pq' = q
           /\ enabled' = {b \in Blocks \ {opU} : q[b] # {}}
  BY DEF ReleaseUpperBound
<1>2. /\ n0 # NoNode => n0 \in Nodes /\ part[n0] = opU
  BY UnassignedChoiceProps
<1>3. UNCHANGED <<part, phase, opU>>
  BY DEF ReleaseUpperBound
<1>4. QED
  BY <1>1, <1>2, <1>3
     DEF IInv, ProofTypeOK, EnabledNonEmpty, UnassignedPartDisabled,
         QueuedNodesUnassigned, InsertUnassigned

LEMMA BreakIInv ==
  IInv /\ (BreakOnLightUnassignedPart \/ BreakAfterRelease) => IInv'
BY DEF BreakOnLightUnassignedPart, BreakAfterRelease, IInv, ProofTypeOK,
       EnabledNonEmpty, UnassignedPartDisabled, QueuedNodesUnassigned

LEMMA AssignHypernodeIInv == IInv /\ AssignHypernode => IInv'
<1> SUFFICES ASSUME IInv, AssignHypernode PROVE IInv'
  OBVIOUS
<1>1. PICK b \in enabled, hn \in Nodes :
        /\ hn \in pq[b]
        /\ part' = [part EXCEPT ![hn] = b]
        /\ \E n0 \in UnassignedChoice(part') :
             LET r == InsertAndUpdateNodesAfterMove(hn, b, n0, part')
             IN /\ pq' = r.pq
                /\ enabled' = r.enabled
                /\ inQueue' = r.inQueue
  BY DEF AssignHypernode
<1>2. PICK n0 \in UnassignedChoice([part EXCEPT ![hn] = b]) :
        LET r == InsertAndUpdateNodesAfterMove(hn, b, n0, [part EXCEPT ![hn] = b])
        IN /\ pq' = r.pq
           /\ enabled' = r.enabled
  BY <1>1
<1>3. phase = "loop" /\ UNCHANGED <<phase, opU>>
  BY DEF AssignHypernode
<1>4. part' \in [Nodes -> {-1} \cup Blocks]
  BY <1>1 DEF IInv, ProofTypeOK
<1>5. /\ pq' \in [Blocks -> SUBSET Nodes]
      /\ enabled' \subseteq Blocks \ {opU}
      /\ \A c \in enabled' : pq'[c] # {}
      /\ \A c \in Blocks : \A n \in pq'[c] : part'[n] = opU
  <2>1. IInv /\ phase = "loop" /\ b \in enabled /\ hn \in Nodes /\ hn \in pq[b]
        /\ n0 \in UnassignedChoice([part EXCEPT ![hn] = b])
    BY <1>1, <1>2, <1>3
  <2>2. LET p == [part EXCEPT ![hn] = b]
            r == InsertAndUpdateNodesAfterMove(hn, b, n0, p)
        IN  /\ r.pq \in [Blocks -> SUBSET Nodes]
            /\ r.enabled \subseteq Blocks \ {opU}
            /\ \A c \in r.enabled : r.pq[c] # {}
            /\ \A c \in Blocks : \A n \in r.pq[c] : p[n] = opU
    BY <2>1, AfterMoveProps, ZenonT(120)
  <2>3. QED
    BY <2>2, <1>1, <1>2
<1>6. QED
  BY <1>3, <1>4, <1>5
     DEF IInv, ProofTypeOK, EnabledNonEmpty, UnassignedPartDisabled,
         QueuedNodesUnassigned

LEMMA DisablePartIInv == IInv /\ DisablePart => IInv'
BY DEF DisablePart, IInv, ProofTypeOK, EnabledNonEmpty, UnassignedPartDisabled,
       QueuedNodesUnassigned

LEMMA AssignRemainingIInv == IInv /\ AssignRemaining => IInv'
<1> SUFFICES ASSUME IInv, AssignRemaining PROVE IInv'
  OBVIOUS
<1>1. PICK side \in [Nodes -> {0, 1}] :
        part' = [n \in Nodes |-> IF opU = -1 /\ part[n] = -1 THEN side[n] ELSE part[n]]
  BY DEF AssignRemaining
<1>2. {0, 1} \subseteq Blocks
  BY GHGAssumption DEF Blocks
<1>3. QED
  BY <1>1, <1>2 DEF AssignRemaining, IInv, ProofTypeOK, EnabledNonEmpty,
                    UnassignedPartDisabled, QueuedNodesUnassigned

LEMMA StutterIInv == IInv /\ UNCHANGED vars => IInv'
BY DEF vars, IInv, ProofTypeOK, EnabledNonEmpty, UnassignedPartDisabled,
       QueuedNodesUnassigned

LEMMA NextIInv == IInv /\ [Next]_vars => IInv'
BY InitialPartitionIInv, ReleaseUpperBoundIInv, BreakIInv, AssignHypernodeIInv,
   DisablePartIInv, AssignRemainingIInv, StutterIInv DEF Next

-----------------------------------------------------------------------------
\* The ASSERT at line 135 holds for every hypergraph, every k and every
\* policy: a node that a queue offers during the loop is unassigned, as
\* deleteNodeInAllBucketQueues removes an assigned node from all k queues.
THEOREM QueuedNodesUnassignedThm == Spec => []QueuedNodesUnassigned
<1>1. IInv => QueuedNodesUnassigned
  BY DEF IInv
<1>2. QED
  BY <1>1, InitIInv, NextIInv, PTL DEF Spec

\* No assignment of the loop disables the queue of a block while unassigned
\* nodes remain (QueuesStayAlive), for every hypergraph and k: the refills
\* of deleteNodeInAllBucketQueues and of insertAndUpdateNodesAfterMove
\* cover every queue an assignment can empty.
THEOREM QueuesStayAliveThm == Spec => QueuesStayAlive
<1> DEFINE Alive == phase = "loop" /\ part' # part /\ UnassignedNodes(part') # {}
                      => enabled \subseteq enabled'
<1>1. IInv /\ [Next]_vars => [Alive]_vars
  <2> SUFFICES ASSUME IInv, [Next]_vars PROVE [Alive]_vars
    OBVIOUS
  <2>1. CASE AssignHypernode
    <3>1. PICK b \in enabled, hn \in Nodes :
            /\ hn \in pq[b]
            /\ part' = [part EXCEPT ![hn] = b]
            /\ \E n0 \in UnassignedChoice(part') :
                 LET r == InsertAndUpdateNodesAfterMove(hn, b, n0, part')
                 IN enabled' = r.enabled
      BY <2>1 DEF AssignHypernode
    <3>2. PICK n0 \in UnassignedChoice([part EXCEPT ![hn] = b]) :
            enabled' = InsertAndUpdateNodesAfterMove(hn, b, n0,
                                                     [part EXCEPT ![hn] = b]).enabled
      BY <3>1
    <3>3. phase = "loop"
      BY <2>1 DEF AssignHypernode
    <3>4. IInv /\ phase = "loop" /\ b \in enabled /\ hn \in Nodes /\ hn \in pq[b]
          /\ n0 \in UnassignedChoice([part EXCEPT ![hn] = b])
      BY <3>1, <3>2, <3>3
    <3>5. LET p == [part EXCEPT ![hn] = b]
              r == InsertAndUpdateNodesAfterMove(hn, b, n0, p)
          IN  UnassignedNodes(p) # {} => enabled \subseteq r.enabled
      BY <3>4, AfterMoveProps
    <3>6. QED
      BY <3>1, <3>2, <3>3, <3>5
  <2>2. CASE InitialPartition
    BY <2>2 DEF InitialPartition
  <2>3. CASE AssignRemaining
    BY <2>3 DEF AssignRemaining
  <2>4. CASE BreakOnLightUnassignedPart \/ BreakAfterRelease \/ ReleaseUpperBound
             \/ DisablePart \/ UNCHANGED vars
    BY <2>4 DEF BreakOnLightUnassignedPart, BreakAfterRelease, ReleaseUpperBound,
                DisablePart, vars
  <2>5. QED
    BY <2>1, <2>2, <2>3, <2>4 DEF Next
<1>2. QED
  BY <1>1, InitIInv, NextIInv, PTL DEF Spec, QueuesStayAlive


-----------------------------------------------------------------------------
(* Every node ends in a block.  During the loop a node is in a block or in *)
(* the operating unassigned part; AssignRemaining places the rest.         *)

\* From the start of the loop to its end, a node is in a block or in the
\* operating unassigned part.
PartWithinLoop ==
  phase \in {"loop", "finish"} => \A n \in Nodes : part[n] \in Blocks \cup {opU}

LEMMA InitAssigned == Init => PartWithinLoop /\ EveryNodeAssigned
BY DEF Init, PartWithinLoop, EveryNodeAssigned

LEMMA NextAssigned ==
  IInv /\ PartWithinLoop /\ EveryNodeAssigned /\ [Next]_vars
    => PartWithinLoop' /\ EveryNodeAssigned'
<1> SUFFICES ASSUME IInv, PartWithinLoop, EveryNodeAssigned, [Next]_vars
             PROVE  PartWithinLoop' /\ EveryNodeAssigned'
  OBVIOUS
<1>1. CASE InitialPartition
  BY <1>1 DEF InitialPartition, PartWithinLoop, EveryNodeAssigned
<1>2. CASE BreakOnLightUnassignedPart \/ ReleaseUpperBound \/ BreakAfterRelease
           \/ DisablePart
  BY <1>2 DEF BreakOnLightUnassignedPart, ReleaseUpperBound, BreakAfterRelease,
              DisablePart, PartWithinLoop, EveryNodeAssigned
<1>3. CASE AssignHypernode
  <2>1. PICK b \in enabled, hn \in Nodes : part' = [part EXCEPT ![hn] = b]
    BY <1>3 DEF AssignHypernode
  <2>2. b \in Blocks /\ part \in [Nodes -> {-1} \cup Blocks]
    BY DEF IInv, ProofTypeOK
  <2>3. phase = "loop" /\ UNCHANGED <<phase, opU>>
    BY <1>3 DEF AssignHypernode
  <2>4. QED
    BY <2>1, <2>2, <2>3 DEF PartWithinLoop, EveryNodeAssigned
<1>4. CASE AssignRemaining
  <2>1. PICK side \in [Nodes -> {0, 1}] :
          part' = [n \in Nodes |-> IF opU = -1 /\ part[n] = -1 THEN side[n] ELSE part[n]]
    BY <1>4 DEF AssignRemaining
  <2>2. {0, 1} \subseteq Blocks /\ -1 \notin Blocks
    BY GHGAssumption DEF Blocks
  <2>3. phase = "finish" /\ phase' = "done" /\ opU' = opU
    BY <1>4 DEF AssignRemaining
  <2>4. \A n \in Nodes : part[n] \in Blocks \cup {opU}
    BY <2>3 DEF PartWithinLoop
  <2>5. opU \in {-1} \cup Blocks
    BY DEF IInv, ProofTypeOK
  <2>6. \A n \in Nodes : part'[n] \in Blocks
    BY <2>1, <2>2, <2>4, <2>5
  <2>7. QED
    BY <2>3, <2>6 DEF PartWithinLoop, EveryNodeAssigned
<1>5. CASE UNCHANGED vars
  BY <1>5 DEF vars, PartWithinLoop, EveryNodeAssigned
<1>6. QED
  BY <1>1, <1>2, <1>3, <1>4, <1>5 DEF Next

\* initialPartition() returns a k-way partition for every hypergraph, every
\* k and every policy: no node is left at -1, because the test of line 167
\* reads the operating unassigned part, which is -1 exactly when the loop
\* may leave nodes without a block.
THEOREM EveryNodeAssignedThm == Spec => []EveryNodeAssigned
<1>1. Init => IInv /\ PartWithinLoop /\ EveryNodeAssigned
  BY InitIInv, InitAssigned
<1>2. IInv /\ PartWithinLoop /\ EveryNodeAssigned /\ [Next]_vars
        => (IInv /\ PartWithinLoop /\ EveryNodeAssigned)'
  BY NextIInv, NextAssigned
<1>3. QED
  BY <1>1, <1>2, PTL DEF Spec

-----------------------------------------------------------------------------
(* The types of the whole state, given that the total weight is a natural  *)
(* number.                                                                 *)

\* perfect_balance_partition_weight, ceil(c(V) / k), is at most c(V).
LEMMA PerfectWeightRange ==
  ASSUME GHGSumFacts
  PROVE  PerfectWeight \in 0 .. TotalWeight
<1>1. TotalWeight \in Nat /\ K \in Nat /\ K >= 2
  BY GHGAssumption DEF GHGSumFacts
<1>2. CASE TotalWeight = 0
  BY <1>1, <1>2 DEF PerfectWeight
<1>3. CASE TotalWeight >= 1
  <2>1. TotalWeight + K - 1 < K * (TotalWeight + 1)
    BY <1>1, <1>3
  <2>2. QED
    BY <1>1, <2>1 DEF PerfectWeight
<1>4. QED
  BY <1>1, <1>2, <1>3

\* The variables GHGTypeOK adds to those of IInv.
RestTypeOK ==
  /\ inQueue \subseteq Blocks \X Edges
  /\ released \in BOOLEAN
  /\ minWeight \in 0 .. TotalWeight
  /\ cfgU \in {-1} \cup Blocks

LEMMA InitRestType ==
  ASSUME GHGSumFacts
  PROVE  Init => RestTypeOK
<1>1. 0 \in 0 .. TotalWeight
  BY DEF GHGSumFacts
<1>2. QED
  BY <1>1 DEF Init, RestTypeOK

\* The minimum weight read at refill time is 0, any weight, or the perfect
\* weight; insertAndUpdateNodesAfterMove marks hyperedges incident to the
\* assigned node for its target block only.
LEMMA NextRestType ==
  ASSUME GHGSumFacts
  PROVE  IInv /\ RestTypeOK /\ [Next]_vars => RestTypeOK'
<1> SUFFICES ASSUME IInv, RestTypeOK, [Next]_vars PROVE RestTypeOK'
  OBVIOUS
<1>1. CASE InitialPartition
  <2>1. PICK w \in 0 .. TotalWeight :
          minWeight' = IF opU = -1 THEN 0 ELSE IF cfgU = -1 THEN w ELSE PerfectWeight
    BY <1>1 DEF InitialPartition
  <2>2. 0 \in 0 .. TotalWeight /\ PerfectWeight \in 0 .. TotalWeight
    BY PerfectWeightRange DEF GHGSumFacts
  <2>3. minWeight' \in 0 .. TotalWeight
    BY <2>1, <2>2
  <2>4. QED
    BY <1>1, <2>3 DEF InitialPartition, RestTypeOK
<1>2. CASE AssignHypernode
  <2>1. PICK b \in enabled, hn \in Nodes :
          /\ \E n0 \in UnassignedChoice(part') :
                inQueue' = InsertAndUpdateNodesAfterMove(hn, b, n0, part').inQueue
    BY <1>2 DEF AssignHypernode
  <2>2. b \in Blocks
    BY DEF IInv, ProofTypeOK
  <2>3. inQueue' = inQueue \cup {<<b, e>> : e \in Incident(hn)}
    BY <2>1 DEF InsertAndUpdateNodesAfterMove
  <2>4. QED
    BY <1>2, <2>2, <2>3 DEF AssignHypernode, RestTypeOK, Incident
<1>3. CASE BreakOnLightUnassignedPart \/ ReleaseUpperBound \/ BreakAfterRelease
             \/ DisablePart \/ AssignRemaining \/ UNCHANGED vars
  BY <1>3 DEF BreakOnLightUnassignedPart, ReleaseUpperBound, BreakAfterRelease,
              DisablePart, AssignRemaining, vars, RestTypeOK
<1>4. QED
  BY <1>1, <1>2, <1>3 DEF Next

\* Every state of initialPartition() is well typed: the partition maps
\* nodes to blocks or to the unassigned part -1, the queues hold node ids,
\* _hyperedge_in_queue pairs blocks and hyperedges, and the minimum weight
\* of the unassigned part is between 0 and the total weight.
THEOREM GHGTypeOKThm ==
  ASSUME GHGSumFacts
  PROVE  Spec => []GHGTypeOK
<1>1. Init => IInv /\ RestTypeOK
  BY InitIInv, InitRestType
<1>2. IInv /\ RestTypeOK /\ [Next]_vars => IInv' /\ RestTypeOK'
  BY NextIInv, NextRestType
<1>3. IInv /\ RestTypeOK => GHGTypeOK
  BY DEF IInv, ProofTypeOK, RestTypeOK, GHGTypeOK
<1>4. QED
  BY <1>1, <1>2, <1>3, PTL DEF Spec

=============================================================================
