CONSTANTS
  Nodes <- MCNodes
  Edges <- MCEdges
  Pins <- MCPins
  NodeWeight <- MCNodeWeight
  Epsilon <- MCEpsilon
  K = 2
  NoNode = NoNode

SPECIFICATION Spec

INVARIANT GHGTypeOK
INVARIANT QueuedNodesUnassigned
INVARIANT EveryNodeAssigned
PROPERTY QueuesStayAlive
PROPERTY InitialPartitionTerminates
