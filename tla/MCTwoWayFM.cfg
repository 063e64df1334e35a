CONSTANTS
  Nodes <- MCNodes
  Edges <- MCEdges
  Pins <- MCPins
  NodeWeight <- MCNodeWeight
  EdgeWeight <- MCEdgeWeight
  MaxImbalance <- MCMaxImbalance
  UpperBound = 3
  MaxFruitless = 2
  MaxPasses = 2

SPECIFICATION Spec

INVARIANT TypeOK
INVARIANT QueuedGainsExact
INVARIANT CutTracksHypergraph
INVARIANT PartitionSizesExact
INVARIANT RefineEntryConsistent
INVARIANT RollbackRestoresCheckpoint
PROPERTY RollbackMovesBack
PROPERTY PassTerminates
CHECK_DEADLOCK FALSE
