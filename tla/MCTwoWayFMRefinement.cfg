CONSTANTS
  Nodes <- MCNodes
  Edges <- MCEdges
  Pins <- MCPins
  NodeWeight <- MCRNodeWeight
  EdgeWeight <- MCEdgeWeight
  MaxImbalance <- MCMaxImbalance
  UpperBound = 4
  MaxFruitless = 2
  MaxPasses = 2

SPECIFICATION RSpec

PROPERTY ContractSpec
CHECK_DEADLOCK FALSE
