SPECIFICATION FairSpec
CONSTANTS
  a1 = a1
  o1 = o1
  Agents = {a1}
  Global = Global
  Limits = {1}
  Orders = {o1}
  AgentOf <- OneAgentOf
  NoAck = NoAck
  NoRoute = NoRoute
  MaxRevision = 3
  MaxGeneration = 1
  Operations = {"release"}
  SupervisedAlpha = FALSE
  StoreFaults = FALSE
  PeerWrites = FALSE
  Restarts = FALSE
PROPERTIES
  HaltBecomesDurable
