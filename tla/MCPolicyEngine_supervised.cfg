SPECIFICATION Spec
CONSTANTS
  a1 = a1
  o1 = o1
  Agents = {a1}
  Global = Global
  Limits = {1}
  Orders = {o1}
  AgentOf <- OneAgentOf
  NoAck = NoAck
  NoRoute = NoRoute
  MaxRevision = 3
  MaxGeneration = 5
  Operations = {"edit", "reviewed_release"}
  SupervisedAlpha = TRUE
  StoreFaults = TRUE
  PeerWrites = TRUE
  Restarts = TRUE
INVARIANTS
  ConfirmedKillIsDurable
PROPERTIES
  HaltHonoured
  AdmittedUnderEvaluatedPolicy
