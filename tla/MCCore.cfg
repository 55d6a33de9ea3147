SPECIFICATION CoreSpec
CONSTANTS
  a1 = a1
  o1 = o1
  Agents = {a1}
  Global = Global
  Limits = {1}
  Orders = {o1}
  AgentOf <- OneAgentOf
  NoAck = NoAck
  NoRoute = NoRoute
  MaxRevision = 3
  MaxGeneration = 2
  Operations = {"edit", "release"}
  SupervisedAlpha = FALSE
  StoreFaults = FALSE
  PeerWrites = FALSE
  Restarts = TRUE
  btc = btc
  eth = eth
  Symbols = {btc, eth}
  MaxOrderUsd = 2
  MaxPositionUsd = 2
  VolCapUsd = 2
  MaxOpenUsd = 5
  MaxGrossUsd = 3
  Accounts <- SmallAccounts
  LateFeed = FALSE
  MaxCalls = 2
INVARIANTS
  TypeOK
  AckReflectsReview
  ConfirmedKillIsDurable
  RevisionNamesPolicy
  PositionCapHolds
  AccountCapsHold
