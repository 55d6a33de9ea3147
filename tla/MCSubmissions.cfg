SPECIFICATION OrdersSpec
CHECK_DEADLOCK FALSE
CONSTANTS
  g1 = g1
  g2 = g2
  c1 = c1
  c2 = c2
  Gateways = {g1, g2}
  Cloids = {c1, c2}
  NoCloid = NoCloid
  StoreFaults = TRUE
  Orders = {1, 2}
  Size <- MCSize
  Value <- MCValue
  Nets <- MCNets
  OrderLimit = 2
  ExecutedLimit = 3
  LossLimit = 1
  Prices = {1}
  Required = FALSE
  MaxRows = 4
  MaxFaults = 1
  MaxLaunches = 1
  MaxMoves = 2
  Requests <- MCRequests
  Quotes = {1, 2}
  TTL = 2
  MaxAge = 1
  MaxNow = 2
  MaxProposals = 2
  MaxWork = 2
  MaxDisturbances = 1
INVARIANTS
  DispatchedOnce
  ReplayAccepts
  ResolutionsAreDefinite
  NoOrderEscapesReservation
  ConsentIsTold
  OnlyWhatWasApproved
  QueueSound
PROPERTIES
  PilotSound
