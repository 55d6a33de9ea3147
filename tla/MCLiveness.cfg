CONSTANTS
  MaxFills = 1
  MaxGaps = 1
  ParseFailures = TRUE
  MaxHistory = 2
  StoreFaults = TRUE
  Restarts = {TRUE, FALSE}
  Subs = {1, 2, 3}
  Exclusive = {}
  Poison = {2}
  MaxConns = 1
  MaxPerConn = 3
  QuarantineAfter = 2
  MaxCalls = 3
  MaxDrops = 1
  MaxFrames = 0
  Bindings = {a}
  Runtimes = {k}
  Tasks = {t}
  MaxPairings = 1
  Orders = {o}
  MaxRequests = 1
  MaxEvents = 2
  MaxFaults = 1
  Gateways = {g}
  Cloids = {c, d}
  NoCloid = NoCloid
SPECIFICATION Spec
CHECK_DEADLOCK FALSE
PROPERTIES AccountRecovers PoolConverges StopReturns OperatorIsAnswered VisibleOrdersAreReleased
