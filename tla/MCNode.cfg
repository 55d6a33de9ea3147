CONSTANTS
  Subs = {1, 2, 3}
  Exclusive = {1, 3}
  Poison = {2}
  MaxConns = 2
  MaxPerConn = 2
  QuarantineAfter = 2
  MaxCalls = 3
  MaxDrops = 1
  MaxFrames = 1
  Bindings = {a}
  Runtimes = {k, j}
  Tasks = {t}
  MaxPairings = 2
  MaxFaults = 1
  Agents = {b, c}
  Containers = {d, e}
  Signers = {s, u}
  Clearances = {r}
  MaxLog = 4
  Orders = {o}
  MaxRequests = 3
  MaxFailures = 1
  MaxEvents = 3
SPECIFICATION Spec
CHECK_DEADLOCK FALSE
INVARIANTS PoolSound AuthorityHolds AckMeansCancelled CleanStopIsSettled ReleasesAreTrue
PROPERTIES RegistrySound
