SPECIFICATION NodeSpec
CONSTANTS
  Procs = {p, q}
  Agents = {a, b}
  NoOne = NoOne
  Account = Account
  MaxRows = 3
  MaxEvents = 4
  MaxFaults = 2
  Limits = {2}
  Contexts = {"a", "b", "m"}
  Testnet = {"a", "b"}
  MaxMoves = 4
  MaxFailures = 1
INVARIANTS ChainSound WitnessHolds OutcomesCiteIntents CursorSkipsNothing
 
CHECK_DEADLOCK FALSE
SYMMETRY ProcSymmetry
