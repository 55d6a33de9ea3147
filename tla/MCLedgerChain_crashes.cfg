SPECIFICATION Spec
CONSTANTS
  Procs = {p, q}
  Agents = {a, b}
  NoOne = NoOne
  Account = Account
  MaxRows = 3
  MaxEvents = 5
  MaxFaults = 2
  Limits = {2}
INVARIANTS CrashIsNotForgery
CHECK_DEADLOCK FALSE
SYMMETRY ProcSymmetry
