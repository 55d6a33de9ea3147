SPECIFICATION Spec
CONSTANTS
  MaxFills = 2
  MaxGaps = 2
  ParseFailures = TRUE
  MaxHistory = 4
  StoreFaults = FALSE
  Restarts = {}
INVARIANTS
  CaughtUp
