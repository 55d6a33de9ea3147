CONSTANTS
    MICRO = 2
    Rates <- MCRates
    Agents = {a1}
    Reserves = {0, 1}
    MaxTime = 3
    Trades = {1, 2, 3, 4, 5}
    Start = 1
    PageLimit = 3
    VenueLimit = 3
    MaxPages = 2
    MaxClock = 4
    MaxFills = 2
    MaxGaps = 2
    ParseFailures = FALSE
    MaxHistory = 3
    StoreFaults = TRUE
    Restarts = {FALSE}
SPECIFICATION Meters
INVARIANTS RateBound RefillsAreExact WalkIsComplete GivesUpForCause CaughtUp
PROPERTIES AdmittedStateCoversLedger
CHECK_DEADLOCK FALSE
