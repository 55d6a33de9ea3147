CONSTANTS
    MICRO = 4
    Rates <- SharedRates
    Agents = {a1}
    Reserves = {1}
    MaxTime = 6
SPECIFICATION Spec
INVARIANT GlobalRetrySuffices
