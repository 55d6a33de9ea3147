CONSTANTS
  btc = btc
  eth = eth
  Symbols = {btc, eth}
  MaxOrderUsd = 2
  MaxPositionUsd = 2
  VolCapUsd = 2
  MaxOpenUsd = 3
  MaxGrossUsd = 3
  Accounts <- SmallAccounts
  LateFeed = TRUE
  MaxCalls = 1
SPECIFICATION BookSpec
CHECK_DEADLOCK FALSE
INVARIANTS AccountCapsHold
