SPECIFICATION Spec
CONSTANTS
  Runs = {r1}
  Helpers = {h1, h2}
  Main = main
  TopTier = 1
  Charges <- MCCharges
  MaxTokens = 2
  MaxCost = 1
  TaskTokens = 2
  RunTokens = 4
  TaskCost = 1
  RunCost = 2
  DayCost = 2
  MaxAttempts = 2
  MaxLedger = 9
  MaxDays = 1
INVARIANTS
  SpendCapped
PROPERTY
  CappedRunStops
CHECK_DEADLOCK FALSE
