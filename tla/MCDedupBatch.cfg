SPECIFICATION LoopSpec
CONSTANTS
  k1 = k1
  k2 = k2
  v1 = v1
  v2 = v2
  NoEntry = NoEntry
  Keys <- MCKeys
  Vals <- MCVals
  Arrays <- MCArrays
  MaxTime = 1
  MaxLen = 3
INVARIANTS
  LoopIsAbsorb
CHECK_DEADLOCK FALSE
