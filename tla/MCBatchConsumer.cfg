SPECIFICATION FairSpec
CONSTANTS
  k1 = k1
  k2 = k2
  v = v
  Malformed = Malformed
  NoEntry = NoEntry
  Keys <- MCKeys
  Vals <- MCVals
  Payloads <- MCPayloads
  Messages <- MCMessages
  MaxLog = 3
  MaxTime = 2
  BatchSize = 2
  TTL = 1
INVARIANTS
  TypeOK
  LossOnlyBehindMalformed
  MarksDeliveredMessage
  DrainedRowsAreNewest
PROPERTIES
  PublishedIsWritten
