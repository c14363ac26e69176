SPECIFICATION Spec
CONSTANTS
  description = description
  vrf = vrf
  shutdown = shutdown
  x = x
  y = y
  On = On
  Empty = Empty
  Null = Null
  NoRow = NoRow
  Columns <- MCColumns
  Values <- MCValues
  InsertDefault <- MCDefault
  NullIf = {}
  Pointers = {description}
  OmitEmpty = {vrf}
  Flags = {shutdown}
  MaxTime = 3
  MaxPushes = 3
  TTL = 1
CHECK_DEADLOCK FALSE
INVARIANTS
  ShutdownShown
