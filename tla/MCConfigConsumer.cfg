SPECIFICATION Spec
CONSTANTS
  k1 = k1
  k2 = k2
  name = name
  status = status
  vlan = vlan
  x = x
  y = y
  one = one
  Empty = Empty
  Null = Null
  NoRow = NoRow
  Malformed = Malformed
  Keys <- MCKeys
  Columns <- MCColumns
  Values <- MCValues
  NullIf <- MCNullIf
  InsertDefault <- MCDefault
  Reports <- MCReports
  Messages <- MCMessages
  MaxLog = 3
  MaxTime = 2
  TTL = 1
INVARIANTS
  TypeOK
  LossOnlyOfFailed
  RowShowsItsReport
PROPERTIES
  ImplementsTable
  NoResurrection
