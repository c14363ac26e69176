SPECIFICATION Spec
CONSTANTS
  t1 = t1
  t2 = t2
  t3 = t3
  a = a
  b = b
  NoIP = NoIP
  Pending = Pending
  Dash = Dash
  Terms <- MCTerms
  Results <- MCResults
  NotFound = {t2}
  MaxSearches = 3
  MaxClicks = 2
CHECK_DEADLOCK FALSE
INVARIANTS
  TypeOK
  ShowsLastSearch
  HostnameOfItsRow
PROPERTIES
  SearchEnds
  HostnamesResolve
