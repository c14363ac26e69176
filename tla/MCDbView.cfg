SPECIFICATION FairSpec
CONSTANTS
  t1 = t1
  all = all
  q = q
  NoRequest = NoRequest
  Loading = Loading
  Failed = Failed
  Tabs = {t1}
  Queries <- MCQueries
  NoQuery = all
  Matches <- MCMatches
  PageSize = 2
  MaxId = 4
INVARIANTS
  TypeOK
  NeverWedged
  MislabelledOnlyIfRefused
  QuietPageIsFull
PROPERTIES
  RefreshEnds
