SPECIFICATION Spec
CONSTANTS
  n1 = n1
  n2 = n2
  i1 = i1
  i2 = i2
  a = a
  b = b
  host = host
  gi = gi
  vl = vl
  NoRow = NoRow
  NoResponse = NoResponse
  NoIP = NoIP
  NoPort = NoPort
  Nodes <- MCNodes
  IPs <- MCIPs
  MacStrings <- MCMacStrings
  Rank <- MCRank
  Terms <- MCTerms
  MaxTime = 1
  MaxRows = 3
SYMMETRY MCSymmetry
INVARIANTS
  TypeOK
  KnownMacFound
  OneRowPerSpelling
  CurrentIpFound
