SPECIFICATION WebSpec
CONSTANTS
  u1 = u1
  u2 = u2
  r1 = r1
  r2 = r2
  Local = Local
  NoToken = NoToken
  NoRequest = NoRequest
  NoSession = NoSession
  NoBearer = NoBearer
  Browsers = {1}
  Configs <- MCConfigs
  Users <- MCUsers
  Requests <- MCRequests
  MaxActiveTokens = 1
  Lifetimes = {1}
  MaxTokens = 2
  MaxTime = 1
SYMMETRY MCSymmetry
INVARIANTS
  TypeOK
  WebTypeOK
  LimitWithinConcurrency
  TokensOnlyForEntitled
  PageWorks
PROPERTIES
  RevocationIsFinal
  ImplementsTokens
