SPECIFICATION Spec
CONSTANTS
  Streams <- MCStreams
  Pushes <- MCPushes
  Undecodable <- MCUndecodable
  Messages <- MCMessages
  Parsed <- MCParsed
  Reports <- MCReports
  Meaning <- MCMeaning
  Carried <- MCCarried
  Subscribed <- MCSubscribed
  MaxPushes <- MCMaxPushes
  MaxNodes = 40
INVARIANTS
  TypeOK
  NoSilentLoss
  NothingInvented
  
PROPERTIES
  StopHangsOnlyOnDevices
