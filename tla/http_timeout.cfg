SPECIFICATION SilentPeerSpec
CONSTANTS
  UIntMax = 255
  Answers <- MCAnswers
  Ops = {"get"}
  Urls = {"page", "nopath", "other"}
  Sizes <- MCSizes
  Pieces <- MCPieces
  MaxUnits = 2
  Timeouts = {1}
  MaxCalls = 1
  MaxAsync = 0
  Kinds = {"ACTION", "STATUS", "SUBSCRIBE", "UNSUBSCRIBE", "RENEW"}
  MaxWrites = 2
  MaxContentLength = 3
PROPERTIES
  TimeoutEnds
CHECK_DEADLOCK FALSE
