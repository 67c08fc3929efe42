SPECIFICATION AsyncFairSpec
CONSTANTS
  UIntMax = 255
  Answers <- MCAnswers
  Ops = {"download", "get", "getex", "post", "chunkedpost", "action", "actionex", "status"}
  Urls = {"page", "nopath", "other"}
  Sizes <- MCSizes
  Pieces <- MCPieces
  MaxUnits = 2
  Timeouts = {1}
  MaxCalls = 1
  MaxAsync = 2
  Kinds = {"ACTION", "STATUS", "SUBSCRIBE", "UNSUBSCRIBE", "RENEW"}
  MaxWrites = 2
  MaxContentLength = 3
INVARIANTS
  CallsAccounted
  SplitIndependent
PROPERTIES
  AnswersHandedOver
  RequestsArrive
  CallsReturn
CHECK_DEADLOCK FALSE
