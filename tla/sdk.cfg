SPECIFICATION LiveSpec
CONSTANTS
  a1 = a1  a2 = a2
  Apps = {a1, a2}
  NumHandle = 4
  MayFail = {"pool", "timer", "host", "web", "http", "stop", "ssdpReq", "ssdp", "thread"}
  Unusual = {}
  NoInfo = NoInfo  NoApp = NoApp
INVARIANTS
  TableSound
  WorkSupported
  NothingLeftBehind
PROPERTIES
  CallReturns
