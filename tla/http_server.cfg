SPECIFICATION Spec
CONSTANTS
  c1 = c1
  c2 = c2
  Conns = {c1, c2}
  Requests <- MCRequests
  Files <- MCFiles
  VirtualFiles <- MCVirtualFiles
  AliasName = "/alias"
  AliasLength = 2
  MaxDocs = 2
  Calls = {"publish", "withdraw", "enable", "disable", "root", "removeAll"}
  MaxCalls = 3
  MaxConfig = 1
  AddDirs = {"/x"}
  RemoveDirs = {"/v", "/w"}
  WEB_SERVER_BUF_SIZE = 2
  Services <- MCServices
  Verdicts <- MCVerdicts
  SlowPeers = {c1}
  HTTP_DEFAULT_TIMEOUT = 1
INVARIANTS
  AliasSound
  AnswersFit
PROPERTIES
  ConnectionsEnd
CHECK_DEADLOCK FALSE
