SPECIFICATION LiveSpec
CONSTANTS
  None = None
  r1 = r1
  Descriptions <- OneDevice
  Targets <- OneTarget
  Foreign <- Malformed
  Heard <- HeardTargets
  Receivers = {r1}
  NUM_SSDP_COPY = 2
  MaxRegistrations = 2
  MaxAdverts = 1
  MaxSearches = 1
  MaxInFlight = 1
  ScheduleMayFail = FALSE
INVARIANTS
  SchedulesKept
  MessagesAgree
PROPERTIES
  TimersAct
