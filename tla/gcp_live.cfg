SPECIFICATION LiveSpec
CONSTANTS
  a1 = a1
  a2 = a2
  n1 = n1
  n2 = n2
  e1 = e1
  e2 = e2
  e3 = e3
  s1 = s1
  s2 = s2
  x1 = x1
  x2 = x2
  NoSid = NoSid
  NoActualSid = NoActualSid
  NoEvent = NoEvent
  NoOne = NoOne
  Apps = {a1}
  Notifiers = {n1}
  Events = {e1, e2}
  Sids = {s1, s2}
  ActualSids = {x1, x2}
  AppsRenew = FALSE
  AppsUnregisterBusy = FALSE
  NetworkMayFail = FALSE
  ScheduleMayFail = FALSE
INVARIANTS
  ListSound
PROPERTIES
  CallReturns
