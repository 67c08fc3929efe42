SPECIFICATION LiveSpec
CONSTANTS
  s1 = s1  s2 = s2  b1 = b1  b2 = b2
  Sids = {s1, s2}
  Batches = {b1, b2}
  MaxKey = 3
  Limits <- LimitsLoweredAndLifted
  Failures = {"answer", "initial", "requeue", "all"}
INVARIANTS
  ListSound
  EventsInTurn
  SharedDataFreedByLast
PROPERTIES
  NotificationEnds
