SPECIFICATION LiveSpec
CONSTANTS
  e1 = e1  e2 = e2  t1 = t1  t2 = t2
  Events = {e1, e2}
  Callers = {t1, t2}
  Delays <- DelaysPastAndFuture
  PoolMayRefuse = TRUE
  MaxTime = 2
  MaxEventId = 3
  NoEvent = NoEvent
INVARIANTS
  QueueSound
  WorkerIsWoken
PROPERTIES
  TimerLives
  RemovesOwnEvent
  ImplementsAlarmClock
CHECK_DEADLOCK FALSE
