SPECIFICATION LiveSpec
CONSTANTS
  w1 = w1  w2 = w2  w3 = w3  w4 = w4  main = main  app = app
  j1 = j1  j2 = j2  j3 = j3  p1 = p1
  Workers = {w1, w2}
  Clients = {main, app}
  Owner = main
  ShortJobs = {j1, j2, j3}
  LongJobs = {p1}
  Priority <- PriorityLowHighHigh
  Submitters = {app}
  LongSubmitters = {main}
  Removers = {}
  MinThreads = 1
  MaxThreads = 2
  JobsPerThread = 1
  MaxJobsTotal = 3
  StarvationTime = 1
  MaxIdleTime = 2
  IdSpace = 1
  CreateMayFail = FALSE
  NoJob = NoJob
INVARIANTS
  NoLostWakeup
PROPERTIES
  JobLeavesQueue
  CallReturns
