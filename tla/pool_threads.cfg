SPECIFICATION Spec
CONSTANTS
  w1 = w1  w2 = w2  w3 = w3  w4 = w4  main = main  app = app
  j1 = j1  j2 = j2  j3 = j3  p1 = p1
  Workers = {w1, w2, w3, w4}
  Clients = {main, app}
  Owner = main
  ShortJobs = {j1, j2}
  LongJobs = {p1}
  Priority <- PriorityLow2
  Submitters <- All
  LongSubmitters = {main}
  Removers = {app}
  MinThreads = 2
  MaxThreads = 3
  JobsPerThread = 2
  MaxJobsTotal = 2
  StarvationTime = 1
  MaxIdleTime = 0
  IdSpace = 1
  CreateMayFail = TRUE
  NoJob = NoJob
INVARIANTS
  ThreadsKept
  ThreadAccounting
  ThreadLimit
  QueuedJobHasWorker
PROPERTIES
  ImplementsJobPool
  FifoWithinPriority
SYMMETRY WorkerSymmetry
