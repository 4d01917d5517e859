SPECIFICATION Spec
CONSTANTS
  Jobs <- TwoJobs
  Workers = {w1}
  NoWorker = NoWorker
  Cron = Cron
  Submitters = {s1}
  MaxConcurrent = 2
  SweepLimit = 1
  Concurrency = 1
  FinishAttempts = 1
INVARIANTS
  TypeOK
  ClaimedOnce
  SucceededMeansRan
PROPERTIES
  SettledRowsFrozen
  ImplementsLifecycle
  WorkStartsOnce
CHECK_DEADLOCK FALSE
