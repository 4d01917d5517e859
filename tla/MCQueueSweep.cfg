SPECIFICATION Spec
CONSTANTS
  Jobs <- OneJob
  Workers = {w1}
  NoWorker = NoWorker
  Cron = Cron
  Submitters = {s1}
  MaxConcurrent = 1
  SweepLimit = 1
  Concurrency = 1
  FinishAttempts = 1
PROPERTIES
  SweepOnlyStuckJobs
CHECK_DEADLOCK FALSE
