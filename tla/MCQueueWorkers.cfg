SPECIFICATION FairSpec
CONSTANTS
  Jobs <- OneJob
  Workers = {w1, w2}
  NoWorker = NoWorker
  Cron = Cron
  Submitters = {s1}
  MaxConcurrent = 1
  SweepLimit = 1
  Concurrency = 1
  FinishAttempts = 4
INVARIANTS
  SettledAbortIsTrue
PROPERTIES
  JobsSettle
  SlotsReturn
CHECK_DEADLOCK FALSE
