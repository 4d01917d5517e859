SPECIFICATION FairSpec
CONSTANTS
  Jobs <- TwoJobs
  Workers = {}
  NoWorker = NoWorker
  Cron = Cron
  NoJob = NoJob
  Submitters = {s1, s2}
  MaxConcurrent = 1
  SweepLimit = 1
INVARIANTS
  TypeOK
  ReplyIsTrue
  SucceededMeansRan
PROPERTIES
  ErrorsStand
  JobsSettle
CHECK_DEADLOCK FALSE
