SPECIFICATION AppSpec
CONSTANTS
  Parts = {"files"}
  Jobs <- FourJobs
  Workers = {}
  NoWorker = NoWorker
  Cron = Cron
  Submitters = {s1, s2}
  MaxConcurrent = 2
  SweepLimit = 1
  Concurrency = 1
  FinishAttempts = 1
  Publishers = {p1, p2}
  Refresher = Refresher
  Snapshots = {a, b}
  NoSnapshot = NoSnapshot
  Uses <- OwnConnection
  Retention = 2
  MaxShareOps = 3
  MaxShareFaults = 1
  Runs = {r1, r2}
  Intels = {i1}
  NoItem = NoItem
  MaxProcesses = 2
  Users = {u1, u2, u3}
  Founders = {u1, u2}
  Invitations = {t1}
  Requests = {q1, q2}
  NoUser = NoUser
  NoInvitation = NoInvitation
  SelfHosted = TRUE
  MaxWrites = 2
  MaxDeletions = 1
  Paths = {1, 2}
  Home = 1
  Absent = Absent
  NoPath = NoPath
  MaxFileEdits = 2
  MaxFileOps = 1
  MaxListings = 1
  Fields = {f1, f2}
  HistoryDepth = 2
  MaxChanges = 3
  MaxTyped = 2
  MaxReplaced = 1
PROPERTIES
  ReloadsKeepWrites
CHECK_DEADLOCK FALSE
