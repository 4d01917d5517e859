SPECIFICATION BrowserSpec
CONSTANTS
  Parts = {"sync", "cells"}
  Clients = {c1, c2}
  Projects = {p1}
  MaxEdits = 2
  MaxFaults = 1
  MaxClicks = 1
  Cells = {1, 2}
  Upstream <- ChainUpstream
  MaxRuns = 2
  MaxCodeEdits = 1
INVARIANTS
  BrowserTypeOK
  ChecksKeepEdits
  SyncedMeansSaved
  FreshOrMarked
  RunningIsLive
PROPERTIES
  ResultsInOrder
SYMMETRY Symmetry
CHECK_DEADLOCK FALSE
