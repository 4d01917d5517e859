SPECIFICATION BrowserSpec
CONSTANTS
  Parts = {"cells"}
  Clients = {c1, c2}
  Projects = {p1}
  MaxEdits = 2
  MaxFaults = 1
  MaxClicks = 1
  Cells = {1, 2}
  Upstream <- ChainUpstream
  MaxRuns = 2
  MaxCodeEdits = 1
INVARIANTS
  NoCellStuck
SYMMETRY Symmetry
CHECK_DEADLOCK FALSE
