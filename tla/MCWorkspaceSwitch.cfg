SPECIFICATION FairSpec
CONSTANTS
  Clients = {c1}
  Projects = {p1, p2}
  MaxEdits = 2
  MaxFaults = 1
  MaxClicks = 1
PROPERTIES
  EditsReachServer
CHECK_DEADLOCK FALSE
