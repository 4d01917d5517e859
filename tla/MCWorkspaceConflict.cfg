SPECIFICATION Spec
CONSTANTS
  Clients = {c1, c2}
  Projects = {p1}
  MaxEdits = 2
  MaxFaults = 1
  MaxClicks = 1
INVARIANTS
  NoAutoOverwrite
SYMMETRY Symmetry
CHECK_DEADLOCK FALSE
