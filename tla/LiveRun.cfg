SPECIFICATION Spec
CONSTANTS
  Bases = {a, b}
  Calls = {1, 2, 3}
  None = None
  MaxRuns = 2
INVARIANTS
  ShownBelongsTogether
PROPERTIES
  RunSettles
