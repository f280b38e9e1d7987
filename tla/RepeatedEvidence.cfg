SPECIFICATION FairSpec
CONSTANTS
  CapturedEvidence = {"clean", "repeated"}
  MaxFaults = 0
CHECK_DEADLOCK FALSE
INVARIANTS
  EndedRunIsTerminal
