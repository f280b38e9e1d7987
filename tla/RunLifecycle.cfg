SPECIFICATION FairSpec
CONSTANTS
  CapturedEvidence = {"none", "clean"}
  MaxFaults = 2
CHECK_DEADLOCK FALSE
INVARIANTS
  TypeOK
  OneWriterFinishes
  EndedRunIsTerminal
  HandsOverToReview
PROPERTIES
  TerminalRunIsFinal
  RunSettles
