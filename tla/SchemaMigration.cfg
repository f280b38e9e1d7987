SPECIFICATION Spec
CONSTANTS
  OldRuns = {r1}
  NewRuns = {r2}
  MaxStarts = 4
CHECK_DEADLOCK FALSE
INVARIANTS
  PublicationsMatchRuns
PROPERTIES
  FailureRestores
  CommittedRunsSurvive
