SPECIFICATION Spec
CONSTANTS
  OldRuns = {r1}
  NewRuns = {r2}
  MaxStarts = 2
CHECK_DEADLOCK FALSE
INVARIANT RestoresOnAnyFailure
