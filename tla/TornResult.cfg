SPECIFICATION ResultSpec
CONSTANTS
  Workers = {w1}
  NoWorker = NoWorker
  DecisionIds = {d1}
  NoDecision = NoDecision
  RetryLimit = 2
  MaxRevision = 2
  MaxVerifications = 1
  MaxAttempts = 2
CHECK_DEADLOCK FALSE
INVARIANTS
  DeliversReadyPublication
