SPECIFICATION FairSpec
CONSTANTS
  Workers = {w1, w2}
  NoWorker = NoWorker
  DecisionIds = {d1}
  NoDecision = NoDecision
  RetryLimit = 3
  MaxRevision = 1
  MaxVerifications = 1
  MaxExpiries = 1
  MaxFaults = 1
CHECK_DEADLOCK FALSE
INVARIANTS
  TypeOK
  ResolutionMatchesDecision
  WaitingHasCheckpoint
  LeaseHasOpenAttempt
PROPERTIES
  TerminalIsFinal
  ResolvedUnderLease
  DecisionSettles
  ReviewOpens
  ImplementsFairContract
