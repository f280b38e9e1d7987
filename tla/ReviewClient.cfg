SPECIFICATION Spec
CONSTANTS
  Workers = {w1}
  NoWorker = NoWorker
  DecisionIds <- MCDecisionIds
  NoDecision = NoDecision
  OwnIds = {own}
  RetryLimit = 3
  MaxRevision = 2
  MaxVerifications = 1
  Reviewers = {c1}
  MaxPosts = 2
  MaxClaims = 2
CHECK_DEADLOCK FALSE
INVARIANTS
  ReportsOwnVerdict
PROPERTIES
  RepetitionIsNoConflict
  DecidesWhatWasShown
