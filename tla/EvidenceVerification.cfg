SPECIFICATION Spec
CONSTANTS
  Workers = {w1}
  NoWorker = NoWorker
  DecisionIds = {d1}
  NoDecision = NoDecision
  RetryLimit = 3
  MaxRevision = 2
  MaxVerifications = 2
  Items = {"fixture", "snippet"}
  Fixtures = {"fixture"}
  Ineligible = {"snippet"}
  Operators = {o1}
  MaxCalls = 2
CHECK_DEADLOCK FALSE
INVARIANTS
  TypeOK
  SnapshotIdentifiesLedger
  AnswerMatchesLedger
  DeliveredShowsNewestVerdicts
PROPERTIES
  WithdrawnByNewVerdict
