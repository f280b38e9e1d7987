SPECIFICATION Spec
CONSTANTS
  Workers = {w1, w2}
  NoWorker = NoWorker
  DecisionIds = {d1, d2}
  NoDecision = NoDecision
  RetryLimit = 2
  MaxRevision = 2
  MaxVerifications = 2
  MaxExpiries = 0
  MaxFaults = 0
SYMMETRY Symmetry
CHECK_DEADLOCK FALSE
INVARIANTS
  StoreInvariant
  DeliveryAuthorized
  DecisionStaysFresh
  GateHoldsAcceptedDecision
PROPERTIES
  StaleIsHistory
  ImplementsContract
