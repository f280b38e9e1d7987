SPECIFICATION Spec
CONSTANTS
  e1 = e1
  e2 = e2
  e3 = e3
  live = live
  agg1 = agg1
  agg2 = agg2
  invented = invented
  Evidence <- MCEvidence
  Long <- MCLong
  Aggregates <- MCAggregates
  Samples <- MCSamples
  Offers <- MCOffers
  MaxPerMessage = 10
  MaxCopies = 2
  MaxPackets = 2
  MaxRevision = 3
CHECK_DEADLOCK FALSE
INVARIANTS
  UnreviewedRestsOnSamples
  RejectionIsShown
  OutcomeIsUsable
  UsablePacketIsKept
