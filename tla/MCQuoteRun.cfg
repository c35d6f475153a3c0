SPECIFICATION Spec
CONSTANTS
  MaxRate = 6
  Poller = poller
  Deciders = {d1, d2}
  MaxLanes = 2
  Assessments <- MCAssessments
  Faults = {"node", "checkpoint", "status_write", "lost_ack", "crash"}
INVARIANTS OneDecision QuoteNeedsConsent WaitingIsUndecided DoneIsDelivered
PROPERTIES DeliveryKept RunSettles DecisionIsAnswered
CHECK_DEADLOCK FALSE
