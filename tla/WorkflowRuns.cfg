SPECIFICATION Spec
CONSTANTS
  Submitters = {s1, s2}
  Deciders = {d1, d2}
  Actions = {"approve", "reject"}
  Faults = {"workflow", "tms", "save", "crash"}
INVARIANTS WrittenAsReviewed DecisionMatchesRun
PROPERTIES RunLeavesQueue
CHECK_DEADLOCK FALSE
