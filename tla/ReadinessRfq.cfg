SPECIFICATION ReadinessSpec
CONSTANTS
  Submitters = {s1, s2}
  Deciders = {}
  Actions = {"approve"}
  Faults = {"workflow", "tms", "save"}
INVARIANTS PendingMeansNotReady
CHECK_DEADLOCK FALSE
