SPECIFICATION Spec
CONSTANTS
  Tokens = {t1}
  Requests = {a1, a2, r1}
  Calls = {a1, a2}
  AdminOps = {"create", "install-pack"}
  Reported = {}
  KeyConfigured = FALSE
  MaxKeys = 2
  MaxAdmin = 2
  MaxFaults = 2
INVARIANTS LicenseSurvivesRestart LicensedCanReport
PROPERTIES RetriesUnlock
CHECK_DEADLOCK FALSE
