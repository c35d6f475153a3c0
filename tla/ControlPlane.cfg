SPECIFICATION CloudSpec
CONSTANTS
  Tokens = {t1}
  Requests = {r1, r2}
  AdminOps = {"create", "install-pack", "suspend", "reactivate", "reissue-license"}
  Reported = {"ready"}
  KeyConfigured = TRUE
  MaxKeys = 1
  MaxAdmin = 5
INVARIANTS UsedTokenIsLicensed SuspensionHolds WithdrawnIsReissued
CHECK_DEADLOCK FALSE
