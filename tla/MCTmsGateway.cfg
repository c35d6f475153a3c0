SPECIFICATION GatewaySpec
CONSTANTS
  csv = csv
  erp = erp
  Systems = {csv, erp}
  Callers = {c1, c2}
  Connection <- MCConnection
  Entities <- MCEntities
  Ttl <- MCTtl
  Setups <- MCSetups
  Lanes <- MCLanes
INVARIANTS AnswersExpire LostAtMostOnce
PROPERTIES CallsEnd
CHECK_DEADLOCK FALSE
