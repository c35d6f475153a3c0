SPECIFICATION Spec
CONSTANTS
  l1 = l1
  l2 = l2
  none = none
  Lanes = {l1, l2}
  Manifest <- MCManifest
  Fold <- MCFold
  Nom <- MCNom
  Setups <- MCSetups
  None = none
  WeekEnd <- MCWeekEnd
  Week = 1
  RouteTtl = 1
  YieldTtl = 1
  MaxClock = 3
INVARIANTS UnreviewedIsGrounded RouteIsRecent RouteIsItsOwn QuietFileKeepsRows
CHECK_DEADLOCK FALSE
