SPECIFICATION Spec
CONSTANTS
  Slots = {1, 2}
  Appliances <- MCAppliances
  Moving = {"license", "sakbe_key"}
  Settings <- MCSettings
  Runs = {"r1"}
  MaxChanges = 2
  MaxFaults = 1
INVARIANTS
  FilesMatch
PROPERTIES
  SettingsArrive
  PortalShowsTruth
CHECK_DEADLOCK FALSE
