SPECIFICATION OnboardSpec
CONSTANTS
  Providers = {"openrouter", "gemini"}
  Hosts = {"h1", "h2"}
  Declared = {"h1", "outlook"}
  Secrets = {"s1", "s2"}
  Accounts <- MCAccounts
  MaxMishaps = 2
  MaxOthers = 1
INVARIANTS
  CompleteIsSound
  PassLeavesComplete
PROPERTIES
  PhasesKeepApart
  InstallConverges
CHECK_DEADLOCK FALSE
