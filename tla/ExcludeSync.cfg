SPECIFICATION Spec
CONSTANTS
  Installed <- MCInstalled
  Foreign <- MCForeign
  Environments <- MCEnvironments
  NoFile = NoFile
  NoProfile = NoProfile
  MaxToggles = 2
  MaxRefreshes = 3
  MaxBoots = 1
  Patient = TRUE
INVARIANTS TypeOK FileFollowsList SwitchesTellTheTruth
PROPERTY TogglesAreSaved
CHECK_DEADLOCK FALSE
