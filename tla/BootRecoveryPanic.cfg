\* Every boot dies while the KPMs are loaded.
SPECIFICATION RecoverySpec
CONSTANTS
  Threshold = 3
PROPERTY FailedBootsAreSignalled
