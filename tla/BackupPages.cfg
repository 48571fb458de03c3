SPECIFICATION Spec
CONSTANTS
  Minutes = 4
  Old = 3
  OldManifests <- MCOldManifests
  KeepValues = {0, 1, 3}
  MaxPreviews = 2
  MaxFetches = 2
  None = None
  Patient = TRUE
INVARIANTS TypeOK PreviewIsTrue ListIsCurrent
PROPERTIES PurgeKeepsNewest PurgeEnds
CHECK_DEADLOCK FALSE
