SPECIFICATION RecoverySpec
CONSTANTS
  Threshold = 3
INVARIANTS RecoveryTypeOK CountIsHonest SignalIsExact
PROPERTY LoopIsSignalled
