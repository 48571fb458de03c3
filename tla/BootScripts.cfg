SPECIFICATION Spec
CONSTANTS
  Bases = {b1, b2}
  MaxMinute = 2
  RebackupFlags = {FALSE}
  FlashWhileOpen = FALSE
  None = None
  Torn = Torn
INVARIANTS TypeOK OverwrittenIsRecoverable VerifiedMeansWhole
PROPERTY ImplementsRecoverableFlash
CONSTRAINT SecondMinute
SYMMETRY Releases
CHECK_DEADLOCK FALSE
