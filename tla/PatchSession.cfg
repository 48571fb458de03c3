SPECIFICATION SessionSpec
CONSTANTS
  Bases = {b1}
  MaxMinute = 2
  RebackupFlags = {FALSE}
  FlashWhileOpen = TRUE
  Patient = TRUE
  None = None
  Torn = Torn
INVARIANTS SessionTypeOK ScriptFindsFreshDir SuccessMeansFlashed
PROPERTY ImplementsBootScripts
CONSTRAINT SoundMinute
CHECK_DEADLOCK FALSE
