SPECIFICATION Spec
CONSTANTS
  MaxChunks = 3
  Concurrency = 2
  Attempts = 2
  Patient = TRUE
  None = None
  Torn = Torn
INVARIANTS TypeOK WholeWhenDone
PROPERTY Settles
CHECK_DEADLOCK FALSE
