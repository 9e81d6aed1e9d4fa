SPECIFICATION Spec
CONSTANTS
  MaxWait = 4
  MaxLimitWaits = 2
  Grace = 1
  LongestTimer = 3
  MaxDecides = 2
  MaxInstant = 6
  MaxClock = 3
  None = None
INVARIANTS
  TypeOK
  RetriesAfterReset
PROPERTIES
  DecideEnds
CHECK_DEADLOCK FALSE
