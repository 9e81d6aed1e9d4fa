SPECIFICATION Spec
CONSTANTS
  d1 = d1
  d2 = d2
  Absent = Absent
  None = None
  Deciders = {}
  MaxEvents = 3
INVARIANT FailureIsRecorded
CHECK_DEADLOCK FALSE
