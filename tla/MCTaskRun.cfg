SPECIFICATION FairSpec
CONSTANTS
  d1 = d1
  d2 = d2
  Absent = Absent
  None = None
  Deciders = {d1, d2}
  MaxEvents = 3
INVARIANTS
  TypeOK
  ResolvedIsComplete
PROPERTIES
  HistoryGrows
  EventuallySettles
CHECK_DEADLOCK FALSE
