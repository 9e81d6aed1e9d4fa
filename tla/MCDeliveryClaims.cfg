SPECIFICATION Spec
CONSTANTS
  a1 = a1
  a2 = a2
  a3 = a3
  a4 = a4
  None = None
  Absent = Absent
  Attempts = {a1, a2, a3, a4}
  Drivers = {"conditional", "plain"}
INVARIANTS
  TypeOK
  AtMostOneHolder
  MarkerTruthful
PROPERTIES
  ExactUnlessOverlapping
  ImplementsExclusiveClaim
CHECK_DEADLOCK FALSE
