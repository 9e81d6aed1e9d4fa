SPECIFICATION Spec
CONSTANTS
  src = src
  doc = doc
  test = test
  old = old
  new = new
  Absent = Absent
  Outside = Outside
  Files = {src, doc, test}
  SourceFiles = {src}
  HighImpactFiles = {test}
  LeftoverFiles = {doc}
  DiffFiles = {src}
  Contents = {Absent, old, new}
  Drafts = {old}
  Committed <- MCCommitted
  MaxChanges = 1
  MaxAttempts = 2
  MaxChangedFiles = 1
  Policies <- MCClean
INVARIANT VerifiedMeansApplied
CHECK_DEADLOCK FALSE
