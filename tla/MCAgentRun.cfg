SPECIFICATION FairSpec
CONSTANTS
  src = src
  doc = doc
  test = test
  old = old
  new = new
  Absent = Absent
  Outside = Outside
  Files = {src, doc, test}
  SourceFiles = {src}
  HighImpactFiles = {test}
  LeftoverFiles = {doc}
  DiffFiles = {src}
  Contents = {Absent, old, new}
  Drafts = {new}
  Committed <- MCCommitted
  MaxChanges = 3
  MaxAttempts = 2
  MaxChangedFiles = 2
  Policies <- MCPolicies
INVARIANTS
  TypeOK
  NothingFailsByItself
  CompletedIsChecked
PROPERTIES
  WritesStayAuthorized
  RunEnds
CHECK_DEADLOCK FALSE
