SPECIFICATION Spec
CONSTANTS
  p1 = p1
  p2 = p2
  i1 = i1
  i2 = i2
  c1 = c1
  r1 = r1
  r2 = r2
  r3 = r3
  w1 = w1
  q1 = q1
  Requests = {r1, r2, r3, w1, q1}
  Keys = {i1, i2, c1}
  Processes = {p1, p2}
  KeyOf <- MCKeyOf
  ProcessOf <- MCProcessOf
  ChannelOf <- MCChannelOf
  MapSize = 1
  Free = Free
  Standing = Standing
  None = None
INVARIANTS
  TypeOK
  OneRunAtATime
  AcceptedMeansDone
PROPERTIES
  DoneIsDone
  BlockedByTroubleOnly
