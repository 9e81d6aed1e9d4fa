SPECIFICATION Spec
CONSTANTS
  b1 = b1
  b2 = b2
  u1 = u1
  u2 = u2
  s1 = s1
  s2 = s2
  s3 = s3
  Boards = {b1, b2}
  Users = {u1, u2}
  UserOf <- MCUserOf
  Streams = {s1, s2, s3}
  MaxPerUser = 2
  MaxTotal = 3
  MaxVersion = 2
  NoRead = NoRead
  Nobody = Nobody
INVARIANTS
  TypeOK
  StreamsCounted
  NothingForgotten
PROPERTIES
  BoardsCatchUp
