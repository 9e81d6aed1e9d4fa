SPECIFICATION FairSpec
CONSTANTS
  a1 = a1
  a2 = a2
  a3 = a3
  a4 = a4
  b1 = b1
  b2 = b2
  ra = ra
  rb = rb
  g1 = g1
  NoGroup = NoGroup
  Jobs <- MCJobs
  Repositories = {ra, rb}
  Groups = {g1}
  RepositoryOf <- MCRepositoryOf
  GroupOf <- MCGroupOf
  JobMaxConcurrent <- MCJobMaxConcurrent
  GroupMaxConcurrent <- MCGroupMaxConcurrent
  MaxConcurrent = 2
  MaxQueued = 2
  MaxConcurrentPerRepository = 2
INVARIANTS
  TypeOK
  CountersExact
  CeilingsRespected
  WorkConserving
  QueueSound
PROPERTIES
  NoUnfairOvertaking
  StarvedOnlyByOvertaking

