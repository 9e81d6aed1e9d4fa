SPECIFICATION FairSpec
CONSTANTS
  c1 = c1
  c2 = c2
  c3 = c3
  ra = ra
  rb = rb
  Calls = {c1, c2, c3}
  Repositories = {ra, rb}
  RepositoryOf <- MCRepositoryOf
  MaxActive = 2
  MaxActivePerRepository = 1
  MaxRestarts = 1
INVARIANTS
  TypeOK
  ReservationsExact
  QuotasHold
  NoSandboxEscapes
  CleanupExact
PROPERTIES
  DisposedHandsOutNothing
  EverySandboxStops
