SPECIFICATION FairSpec
CONSTANTS
  Applications = {a1, a2}
  CompanyOnly = {a2}
  Tasks = {t1, t2, t3}
  None = None
  MaxLives = 3
  MaxFailures = 2
INVARIANTS
  ClaimsMatchWork
  ShownIsDurable
PROPERTIES
  SuccessStays
  QueuedRunEnds
