\* On one event loop no two submissions overlap: one submitter stands for all.
SPECIFICATION FairSpec
CONSTANTS
  Keys = {k1, k2, j1}
  Requests = {f1, g1}
  ImportKeys = {j1}
  ImportRequests = {g1}
  KindOf <- MCKindOf
  Applications = {a1, a2}
  Submitters = {s1}
  Extractors = {x1, x2}
  Results = {r1, r2}
  Pending = Pending
  Unknown = Unknown
  None = None
  Parallel = FALSE
  MaxFailures = 1
INVARIANTS
  StoredHasBytes
PROPERTIES
  ImplementsPromise
  ReservedIsAnswered
