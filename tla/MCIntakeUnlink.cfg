SPECIFICATION Spec
CONSTANTS
  Keys = {k1}
  Requests = {f1}
  ImportKeys = {}
  ImportRequests = {}
  KindOf <- MCKindOf
  Applications = {a1}
  Submitters = {s1, s2}
  Extractors = {}
  Results = {r1}
  Pending = Pending
  Unknown = Unknown
  None = None
  Parallel = TRUE
  MaxFailures = 1
INVARIANTS
  AnsweredBytesStay
