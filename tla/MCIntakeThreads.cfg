SPECIFICATION Spec
CONSTANTS
  Keys = {k1, k2}
  Requests = {f1, f2}
  ImportKeys = {}
  ImportRequests = {}
  KindOf <- MCKindOf
  Applications = {a1, a2}
  Submitters = {s1, s2}
  Extractors = {x1, x2}
  Results = {r1, r2}
  Pending = Pending
  Unknown = Unknown
  None = None
  Parallel = TRUE
  MaxFailures = 1
SYMMETRY Symmetry
INVARIANTS
  TypeOK
  TablesAgree
  AcceptedIsDurable
  CreatedOnce
  HistoryMovesForward
  ExtractionsAgree
