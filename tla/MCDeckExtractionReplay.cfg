SPECIFICATION Spec
CONSTANTS
  Applications = {a1}
  CompanyOnly = {}
  Tasks = {t1, t2}
  None = None
  MaxLives = 2
  MaxFailures = 0
INVARIANTS
  ReplayResumes
