SPECIFICATION Spec
CONSTANTS
  Candidates = {c1}
  Decks = {d1, d2}
  Submitters = {s1, s2}
  Runs = {x1, x2}
  None = None
SYMMETRY Symmetry
INVARIANTS
  ReplayIsAnswered
