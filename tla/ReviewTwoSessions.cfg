\* Two sessions decide and index while steps fail and a session dies.
SPECIFICATION Spec
CONSTANTS
  Sessions = {s1, s2}
  s1 = s1
  s2 = s2
  c1 = c1
  c2 = c2
  c3 = c3
  Candidates = {c1, c2, c3}
  None = None
  Chunks = 2
  MaxFailures = 1
  MaxCrashes = 1
\* Every candidate may end up decided and nothing left to do.
CHECK_DEADLOCK FALSE
INVARIANTS
  SyncedIsComplete
  RetirementsLast
PROPERTIES
  DecisionsAreFinal
