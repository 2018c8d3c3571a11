\* One session; index steps fail, the process dies once.
SPECIFICATION FairSpec
CONSTANTS
  Sessions = {s1}
  s1 = s1
  c1 = c1
  c2 = c2
  c3 = c3
  Candidates = {c1, c2, c3}
  None = None
  Chunks = 2
  MaxFailures = 2
  MaxCrashes = 1
\* Every candidate may end up decided and nothing left to do.
CHECK_DEADLOCK FALSE
INVARIANTS
  RetiredIsUnsearchable
PROPERTIES
  OutcomeIsRecorded
