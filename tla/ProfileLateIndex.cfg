\* Two sessions save the form: the one that saved first indexes last.
SPECIFICATION Spec
CONSTANTS
  Sessions = {s1, s2}
  Fields = {major}
  Locked = {}
  Values = {a, b}
  None = None
  Drafts = {}
  Slots = {1}
  Parts = 1
  MaxVersions = 3
  MaxFailures = 0
  MaxCrashes = 0
CHECK_DEADLOCK FALSE
INVARIANT StaleRowsGoAway
