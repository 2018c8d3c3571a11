\* One draft with two accepted changes of one field.
SPECIFICATION Spec
CONSTANTS
  Sessions = {s1}
  Fields = {major}
  Locked = {}
  Values = {a, b, c}
  None = None
  Drafts = {d1}
  Slots = {1, 2}
  Parts = 1
  MaxVersions = 2
  MaxFailures = 0
  MaxCrashes = 0
CHECK_DEADLOCK FALSE
INVARIANT EveryAppliedChangeReachesProfile
