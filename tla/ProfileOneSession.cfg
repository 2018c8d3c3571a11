\* One session of a Google user edits, reviews and applies; an index step fails, the process dies.
SPECIFICATION MCSpec
CONSTANTS
  Sessions = {s1}
  Fields = {major, name}
  Locked = {name}
  Values = {a, b}
  First = a
  None = None
  Drafts = {d1}
  Slots = {1, 2}
  Parts = 2
  MaxVersions = 3
  MaxFailures = 1
  MaxCrashes = 1
\* The bound on versions may stop a draft from being saved.
CHECK_DEADLOCK FALSE
INVARIANTS
  HistoryIsComplete
  IndexTellsCurrent
  DraftsMatchHistory
PROPERTIES
  RefreshEnds
