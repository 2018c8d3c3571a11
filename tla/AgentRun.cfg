\* Searches and drafts, one search that raises, two turns wasted.
SPECIFICATION FairSpec
CONSTANTS
  MaxIterations = 3
  MaxSourceCalls = 3
  NoNewStop = 2
  Requests = {r1, r2}
  None = None
  MaxCalls = 2
  MaxFailures = 1
  MaxWasted = 2
\* A run ends.
CHECK_DEADLOCK FALSE
INVARIANTS
  PlanIsSettled
  CompletedActionsDelivered
  OverrunsAreExplained
PROPERTIES
  ActionEndsOnce
  RunsEnd
