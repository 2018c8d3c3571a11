\* One tab runs the onboarding, another one stores and deletes documents.
SPECIFICATION FairSpec
CONSTANTS
  Sessions = {s1, s2}
  Tabs = {s1}
  Shelves = {s2}
  Docs = {d1, d2}
  NoDoc = NoDoc
  Required = {year}
  Year = year
  MaxFiles = 2
  MaxFaults = 2
  MaxRuns = 2
  MaxEdits = 1
\* The documents and analyses of the bound may be used up.
CHECK_DEADLOCK FALSE
INVARIANTS
  TypeOK
  SourcesAreKept
  FactsAreSourced
  PageIsCurrent
PROPERTIES
  SavedAsConfirmed
  CallEnds
