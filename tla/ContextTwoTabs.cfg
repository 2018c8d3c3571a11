\* Two tabs ask in a conversation that is long enough for each of them to summarise it.
SPECIFICATION FairSpec
CONSTANTS
  role = role
  skills = skills
  goal = goal
  a = a
  b = b
  taking = taking
  adding = adding
  plain = plain
  semantic = semantic
  older = older
  t1 = t1
  t2 = t2
  Tabs = {t1, t2}
  Texts = {plain}
  Memories = {}
  Legacy = {}
  Opening <- MCOpening
  MaxMessages = 10
  MaxSaves = 0
  Topics = {role, skills, goal}
  Fields = {role, skills}
  Scalars = {role}
  Words = {a, b}
  Says <- MCSays
  KindOf <- MCKindOf
  Saves <- MCOneSave
  Fits = 2
  CardLimit = 3
  SourceLimit = 2
  MaxToolTurns = 1
\* The messages of the bound may all have been written.
CHECK_DEADLOCK FALSE
INVARIANT
  NothingSkipped
PROPERTY
  TurnEnds
