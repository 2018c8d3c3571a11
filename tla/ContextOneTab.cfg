\* One tab asks while the profile is saved and memories are approved and retired.
SPECIFICATION Spec
CONSTANTS
  role = role
  skills = skills
  goal = goal
  a = a
  b = b
  taking = taking
  adding = adding
  plain = plain
  semantic = semantic
  older = older
  t1 = t1
  t2 = t2
  Tabs = {t1}
  Texts = {taking, adding}
  Memories = {older, semantic}
  Legacy = {older}
  Opening <- MCNothing
  MaxMessages = 6
  MaxSaves = 2
  Topics = {role, skills, goal}
  Fields = {role, skills}
  Scalars = {role}
  Words = {a, b}
  Says <- MCSays
  KindOf <- MCKindOf
  Saves <- MCSaves
  Fits = 2
  CardLimit = 3
  SourceLimit = 2
  MaxToolTurns = 1
\* The messages of the bound may all have been written.
CHECK_DEADLOCK FALSE
INVARIANTS
  TypeOK
  FailsOnlyByRetirement
PROPERTY
  OverlayIsReplay
