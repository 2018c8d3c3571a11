\* Two calls at a time index, search and retrieve, and a backfill runs beside them.
SPECIFICATION Spec
SYMMETRY Symmetry
CONSTANTS
  w1 = w1
  w2 = w2
  entry = entry
  job = job
  other = other
  earlier = earlier
  later = later
  brief = brief
  full = full
  huge = huge
  a = a
  b = b
  c = c
  Workers = {w1, w2}
  Sources = {entry, job, other}
  Versions = {earlier, later}
  Sessions = {later}
  Entries <- MCEntries
  Texts = {brief, full, huge}
  Chunks = {a, b, c}
  ChunksOf <- MCChunksOf
  Oversized = {c}
  HalvesOf <- MCHalvesOf
  ByWords <- MCByWords
  ByVector <- MCByVector
  Batches <- MCBatches
  K = 60
  Limit = 4
  TopK = 2
  MaxCalls = 3
  MaxFailures = 1
\* The calls of the bound may all have been made.
CHECK_DEADLOCK FALSE
INVARIANTS
  TypeOK
  SourceIsWhole
  OwnRowsRetrieved
  FairFusion
PROPERTY
  VectorsStay
