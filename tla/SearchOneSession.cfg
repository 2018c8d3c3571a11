\* One session: a job or a people search, for a judge or not, with and without discovery.
SPECIFICATION Spec
CONSTANTS
  board = board
  shut = shut
  careers = careers
  openalex = openalex
  wikidata = wikidata
  good = good
  fair = fair
  bad = bad
  web = web
  sample = sample
  Catalog <- MCCatalog
  Registers <- MCRegisters
  Closed = {shut}
  Boards = {board}
  Candidates = {good, fair, bad, web}
  Offers <- MCOffers
  Web = {web, bad}
  Verdict <- MCVerdict
  Connections = {fair}
  Official = {good, sample}
  Samples <- MCSamples
  Budget = 6
  PerIteration = 3
  Shortlist = 3
  Shown = 2
  PageSize = 1
  Requested = 2
  Useful = 2
  MaxSearches = 4
  MaxFailures = 2
\* The searches of the bound may be used up before there is a page to turn.
CHECK_DEADLOCK FALSE
INVARIANTS
  TypeOK
  CallsAreReserved
  WalkShowsAll
PROPERTIES
  SearchProgresses
  SavesTheBest
