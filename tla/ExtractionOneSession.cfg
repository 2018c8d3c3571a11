\* One browser session: a crash or a failed transaction anywhere, retried at the next login.
SPECIFICATION FairSpec
CONSTANTS
  Sessions = {s1}
  MemoryTypes = {"memory.preference"}
  ProfileTypes = {"profile.major"}
  Values = {"remote", "physics"}
  Statements <- MCStatements
  Budget = 2
  Plain = plain
  Assistant = assistant
  MaxMessages = 3
  MaxFaults = 1
INVARIANTS
  StatementsArePendingOrExtracted
  CompletedRunsTile
PROPERTIES
  RequestsAreServed
  ImplementsInbox
  StatementsAreEventuallyExtracted
