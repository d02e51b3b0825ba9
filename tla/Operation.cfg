SPECIFICATION SpecPart
CONSTANTS
  None = None
  NoDaemon = NoDaemon
  Contact = {c1, c2}
  Selections = {{c1, c2}}
  Batch = {b1, b2}
  MaxLinks = 2
  MaxHears = 1
  Daemon = {d1, d2, d3}
  Client = {x1}
  Overlap = FALSE
  StopAtOnce = FALSE
  MaxRequests = 2
  Version = {1, 2, 3}
  Channel = {stable, beta}
  Stable = stable
  SchemaOf <- OneSchema
  Damaged = Damaged
  Partial = Partial
INVARIANTS TypesOK RemovalIsOrderly OneDaemon InstallationIsWhole
PROPERTIES ReportsAreTrue OperationsEnd
CHECK_DEADLOCK FALSE
