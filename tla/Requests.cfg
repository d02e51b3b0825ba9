SPECIFICATION SpecPart
CONSTANTS
  None = None
  first = first
  second = second
  Gateway = {first, second}
  Client = {c1}
  Arrivals <- ArrivingRows
  MaxPreviews = 2
  MaxSnapshot = 1
  MaxBatch = 1
  MaxRows = 2
  MaxHistory = 1
  MaxTokens = 2
  MaxPolicies = 1
  MaxSwitches = 1
  MaxSteps = 4
  Thread = {first, second}
  Operation = {o1, o2}
  Payload = {f1, f2}
  MaxResults = 1
  MaxCalls = 4
  MaxRestarts = 1
  Reader = {t1}
  Conversation = {a, b}
  Home = a
  MaxMessages = 2
  MaxSelects = 1
  MaxErrors = 1
  MaxWorkers = 3
INVARIANTS TypesOK ExecutedOnce OneAnswer
PROPERTIES OnlyWhatWasShown PolicyInForce RequestsEnd
CHECK_DEADLOCK FALSE
