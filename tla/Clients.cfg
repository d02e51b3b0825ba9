SPECIFICATION SpecPart
CONSTANTS
  None = None
  Home = a
  Other = b
  Mover = w3
  Process = {w1, w2, w3}
  Origin = {a, b, c}
  OriginOf <- Addresses
  Token = {t1, t2, t3, t4}
  Key = {k1, k2}
  MaxCredentials = 1
  MaxSessions = 2
  MaxPrevious = 2
  CodeAttempts = 2
  MaxRevocations = 3
  Publisher = {p1, p2}
  Watcher = {x1, x2}
  Reloading = {x1}
  QueueSize = 2
  MaxWatchers = 1
  MaxEvents = 4
  MaxOpens = 3
  Conversation = {public, dm}
  Public = public
  Direct = dm
  Message = {m}
  ConversationOf <- OneConversation
  PeerOf <- OnePeer
  Action = {trace}
  Text = {hello}
  MaxSelects = 2
  MaxRequests = 1
  MaxMishaps = 1
INVARIANTS TypesOK LoginsAreSafe NoSilentLoss SettledViewIsCurrent
PROPERTIES InOrder LateIsHarmless ClientsCatchUp
CHECK_DEADLOCK FALSE
