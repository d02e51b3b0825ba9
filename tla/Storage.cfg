SPECIFICATION SpecPart
CONSTANTS
  None = None
  Gateway = {g1, g2}
  Unscoped = Unscoped
  NoFile = NoFile
  MaxRows = 3
  MaxCrashes = 2
  LateLegacy = FALSE
  Message = {sent, gotten}
  Out = {sent}
  Observation = {o1, o2}
  MessageOf <- TwoReceptions
  Received = gotten
  Direct = {sent}
  Alike = {o1, o2}
  Sample = {sample}
  Action = {action}
  PacketsOf <- OneRequest
  ConversationMark = {mark}
  Nameless = {node}
  MaxFailures = 1
  Peer = {n}
  Packet = {m1, m2, m3}
  PartyOf <- Parties
  Node = n
  Public = m3
  Second = m2
  ChannelOf <- TwoChannels
  Transport = {rf, mqtt}
  MaxHears = 3
  MaxCloses = 1
  MaxClears = 1
  MaxReconnects = 1
INVARIANTS TypesOK SplitIsSafe MigrationIsSafe ConversationsAreKept
PROPERTIES StorageSettles
CHECK_DEADLOCK FALSE
