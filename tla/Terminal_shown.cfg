SPECIFICATION FairSpec
CONSTANTS
  public = public
  dm = dm
  m = m
  trace = trace
  Conversation = {public, dm}
  Public = public
  Message = {m}
  ConversationOf <- Conversations
  Text = {hello}
  Action = {trace}
  PeerOf <- Peers
  None = None
  MaxSelects = 2
  MaxRequests = 1
  MaxMishaps = 0

PROPERTIES NewMessagesAreShown
CHECK_DEADLOCK FALSE
