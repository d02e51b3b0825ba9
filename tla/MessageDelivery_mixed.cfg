SPECIFICATION Spec
CONSTANTS
  Request = {dm1, public1}
  Dm = {dm1}
  NoRequest = none
  Reports = {"feila", "levert"}
  MaxQueue = 1
  MaxCrashes = 0
PROPERTIES ImplementsOutgoingMessage
CHECK_DEADLOCK FALSE
