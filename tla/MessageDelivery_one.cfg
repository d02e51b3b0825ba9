SPECIFICATION FairSpec
CONSTANTS
  Request = {r1}
  Dm = {r1}
  NoRequest = none
  Reports = {"ACK", "feila", "levert"}
  MaxQueue = 2
  MaxCrashes = 1
INVARIANTS ReportsReachTheRow NoEchoBesideRequest
PROPERTIES SendReturns
CHECK_DEADLOCK FALSE
