SPECIFICATION Spec
CONSTANTS
  Request = {r1, r2}
  Dm = {r1, r2}
  NoRequest = none
  Reports = {"levert"}
  MaxQueue = 1
  MaxCrashes = 1
SYMMETRY RequestSymmetry
INVARIANTS OnlyWhatWasHeard AnswersAreTrue
PROPERTIES ImplementsOutgoingMessage
CHECK_DEADLOCK FALSE
