SPECIFICATION SpecPart
CONSTANTS
  Action = {t1, p1, p2}
  Traceroute = {t1}
  NoAction = none
  MaxActions = 1
  MaxLinks = 2
  MaxRestarts = 1
  Losses = {"worker", "lost", "client"}
  StoreFails = {p1, p2}
  SlowSends = FALSE
INVARIANTS LogAgrees TimersArePending PositionCooldown
PROPERTIES EveryActionEnds FinalIsLast
CHECK_DEADLOCK FALSE
