CONSTANTS
  Readers = {r1}
  Writers = {w1}
  Nobody = Nobody
  NoValue = NoValue
  MaxMutations = 1
  MaxGenerations = 4
  SpareGenerations = 3
  MaxCrashes = 0
  DropsAwaitedTask = TRUE
SPECIFICATION FairSpec
PROPERTIES EveryRequestEnds
CHECK_DEADLOCK FALSE
