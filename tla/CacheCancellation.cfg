CONSTANTS
  Readers = {r1}
  Writers = {w1}
  Nobody = Nobody
  NoValue = NoValue
  MaxMutations = 1
  MaxGenerations = 2
  SpareGenerations = 0
  MaxCrashes = 0
  DropsAwaitedTask = TRUE
SPECIFICATION Spec
INVARIANTS NoStaleHit
CHECK_DEADLOCK FALSE
