CONSTANTS
  Readers = {r1}
  Writers = {w1, w2}
  Nobody = Nobody
  NoValue = NoValue
  MaxMutations = 2
  MaxGenerations = 2
  SpareGenerations = 0
  MaxCrashes = 1
  DropsAwaitedTask = FALSE
SPECIFICATION Spec
SYMMETRY RequestSymmetry
INVARIANTS NoStaleHit CacheCoherent
CHECK_DEADLOCK FALSE
