CONSTANTS
  Digests = {"first"}
  Uploads = {"first"}
  DigestOf <- MCDigestOf
  NoRecord = NoRecord
  MaxName = 5
  Retention = 2
  MaxCrashes = 2
  ClockStepsBack = FALSE
SPECIFICATION Spec
INVARIANTS BackupsUsable
PROPERTIES RestorePointsKept
CHECK_DEADLOCK FALSE
