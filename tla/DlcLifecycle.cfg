CONSTANTS
  DlcOrder <- MCOrder
  Engines = {1, 2}
  Catalog <- MCCatalog
  Requirements <- MCRequirements
  RuntimeRequired = {}
  Processes = {"p"}
  MaxHistory = 4
  MaxFaults = 2
  Missing = Missing
SPECIFICATION Spec
INVARIANTS Recoverable LockFaithful
PROPERTIES StateCarried
