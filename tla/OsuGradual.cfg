SPECIFICATION Spec
CONSTANTS
  None = None
  MaxTicks = 2
  MaxLen = 3
  Maps <- MCMaps
  PassedObjects = {0, 2, 9}
  MaxCall = 4
INVARIANTS TypeOK Prefix
PROPERTY KeepsContract
