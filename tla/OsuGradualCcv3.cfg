SPECIFICATION Spec
CONSTANTS
  None = None
  MaxTicks = 0
  MaxLen = 2
  Maps <- MCMaps
  PassedObjects = {9}
  MaxCall = 2
INVARIANT GradualEqualsPassed
