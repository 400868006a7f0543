SPECIFICATION Spec
CONSTANTS
  N = 3
  Values = {1, 2, 3}
  Default = 0
  MaxNth = 3
  Strains = {0, 1, 3, 8}
  ReducedCount = 2
  MaxLen = 5
  Takes = {0, 1, 2, 9}
  MaxTiny = 1
  MaxCalls = 6
  None = None
INVARIANTS HoldsWindow LenNeverShort CountsAgree
PROPERTIES IsSlidingWindow IsRawStrains
CHECK_DEADLOCK FALSE
