SPECIFICATION Spec
CONSTANTS
  Files <- MCFiles
  Texts <- MCTexts
  Epsilon = 2
  None = None
  NaN = NaN
  Bad = Bad
  MaxTandem = 4
  MaxLegacy = 6
  MaxNested = 6
  MaxLines = 3
  QuickSortDepthThreshold = 2
  IntroSortSizeThreshold = 4
  TopBit = 16
INVARIANT InTimeOrder
INVARIANT SoundsFollow
INVARIANT NeverPanics
INVARIANT LookupsFollowLines
INVARIANT BpmIsMostCommon
INVARIANT PathsAreWhole
INVARIANT ApproachRateFallsBack
PROPERTY Terminates
CHECK_DEADLOCK FALSE
