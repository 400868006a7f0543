SPECIFICATION Spec
CONSTANTS
  None = None
  MaxCall = 4
  USizeSpan = 16
  MaxTicks = 1
  Mantissa = 7
  FractionBits = 8
  TickLen = 5
  OsuLen = 0
  TaikoLen = 0
  CatchLen = 0
  ManiaLen = 2
  Spacing = 300
  Start = 4
  Offset = 0
  Durations = {0, 3, 5, 15}
  OsuMaps <- MCOsuMaps
  TaikoMaps <- MCTaikoMaps
  CatchMaps <- MCCatchMaps
  ManiaMaps <- MCManiaMaps
  ClockRates <- CustomRates
  PassedObjects = {0, 2, 9}
  Scores <- MCScores
INVARIANT GradualEqualsPassed
