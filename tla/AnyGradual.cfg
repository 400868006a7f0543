SPECIFICATION FairSpec
CONSTANTS
  None = None
  MaxCall = 5
  USizeSpan = 16
  MaxTicks = 1
  Mantissa = 7
  FractionBits = 8
  TickLen = 5
  OsuLen = 2
  TaikoLen = 6
  CatchLen = 3
  ManiaLen = 3
  Spacing = 300
  Start = 11
  Offset = 1
  Durations = {0, 3, 5, 15}
  OsuMaps <- MCOsuMaps
  TaikoMaps <- MCTaikoMaps
  CatchMaps <- MCCatchMaps
  ManiaMaps <- MCManiaMaps
  ClockRates <- ModRates
  PassedObjects = {0, 2, 9}
  Scores <- MCScores
INVARIANTS Fed CountsLineUp OnlyOddMapsPanic DrainedIsWhole StepIsOneShot
PROPERTIES KeepsContract LenForetells Drains
