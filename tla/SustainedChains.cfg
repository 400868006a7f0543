SPECIFICATION Spec
CONSTANTS
  Times <- MCTimes
  NearColour = 300
  SlowDelta = 210
  MaxInterval = 3
  EvenLen = 10
  EvenGap = 160
  MixedLen = 5
  Gaps = {0, 100, 200, 300, 900}
  Starts = {0, 100}
  OsuMaps <- MCOsuMaps
  CatchMaps <- MCCatchMaps
  ManiaMaps <- MCManiaMaps
  Takes = {0, 3, 99}
  SectionMapLen = 4
  SectionGaps = {0, 300, 900}
  ChainMapLen = 5
  ChainGaps = {45, 100, 900}
  CatchSectionLen = 750
  Levels = {1, 2}
  PeaksPerMinute = 2
  MaxMisses = 3
  TopShare = 2
  ChainMin = 3
  UrThreshold = 50
  ChunkLen = 2
  Unit = 900
  SectionLen = 400
  None = None
INVARIANT ChainsAreFound
CHECK_DEADLOCK FALSE
