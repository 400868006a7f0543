SPECIFICATION Spec
CONSTANTS
  None = None
  MaxTicks = 1
  Plays <- MCPlays
INVARIANTS TypeOK ComboFits BestIsBetter AskedIsKept
PROPERTIES HitsAddUp Settled ClosestAccuracy
