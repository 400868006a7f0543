SPECIFICATION Spec
CONSTANTS
  None = None
  MaxTicks = 1
  Plays <- MCAccuracies
INVARIANT AccuracyUsed
