SPECIFICATION FairSpec
CONSTANTS
  Grips <- MCGrips
  Keys = {90, 37}
  Noise <- MCNoise
  QueueLen = 1
  PeriodFrames = 2
  BufferFrames = 2
INVARIANTS PadShowsTheClient NothingStaysHeld
PROPERTIES PeriodsWhole DevicesLetGo
CHECK_DEADLOCK FALSE
