CONSTANTS
  Sectors = 3
  MaxCount = 2
  Values = {0, 1}
SPECIFICATION FairSpec
INVARIANT ZeroMeansDone
PROPERTIES WriteIsPrefix Returns
CHECK_DEADLOCK FALSE
