CONSTANTS
  Word = 16
  Frequency = 2
  Second = 5
  Delays = {0, 3, 7, 8, 15}
  MaxElapsed = 12
  Counts = {0, 1, 2}
  KBD_SIZE = 2
SPECIFICATION FairSpec
PROPERTIES OnTime Wakes ReadReturns
