CONSTANTS
  Width = 2
  Height = 2
  Moves = {1, 255}
  Leftovers = 1
  WinX = 0
  WinY = 0
  WinW = 1
  WinH = 1
  WIN_TITLE_H = 1
  GUI_BAR_H = 1
SPECIFICATION FairSpec
INVARIANTS OnScreen PacketsInStep PollIsFresh DragIsHeld
PROPERTY InitEnds
CHECK_DEADLOCK FALSE
