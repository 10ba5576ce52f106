CONSTANTS
  Cols = 3
  Rows = 2
  BandOf = 2
  ExtraOf = 1
  TabStop = 2
  Glyphs = {"a"}
  LineMax = 5
  BackBuffers = {7, 15}
  PaperRows = 3
SPECIFICATION ConsoleSpec
INVARIANTS ShowsPaper EchoesLine
