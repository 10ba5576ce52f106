CONSTANTS
  FS_MAX_FILE_SIZE = 15
  SCRIPT_LINE_MAX = 4
  Scripts <- AllScripts
  Data <- SomeData
  STACK_MAX = 3
  WordSize = 16
  Numbers <- NumbersTyped
  HISTORY_MAX = 2
  Lines <- SomeLines
  MaxLines = 4
  MaxBefore = 1
SPECIFICATION Spec
INVARIANTS UndisturbedInOrder HistoryIsRecent
PROPERTIES Advances StackDiscipline
CHECK_DEADLOCK FALSE
