CONSTANTS
  NClus = 2
  FS_MAX_FILES = 2
  DirSlots = 3
  SectorBytes = 1
  FS_MAX_FILE_SIZE = 2
  FS_MAX_PATH = 9
  Names = {x, y}
  NameLen <- TwoLetters
  Behind <- Leftovers
  Texts <- FaultTexts
  Scope = {"dirs", "full", "crash", "read", "data", "fat", "dir"}
SPECIFICATION Spec
CONSTRAINT FromOrder
PROPERTY OnePathAtRisk
VIEW State
SYMMETRY SameNames
