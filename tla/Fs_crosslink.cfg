CONSTANTS
  NClus = 3
  FS_MAX_FILES = 2
  DirSlots = 4
  SectorBytes = 1
  FS_MAX_FILE_SIZE = 3
  FS_MAX_PATH = 9
  Names = {"x", "y"}
  NameLen <- TwoLetters
  Behind <- Leftovers
  Texts <- FaultTexts
  Scope = {"dirs", "full"}
SPECIFICATION Spec
INVARIANT NoSharedCluster
VIEW State
