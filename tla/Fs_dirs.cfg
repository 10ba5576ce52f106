CONSTANTS
  NClus = 3
  FS_MAX_FILES = 2
  DirSlots = 3
  SectorBytes = 2
  FS_MAX_FILE_SIZE = 3
  FS_MAX_PATH = 9
  Names = {x, y}
  NameLen <- TwoLetters
  Behind <- Leftovers
  Texts <- DirTexts
  Scope = {"dirs", "reboot"}
SPECIFICATION Spec
INVARIANTS ClustersOwnedOnce CwdPathAgrees NamesUnique Durable
PROPERTIES ImplementsTree
VIEW State
SYMMETRY SameNames
