CONSTANTS
  FS_MAX_FILE_SIZE = 5
  Chars = {"a"}
  Contents <- SomeContents
SPECIFICATION Spec
INVARIANTS CursorInText  TerminatorFits
PROPERTIES OneLineAtATime
