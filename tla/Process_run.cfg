CONSTANTS
  MAX_PROCESSES = 3
  SLICE = 2
  MaxPid = 3
SPECIFICATION Spec
INVARIANTS PidsDistinct PidsNameProcesses OneRunning CpuIsCurrent BoundedOvertaking
PROPERTY SlotNotStolen
CONSTRAINT UpToTheRace
CHECK_DEADLOCK FALSE
