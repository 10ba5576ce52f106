CONSTANTS
  KBD_BUF_SIZE = 3
  MAX_LEN = 3
SPECIFICATION FairSpec
INVARIANTS LineFits
PROPERTIES ImplementsQueue  PendingKeyIsRead
