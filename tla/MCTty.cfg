SPECIFICATION TtyFairSpec
CONSTANTS
  NR_CONSOLES = 2
  TTY_IN_BYTES = 2
  UserKey <- SomeKeys
  MaxKeys = 4
INVARIANTS
  EchoedInOrder
PROPERTY EveryKeyIsRead
