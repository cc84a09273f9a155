SPECIFICATION FairSpec
CONSTANTS
  NR_CONSOLES = 2
  SCREEN_WIDTH = 2
  SCREEN_SIZE = 4
  V_MEM_LIMIT = 7
  DispPos <- BootLines
  TtyChars <- AllChars
  ScrollKeys = FALSE
  SysBurst = 0
  Watched <- SomeCells
INVARIANTS
  StoresAtHome
  CrtInSync
  CursorAtEnd
