SPECIFICATION FairSpec
CONSTANTS
  NR_CONSOLES = 1
  SCREEN_WIDTH = 3
  SCREEN_SIZE = 6
  V_MEM_LIMIT = 11
  DispPos <- BootLines
  TtyChars <- AllChars
  ScrollKeys = TRUE
  SysBurst = 1
  Watched <- NoCells
INVARIANTS
  CrtNotTorn
  NearHome
PROPERTY EveryCallReturns
