SPECIFICATION FairSpec
CONSTANTS
  NR_TASKS = 3
  Priority <- ThreePriorities
  WORD = 8
  TICK_WORD = 2
  MAX_OVERRUN = 1
  MAX_WRITE = 1
INVARIANTS
  ReenterCountsNesting
  MaskedIffInService
  NoSwitchInsideKernel
  ContextIntact
  NoSpuriousDispatch
PROPERTIES
  ImplementsFairShare
  EveryoneRuns
  SyscallReturns
