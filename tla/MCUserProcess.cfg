SPECIFICATION Spec
CONSTANTS
  NR_TASKS = 2
  NR_IRQ = 4
  GDT_SIZE = 8
  task_table <- Tasks
  STACK_SIZE_TOTAL = 5
  Junk = Junk
  NR_CONSOLES = 2
  WORD = 64
  HZ = 2
  SECOND = 3
  Delay <- Delays
  RADIX = 4
  DIGITS = 2
  SPEED = 3
  MAX_OVERRUN = 1
  FAULT_TICKS = 4
INVARIANTS
  StartsAsKernel
  ReadyToRun
  ConsoleBeforeWrite
  NeverEarly
  NeverLate
  PrintedInOrder
  ExceptionReported
