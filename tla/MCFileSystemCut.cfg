SPECIFICATION Spec
CONSTANTS
  BLOCKSIZE = 7
  FCBSIZE = 2
  Blocks = 10
  MAXOPENFILE = 3
  MAXTEXT = 12
  Name = {"d", "f.x"}
  Split <- SomeSplit
  Lines <- SomeLines
  MaxLength = 8
INVARIANT
  FcbStateTells
VIEW View
CHECK_DEADLOCK FALSE
