SPECIFICATION Spec
CONSTANTS
  BLOCKSIZE = 7
  FCBSIZE = 2
  Blocks = 10
  MAXOPENFILE = 3
  MAXTEXT = 10
  Name = {"d", "f.x", "g.x"}
  Split <- SomeSplit
  Lines <- SomeLines
  MaxLength = 12
INVARIANTS
  OneOwner
  ReadBack
  CopiesAgree
  RootIsUpToDate
  SecondFatLags
  RootIsFound
  OnTheWayUp
VIEW View
CHECK_DEADLOCK FALSE
