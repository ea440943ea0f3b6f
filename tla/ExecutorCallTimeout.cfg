SPECIFICATION FairSpec
CONSTANTS
  Configs <- MCTimed
  Units = {"piece", "line"}
  PipeCap = 1
  Block = 2
  MaxOut = 3
  StdinLen = 2
  MayFork = FALSE
PROPERTY
  TimeoutFires
\* A call that was answered is over.
CHECK_DEADLOCK FALSE
