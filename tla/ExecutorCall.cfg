SPECIFICATION CooperativeSpec
CONSTANTS
  Configs <- MCAll
  Units = {"piece", "line", "bad"}
  PipeCap = 1
  Block = 2
  MaxOut = 3
  StdinLen = 2
  MayFork = TRUE
INVARIANTS
  TypeOK
  NoUseAfterFree
  CompleteOutput
  LimitRespected
PROPERTY
  AnswerArrives
\* A call that was answered is over.
CHECK_DEADLOCK FALSE
