SPECIFICATION FairSpec
CONSTANTS
  c1 = c1  c2 = c2  c3 = c3
  m1 = m1  m2 = m2  i1 = i1
  Calls = {c1, c2, c3}
  ManagerCalls = {g1}
  Methods = {m1, m2}
  Interfaces = {i1}
  MethodOf <- MCMethodOf
  InterfaceOf <- MCInterfaceOf
  MethodLimit <- MCMethodLimit
  InterfaceLimit <- MCInterfaceLimit
  MaxChanges = 1
INVARIANTS
  TypeOK
  CounterAccuracy
  ThreadLimitRespected
PROPERTIES
  QuitOnlyWhenIdle
  AcceptedCallsSurvive
  ServiceKept
  RejectionJustified
  EveryCallEnds
  ChangeStopsService
\* Clients may stop calling: the service then idles.
CHECK_DEADLOCK FALSE
