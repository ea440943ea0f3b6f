SPECIFICATION FairSpec
CONSTANTS
  c1 = c1  c2 = c2  c3 = c3  b1 = b1
  Calls = {c1, c2, c3}
  Backends = {b1}
  BackendOf <- MCBackendOf
  None = None
INVARIANTS
  OneProcessPerBackend
  OwnReply
  AnsweredTwiceOnlyAtExit
  UnsafeOnlyAfterExit
PROPERTIES
  CallEnds
\* Clients may stop calling, and the service may stop.
CHECK_DEADLOCK FALSE
