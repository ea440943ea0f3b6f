SPECIFICATION Spec
CONSTANTS
  Calls = {"a1", "a2"}
  ObjectOf <- MCObjectOf
  Root = "-"
  UserLists <- MCUserLists
  Strangers = {"", "nobody"}
  Passwords = {"good", "bad", "wide"}
  Right = "good"
  Commas = {"comma"}
  Wide = {"wide"}
  MaxTalk = 2
INVARIANTS
  PasswordArrives
  PasswordForgotten
PROPERTIES
  AuthenticationEnds
\* Clients may stop calling, and the service and the agent may wait for each
\* other.
CHECK_DEADLOCK FALSE
