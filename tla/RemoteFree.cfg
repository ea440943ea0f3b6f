SPECIFICATION Spec
CONSTANTS
  c1 = c1  c2 = c2  c3 = c3  d1 = d1  d2 = d2  n1 = n1  bad = bad
  Connects = {c1, c2, c3}
  Disconnects = {d1, d2}
  Names = {n1, bad}
  ValidNames = {n1}
  NameOf <- MCNameOf
  TargetOf <- MCTargetOf
  None = None
INVARIANT
  FreedOnce
\* Clients may stop calling.
CHECK_DEADLOCK FALSE
