SPECIFICATION FairSpec
CONSTANTS
  Senders = {s1, s2}
  Slots = {k1}
  Names = {a, bad}
  ValidNames = {a}
  Values = {v1, v2}
  Unset = Unset
  Modes = {FALSE, TRUE}
  MaxCalls = 2
  MaxVanish = 1
INVARIANTS
  AckedIsVisible
PROPERTIES
  PresentAreKept
  AbsentAreRemoved
\* Senders may stop calling.
CHECK_DEADLOCK FALSE
