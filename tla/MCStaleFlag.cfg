\* A rule is created after the flag was filled.
CONSTANTS
  o1 = o1
  o2 = o2
  r1 = r1
  None = None
  Occurrences <- MCOccurrences
  Rules <- MCRules
  InScope <- MCInScope
  MaxRetries = 1
  Ttl = 1
  MaxFill = 0
  MaxTime = 2
  MaxChanges = 2
  MaxCrashes = 0
  MaxReplays = 0
  Workers = {w1}
SPECIFICATION AlertsSpec
CHECK_DEADLOCK FALSE
INVARIANT
  FlagFresh
