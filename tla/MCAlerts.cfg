\* Two occurrences in two projects, a rule of one of them that changes twice,
\* one worker that dies once, one replay.
CONSTANTS
  o1 = o1
  o2 = o2
  r1 = r1
  None = None
  Occurrences <- MCOccurrences
  Rules <- MCRules
  InScope <- MCInScope
  MaxRetries = 1
  Ttl = 1
  MaxFill = 1
  MaxTime = 2
  MaxChanges = 2
  MaxCrashes = 1
  MaxReplays = 1
  Workers = {w1}
SPECIFICATION AlertsSpec
\* every alert dealt with, the system rests
CHECK_DEADLOCK FALSE
INVARIANTS
  HonouredSoon
  NoSilentLoss
  LogTruthful
