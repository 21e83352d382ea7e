\* Three requests of up to one event, one worker that may die once; the quota
\* is one event, the rate limit one request a minute of two ticks, and the key
\* changes once.
CONSTANTS
  Requests = {r1, r2, r3}
  Workers = {w1}
  None = None
  Minute = 2
  RateLimit = 1
  Quota = 1
  MaxItems = 1
  MaxFill = 1
  MaxTime = 3
  MaxToggles = 1
  MaxCrashes = 1
SPECIFICATION GateSpec
SYMMETRY MCSymmetry
\* every request answered, the system rests
CHECK_DEADLOCK FALSE
INVARIANTS
  KeyDecisionFresh
  LimitsBounded
  BilledWasStored
