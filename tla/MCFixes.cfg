\* Two triggers, one of them presses of the page's button; two workers; tasks
\* delivered up to twice; one call of the page fails.
CONSTANTS
  t1 = t1
  t2 = t2
  w1 = w1
  w2 = w2
  None = None
  Triggers <- MCTriggers
  Clicks <- MCClicks
  Workers <- MCWorkers
  MaxDeliveries = 2
  MaxLost = 1
SPECIFICATION MCSpec
\* every run ended, the system rests
CHECK_DEADLOCK FALSE
INVARIANTS
  BlockedMeansWork
  SerialFixes
  StateSettles
PROPERTIES
  FixEnds
  PageFollows
