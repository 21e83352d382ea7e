\* Merges and workers that wait for one another all come to an end.
CONSTANTS
  h1 = h1
  h2 = h2
  h3 = h3
  u1 = u1
  u2 = u2
  None = None
  Merger = Merger
  Purger = Purger
  Hashes <- MCHashes
  Users <- MCUsers
  Messages <- MCTwoGroups
  IssueIds = {1, 2}
  Workers = {w1, w2}
  Maintainers <- MCMaintainers
  UserStatuses = {}
  MaxDeliveries = 2
  MaxTime = 1
SPECIFICATION ProgressSpec
\* the messages stored, the system rests
CHECK_DEADLOCK FALSE
PROPERTIES
  MaintenanceEnds
  EventuallySettled
