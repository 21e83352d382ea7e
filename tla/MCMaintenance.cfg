\* Merges and purges race two workers that store events of two groups.
CONSTANTS
  h1 = h1
  h2 = h2
  h3 = h3
  u1 = u1
  u2 = u2
  None = None
  Merger = Merger
  Purger = Purger
  Hashes <- MCHashes
  Users <- MCUsers
  Messages <- MCTwoGroups
  IssueIds = {i1, i2, i3}
  Workers = {w1, w2}
  Maintainers <- MCMaintainers
  UserStatuses = {}
  MaxDeliveries = 1
  MaxTime = 1
SPECIFICATION MaintSpec
SYMMETRY Symmetric
\* the last id used up, an event that needs a new issue waits for ever
CHECK_DEADLOCK FALSE
INVARIANTS
  HashAgrees
  ExactAlone
