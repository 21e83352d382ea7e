\* Merging two sources that a user has in common.
CONSTANTS
  h1 = h1
  h2 = h2
  h3 = h3
  u1 = u1
  u2 = u2
  None = None
  Merger = Merger
  Purger = Purger
  Hashes <- MCThreeHashes
  Users <- MCUsers
  Messages <- MCThreeGroups
  IssueIds = {i1, i2, i3}
  Workers = {w1}
  Maintainers <- MCMaintainers
  UserStatuses = {}
  MaxDeliveries = 1
  MaxTime = 0
SPECIFICATION MaintSpec
SYMMETRY Symmetric
\* a killed process takes its message with it
CHECK_DEADLOCK FALSE
INVARIANTS
  NoMergeError
