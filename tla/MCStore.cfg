\* Two workers, two events of one user in one group, each delivered at most twice.
CONSTANTS
  h1 = h1
  h2 = h2
  u1 = u1
  u2 = u2
  None = None
  Hashes <- MCHashes
  Users <- MCUsers
  Messages <- MCPair
  IssueIds = {i1, i2}
  Workers = {w1, w2}
  Maintainers = {}
  UserStatuses = {"resolved", "ignored"}
  MaxDeliveries = 2
  MaxTime = 1
SPECIFICATION Spec
SYMMETRY MCSymmetric
\* a killed process takes its message with it; with no issue, nothing is left to do
CHECK_DEADLOCK FALSE
INVARIANTS
  StoreInv
  CountersExact
  ResolvedMeansQuiet
  NoDuplicateSignal
PROPERTIES
  RefinesTracker
