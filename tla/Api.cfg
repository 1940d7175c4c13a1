SPECIFICATION FairSpec
CONSTANTS
  n1 = n1
  l1 = l1
  l2 = l2
  None = None
  Configs = {1, 2}
  Namespaces = {n1, n2}
  NsOf <- MCNsOf
  Lattices = {l1, l2}
  Apps = {a1}
  Creds = {v1, v2}
  Malformed = {v2}
  Requests = {1, 2}
  InitLattice <- MCInitLattice
  MaxRequests = 2
  MaxChanges = 1
  MaxFailures = 1
INVARIANTS TypeOK Routed ListedOnce  NotFoundLeavesNothing
PROPERTIES  NobodyStuck
CHECK_DEADLOCK FALSE
