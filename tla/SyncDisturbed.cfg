SPECIFICATION Spec
CONSTANTS
  c1 = c1
  c2 = c2
  n1 = n1
  n2 = n2
  a1 = a1
  t1 = t1
  t2 = t2
  NsOf <- MCTwoNamespaces
  Configs = {c1, c2}
  Namespaces = {n1, n2}
  Lattices = {l1}
  Apps = {a1}
  Ports = {p1}
  NoHttp = NoHttp
  None = None
  Tasks = {t1, t2}
  Foreign = {}
  MaxDeliver = 3
  MaxEvents = 2
  MaxUserOps = 3
  MaxPending = 0
  Disturbances = {"late", "kubeError", "taskEnds", "restart"}
  MaxDisturb = 1
  Calm = FALSE
SYMMETRY MCSymTwoNamespaces
INVARIANTS TypeOK WatcherNeeded
PROPERTIES MirrorsApplications
CHECK_DEADLOCK FALSE
