SPECIFICATION Spec
CONSTANTS
  c1 = c1
  c2 = c2
  n1 = n1
  n2 = n2
  a1 = a1
  t1 = t1
  t2 = t2
  NsOf <- MCTwoNamespaces
  Configs = {c1, c2}
  Namespaces = {n1, n2}
  Lattices = {l1, l2}
  Apps = {a1, a2}
  Ports = {p1}
  NoHttp = NoHttp
  None = None
  Tasks = {t1, t2}
  Foreign <- MCForeign
  MaxDeliver = 3
  MaxEvents = 1
  MaxUserOps = 2
  MaxPending = 0
  Disturbances = {"edit"}
  MaxDisturb = 1
  Calm = FALSE
INVARIANTS Justified
PROPERTIES MirrorsApplications
CHECK_DEADLOCK FALSE
