SPECIFICATION FairSpec
CONSTANTS
  c1 = c1
  c2 = c2
  n1 = n1
  n2 = n2
  a1 = a1
  t1 = t1
  t2 = t2
  NsOf <- MCOneNamespace
  Configs = {c1}
  Namespaces = {n1}
  Lattices = {l1}
  Apps = {a1}
  Ports = {p1}
  NoHttp = NoHttp
  None = None
  Tasks = {t1}
  Foreign = {}
  MaxDeliver = 3
  MaxEvents = 2
  MaxUserOps = 1
  MaxPending = 0
  Disturbances = {}
  MaxDisturb = 0
  Calm = FALSE
PROPERTIES UndeployedRemoved
CHECK_DEADLOCK FALSE
