SPECIFICATION FairSpec
CONSTANTS
  l1 = l1
  l2 = l2
  c1 = c1
  c2 = c2
  h1 = h1
  h2 = h2
  i1 = i1
  i2 = i2
  None = None
  Configs = {c1, c2}
  Lattices = {l1, l2}
  Lattice = l1
  InitLattice <- MCInitLattice
  Pods = {h1, h2}
  ConfigOf <- MCConfigOf
  InitIp <- MCInitIp
  Ips = {i1, i2}
  Ports = {1, 2, 3}
  Labels = {"zone"}
  Manifests <- MCManifests
  MaxUid = 2
  MaxChan = 1
  MaxDeploys = 2
  MaxPodSteps = 4
  MaxFailures = 1
INVARIANTS TypeOK AddressesHosted PortDeclared
PROPERTIES KeepsTraffic  SliceFollows
CHECK_DEADLOCK FALSE
