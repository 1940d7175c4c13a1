SPECIFICATION FairSpec
CONSTANTS
  s1 = s1
  v1 = v1
  v2 = v2
  v3 = v3
  None = None
  Configs = {c1}
  Secrets = {s1}
  Creds = {v1, v2, v3}
  Malformed = {v3}
  Specs <- MCSpecs
  Contents <- MCContents
  MaxUid = 2
  MaxUserOps = 2
  MaxFailures = 1
INVARIANTS TypeOK PrerequisitesFirst ReportedMeansProvisioned  CacheOwned SameCreds
PROPERTIES KeepsHosts Provisioned NothingLeft
CHECK_DEADLOCK FALSE
