SPECIFICATION FairSpec
CONSTANTS
  s1 = s1
  v1 = v1
  v2 = v2
  v3 = v3
  None = None
  Configs = {c1}
  Secrets = {s1}
  Creds = {v1, v2, v3}
  Malformed = {}
  Specs <- MCSpecsSwitch
  Contents <- MCContents
  MaxUid = 1
  MaxUserOps = 1
  MaxFailures = 0
PROPERTIES InsteadOfDeployment
CHECK_DEADLOCK FALSE
