\* A KEK rotation beside processes that come and go, reconnect and restart.
SPECIFICATION Spec
CONSTANTS
  api = api
  worker = worker
  k1 = k1
  k2 = k2
  bad = bad
  none = none
  Process = {api, worker}
  Api = {api}
  Kek = {k1, k2, bad}
  Malformed = {bad}
  KekId = {"kek1", "kek2", "kek3"}
  IdOf <- MCIdOf
  Environments <- MCEnvironments
  Absent = none
  NotLoaded = NotLoaded
  PublicSuffix <- MCPublicSuffix
  Cred = {c1, c2}
  Secret = {1, 2}
  Empty = 0
  Job = {j1, j2}
  MaxChanges = 2
  MaxFaults = 1
CHECK_DEADLOCK FALSE
INVARIANTS
  TypeOK
  OwnSecretOnly
  NothingStranded
  SameGenerationOpens
  EvidenceNotASubdomain
PROPERTIES
  RotationCompletes
