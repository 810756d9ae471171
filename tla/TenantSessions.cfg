\* Safety: two tasks over one pooled connection and one of overflow.
SPECIFICATION Spec
CONSTANTS
  acme = acme   globex = globex   ann = ann   bob = bob
  Orgs = {acme, globex}
  Users = {ann, bob}
  Unset = Unset  Empty = Empty  NoConn = NoConn
  Tasks = {t1, t2}
  Items = {work}
  Conns = {c1, c2}
  PoolSize = 1
  AfterLocal = Empty
  Offered <- MCOffered
  Asks <- AllAsks
  Seeds <- MCSeeds
  MaxFailovers = 1
SYMMETRY Symmetry
INVARIANTS
  TypeOK
  PoolConsistent
  NoBindingLeaks
  RequestsAreMembers
  RefusalsAreTrue
  OnlyOwnTenantRows
  RowsStayInOrg
PROPERTIES
  MembershipsScoped
  KeepsIsolation
