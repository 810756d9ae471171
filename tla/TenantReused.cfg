\* Settings that read empty after a transaction, as PostgreSQL leaves them.
SPECIFICATION Spec
CONSTANTS
  acme = acme   globex = globex   ann = ann   bob = bob
  Orgs = {acme, globex}
  Users = {ann, bob}
  Unset = Unset  Empty = Empty  NoConn = NoConn
  Tasks = {t1, t2}
  Items = {work}
  Conns = {c1}
  PoolSize = 1
  AfterLocal = Empty
  Offered <- NoOffer
  Asks <- AllAsks
  Seeds <- MCSeeds
  MaxFailovers = 1
SYMMETRY Symmetry
INVARIANTS
  UnboundReadsEmpty
