\* Two rows per transaction, one slot for both tasks, and nothing times out for them.
SPECIFICATION FairSpec
CONSTANTS
  acme = acme   globex = globex   ann = ann   bob = bob
  Orgs = {acme, globex}
  Users = {ann, bob}
  Unset = Unset  Empty = Empty  NoConn = NoConn
  Tasks = {t1, t2}
  Items = {work, cost}
  Conns = {c1}
  PoolSize = 1
  AfterLocal = Empty
  Offered <- NoOffer
  Asks <- FewAsks
  Seeds <- MCSeeds
  MaxFailovers = 1
INVARIANTS
  AllOrNothing
PROPERTIES
  Served
