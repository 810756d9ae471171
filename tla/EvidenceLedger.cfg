\* Two transactions of two statements from each kind of ledger.
SPECIFICATION FairSpec
CONSTANTS
  s1 = s1  t1 = t1  t2 = t2  h1 = h1
  NULL = NULL
  Sites = {s1}
  Hashes = {h1}
  Txs = {t1, t2}
  MaxId = 3
  MaxStatements = 2
  Seeds <- MCSeeds
INVARIANTS
  TypeOK
  AtMostOneCurrent
  Traceable
PROPERTIES
  ObservationsStay
  StatementsReturn
CHECK_DEADLOCK FALSE
