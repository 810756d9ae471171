-------------------------- MODULE MCEvidenceLedger --------------------------
(***************************************************************************)
(* Transactions over one site that has nothing yet, a snapshot with        *)
(* evidence, a finding, or a finding with an earlier version.              *)
(***************************************************************************)
EXTENDS EvidenceLedger

CONSTANTS s1, t1, t2, h1

SiteRows == {[table |-> "sites", id |-> s] : s \in Sites}

Finding(id, sup, open) ==
  [table |-> "findings", id |-> id, site_id |-> s1, identity_hash |-> h1,
   supersedes_id |-> sup, current |-> open]

Snapshot(id) == [table |-> "page_snapshots", id |-> id, site_id |-> s1]

Single == {Finding(1, NULL, TRUE)}

Observed ==
  {Snapshot(1), [table |-> "evidence", id |-> 2, snapshot_id |-> 1]}

Superseded == {Finding(1, NULL, FALSE), Finding(2, 1, TRUE)}

Seed(R) == [rows |-> SiteRows \cup R, lastId |-> Cardinality(R)]

MCSeeds == {Seed({}), Seed(Observed), Seed(Single), Seed(Superseded)}
=============================================================================
