----------------------------- MODULE MCRelease ------------------------------
(***************************************************************************)
(* Two checkouts of the shipped tree or of another: a policy file          *)
(* forgotten, not listed, or listed for a table of no tenant; and two that *)
(* the coverage check passes, one without the organizations.sql it lists,  *)
(* one later, which declares, stores and lists one more tenant's table as  *)
(* the check asks, and has no revision that creates it.                    *)
(***************************************************************************)
EXTENDS ReleasePlans

Tenant == ToSet(PolicyFiles) \ {"organizations"}
Files == ToSet(PolicyFiles)

Tree(disk, listed) == [tenant |-> Tenant, disk |-> disk, listed |-> listed]

Shipped == Tree(Files, PolicyFiles)
Forgotten == Tree(Files \ {"findings"}, PolicyFiles)
NotListed == Tree(Files, SelectSeq(PolicyFiles, LAMBDA f : f # "findings"))
Orphan == Tree(Files \cup {"users"}, Append(PolicyFiles, "users"))
NoOrganizations == Tree(Files \ {"organizations"}, PolicyFiles)
Later ==
  [tenant |-> Tenant \cup {"keywords"}, disk |-> Files \cup {"keywords"},
   listed |-> Append(PolicyFiles, "keywords")]

MCTrees == {Shipped, Forgotten, NotListed, Orphan, NoOrganizations, Later}
=============================================================================
