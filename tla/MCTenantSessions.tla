-------------------------- MODULE MCTenantSessions --------------------------
(***************************************************************************)
(* Instances of TenantSessions for TLC: two orgs, two users.               *)
(***************************************************************************)
EXTENDS TenantSessions, TLC

CONSTANTS acme, globex, ann, bob

Symmetry == Permutations(Tasks) \cup Permutations(Conns) \cup Permutations(Items)

\* ann runs acme and may look at globex; bob belongs to globex alone.
MCSeeds ==
  {[p \in {acme, globex} \X {ann, bob} |->
      CASE p = <<acme, ann>>   -> "admin"
        [] p = <<globex, ann>> -> "viewer"
        [] p = <<globex, bob>> -> "member"
        [] OTHER               -> NoRole]}

\* Ending a membership, and one grant.
MCOffered == {NoRole, "admin"}
NoOffer == {}

Request(o, u, need) ==
  [kind |-> "request", user |-> u, org |-> o, need |-> need, reasoned |-> TRUE]
Job(o, u) ==
  [kind |-> "job", user |-> u, org |-> o, need |-> "viewer", reasoned |-> TRUE]
Global(reasoned) ==
  [kind |-> "global", user |-> Unset, org |-> Unset, need |-> "viewer",
   reasoned |-> reasoned]
Probe ==
  [kind |-> "probe", user |-> Unset, org |-> Unset, need |-> "viewer",
   reasoned |-> TRUE]

AllAsks ==
  {Request(acme, ann, "member"), Request(globex, ann, "member"),
   Request(acme, bob, "viewer"), Request(acme, Unset, "viewer"),
   Job(globex, Unset), Job(Unset, Unset), Global(TRUE), Global(FALSE), Probe}

\* Tasks that write.
Workers == {Request(acme, ann, "member"), Job(globex, Unset)}

\* One ask for each way through the sessions.
FewAsks ==
  {Request(acme, ann, "member"), Request(acme, bob, "viewer"),
   Job(globex, Unset), Global(TRUE)}
=============================================================================
