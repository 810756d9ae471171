-------------------------- MODULE TenantIsolation --------------------------
(***************************************************************************)
(* What the tenancy layer promises, with no pool, settings or policies: a  *)
(* user is admitted to one org by a membership that exists at that moment, *)
(* a worker is entrusted with one org by its caller; from then on it sees  *)
(* rows of that org alone, and what it publishes appears at once, belongs  *)
(* to that org, and is the last thing it does.  The one reach beyond the   *)
(* org is that a user may end a membership of its own.                     *)
(***************************************************************************)
CONSTANTS Tasks, Orgs, Users, Items, Roles, NoRole, NoUser, Seeds

VARIABLES
  access,      \* what each task has been let into
  members,     \* committed memberships
  observed,    \* the orgs whose rows each task has seen
  published    \* committed rows

avars == <<access, members, observed, published>>

Outside == [phase |-> "outside"]
Over    == [phase |-> "over"]
Inside(o, u, x) == [phase |-> "inside", org |-> o, user |-> u, role |-> x]

AInit ==
  /\ access = [t \in Tasks |-> Outside]
  /\ members \in Seeds
  /\ observed = [t \in Tasks |-> {}]
  /\ published = {}

Admit(t) ==
  /\ access[t] = Outside
  /\ \E o \in Orgs, u \in Users :
       /\ members[<<o, u>>] # NoRole
       /\ access' = [access EXCEPT ![t] = Inside(o, u, members[<<o, u>>])]
  /\ UNCHANGED <<members, observed, published>>

Entrust(t) ==
  /\ access[t] = Outside
  /\ \E o \in Orgs, u \in Users \cup {NoUser} :
       access' = [access EXCEPT ![t] = Inside(o, u, NoRole)]
  /\ UNCHANGED <<members, observed, published>>

Observe(t) ==
  /\ access[t].phase = "inside"
  /\ observed' = [observed EXCEPT ![t] = @ \cup {access[t].org}]
  /\ UNCHANGED <<access, members, published>>

\* The membership changes a task inside an org may publish with its rows.
Edited(a, m) ==
  \/ m = members
  \/ \E p \in Orgs \X Users, x \in Roles \cup {NoRole} :
       /\ p[1] = a.org \/ (p[2] = a.user /\ x = NoRole)
       /\ m = [members EXCEPT ![p] = x]

Publish(t) ==
  /\ access[t].phase = "inside"
  /\ \E written \in SUBSET [org : {access[t].org}, by : {t}, item : Items] :
       published' = published \cup written
  /\ Edited(access[t], members')
  /\ access' = [access EXCEPT ![t] = Over]
  /\ UNCHANGED observed

Depart(t) ==
  /\ access[t] # Over
  /\ access' = [access EXCEPT ![t] = Over]
  /\ UNCHANGED <<members, observed, published>>

ANext == \E t \in Tasks : \/ Admit(t) \/ Entrust(t) \/ Observe(t)
                          \/ Publish(t) \/ Depart(t)

ASpec == AInit /\ [][ANext]_avars
=============================================================================
