---------------------------- MODULE RowPolicies ----------------------------
(***************************************************************************)
(* The row-level security policies of db/policies/ as predicates over the  *)
(* settings a connection carries.  A setting is the text PostgreSQL keeps  *)
(* for neptiq.org_id or neptiq.user_id on one connection: an identifier,   *)
(* Unset (never defined on this connection) or Empty (the zero-length      *)
(* string).  Every policy compares a column with                           *)
(* current_setting(name, true)::uuid, so the three cases differ:           *)
(*   identifier   the comparison is an ordinary one;                       *)
(*   Unset        the cast yields NULL and the comparison is not true;     *)
(*   Empty        the cast raises and the statement fails.                 *)
(***************************************************************************)

CONSTANTS
  Orgs,     \* organizations.id
  Users,    \* users.id
  Unset,    \* a setting that was never defined; also an absent identifier
  Empty     \* the zero-length setting

ASSUME SettingAssumption ==
  /\ Unset # Empty
  /\ Unset \notin Orgs \cup Users
  /\ Empty \notin Orgs \cup Users

Settings == [org : Orgs \cup {Unset, Empty}, user : Users \cup {Unset, Empty}]

\* The settings of a connection that has just been opened.
Unbound == [org |-> Unset, user |-> Unset]

(***************************************************************************)
(* Eight of the nine tenant tables compare org_id alone.  memberships also *)
(* grants the rows of the bound user, in USING but not in WITH CHECK.      *)
(***************************************************************************)
TenantUsingOpenWhenUnset(s, o) == s.org = o \/ s.org = Unset

TenantUsing(s, o) == s.org = o

TenantCheckMissing(s, o) == TRUE

TenantCheck(s, o) == s.org = o

TenantRaises(s) == s.org = Empty

MembershipUsing(s, o, u) == s.org = o \/ s.user = u

MembershipCheckAsUsing(s, o, u) == MembershipUsing(s, o, u)

MembershipCheck(s, o, u) == s.org = o

MembershipRaises(s) == Empty \in {s.org, s.user}

(***************************************************************************)
(* organizations: the bound org, or an org one of whose membership rows    *)
(* belongs to the bound user; that inner read passes through the policy on *)
(* memberships.  members is the set of <<org, user>> pairs that exist.     *)
(***************************************************************************)
OrganizationUsing(s, o, members) ==
  \/ s.org = o
  \/ \E u \in Users : /\ <<o, u>> \in members
                      /\ s.user = u
                      /\ MembershipUsing(s, o, u)
=============================================================================
