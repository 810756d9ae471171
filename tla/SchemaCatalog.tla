--------------------------- MODULE SchemaCatalog ----------------------------
(***************************************************************************)
(* The revisions of db/migrations as sequences of statements.              *)
(*                                                                         *)
(* The schema of a database is a set of facts.  A statement names the      *)
(* objects it locks until its transaction ends, the facts it needs and the *)
(* facts that must not hold yet, and what it adds and drops; columns and   *)
(* constraints other than foreign keys are left out.                       *)
(***************************************************************************)
EXTENDS Naturals, SequencesExt

Fact(kind, names) == {<<kind, n>> : n \in names}

Statement(locks, needs, lacks, adds, drops) ==
  [locks |-> locks, needs |-> needs, lacks |-> lacks, adds |-> adds, drops |-> drops]

FlatMap(op(_), seq) == FlattenSeq([i \in DOMAIN seq |-> op(seq[i])])

-----------------------------------------------------------------------------
(* Revision 0001 *)

Table(name, refs, types, indexes) ==
  [name |-> name, refs |-> refs, types |-> types, indexes |-> indexes]

TenancyTables == <<
  Table("organizations", {}, {}, <<>>),
  Table("users", {}, {}, <<>>),
  Table("memberships", {"organizations", "users"}, {"membership_role"},
        <<"ix_membership_user">>),
  Table("projects", {"organizations"}, {}, <<"ix_projects_org">>)>>

CrawlTables == <<
  Table("sites", {"organizations", "projects"}, {}, <<"ix_sites_org">>),
  Table("page_snapshots", {"organizations", "sites"}, {},
        <<"ix_snapshots_crawl_url", "ix_snapshots_org">>),
  Table("evidence", {"organizations", "page_snapshots"}, {},
        <<"ix_evidence_org", "ix_evidence_snapshot">>)>>

AuditTables == <<
  Table("cost_records", {"organizations"}, {},
        <<"ix_cost_org_occurred", "ix_cost_project">>),
  Table("audit_events", {"organizations"}, {},
        <<"ix_audit_entity", "ix_audit_org_occurred">>),
  Table("findings", {"organizations", "sites"}, {"finding_state", "finding_severity"},
        <<"ix_findings_org", "ix_findings_site_state_priority", "uq_finding_current">>),
  Table("embeddings", {"organizations"}, {},
        <<"ix_embeddings_org", "ix_embeddings_subject">>)>>

Tables == TenancyTables \o CrawlTables \o AuditTables

ImmutableTables == <<"audit_events", "cost_records", "embeddings", "evidence",
                     "page_snapshots">>

RejectMutation == "neptiq_reject_mutation"

CreateFunction ==
  Statement({RejectMutation}, {}, {}, Fact("function", {RejectMutation}), {})

\* <<child, parent>>
ForeignKeys(t) == {t.name} \X t.refs

\* A table is created with its enum types; neither may exist.
CreateTable(t) ==
  LET new == Fact("table", {t.name}) \cup Fact("type", t.types)
             \cup Fact("fk", ForeignKeys(t))
  IN <<Statement({t.name} \cup t.refs \cup t.types, Fact("table", t.refs), new, new, {})>>
     \o [i \in DOMAIN t.indexes |->
           LET ix == Fact("index", {t.indexes[i]})
           IN Statement({t.name}, Fact("table", {t.name}), ix, ix, {})]

InstallImmutabilityTrigger(t) ==
  Statement({t}, Fact("table", {t}) \cup Fact("function", {RejectMutation}),
            Fact("trigger", {t}), Fact("trigger", {t}), {})

Upgrade0001 ==
  <<CreateFunction>> \o FlatMap(CreateTable, Tables)
  \o [i \in DOMAIN ImmutableTables |-> InstallImmutabilityTrigger(ImmutableTables[i])]

\* IF EXISTS: there is nothing to lack.
DropImmutabilityTrigger(t) ==
  Statement({t}, Fact("table", {t}), {}, {}, Fact("trigger", {t}))

\* The enum types of a table stay; a table that is referred to cannot go.
DropTable(t) ==
  LET gone == Fact("table", {t.name})
      referred == Fact("fk", {u.name : u \in ToSet(Tables)} \X {t.name})
  IN [i \in DOMAIN t.indexes |->
        LET ix == Fact("index", {Reverse(t.indexes)[i]})
        IN Statement({t.name}, ix, {}, {}, ix)]
     \o <<Statement({t.name} \cup t.refs, gone, referred, {},
                    gone \cup Fact("fk", ForeignKeys(t)))>>

Downgrade0001 ==
  [i \in DOMAIN ImmutableTables |-> DropImmutabilityTrigger(Reverse(ImmutableTables)[i])]
  \o FlatMap(DropTable, Reverse(Tables))
  \o <<Statement({RejectMutation}, {}, {}, {}, Fact("function", {RejectMutation}))>>

-----------------------------------------------------------------------------
(* Revision 0002: the policy files that are listed *)

PolicyFiles == <<"memberships", "organizations", "projects", "sites",
                 "page_snapshots", "evidence", "cost_records", "audit_events",
                 "findings", "embeddings">>

\* The policy a file creates, and the one the revision drops again: two places.
FilePolicy(t) ==
  <<t, IF t = "organizations" THEN "member_or_bound" ELSE "tenant_isolation">>

PolicyName(t) ==
  <<t, IF t # "organizations" THEN "tenant_isolation" ELSE "member_or_bound">>

\* What a policy file holds once comments are gone and it is split.  A file
\* that is not there raises before its first statement.
Statements(t) ==
  LET on(adds, lacks) == Statement({t}, Fact("table", {t}) \cup Fact("file", {t}),
                                   lacks, adds, {})
      policy == Fact("policy", {FilePolicy(t)})
  IN <<on(Fact("rls", {t}), {}), on(Fact("force", {t}), {}), on(policy, policy)>>

Upgrade0002(files) == FlatMap(Statements, files)

\* DISABLE leaves FORCE as it is.
Downgrade0002(files) ==
  FlatMap(LAMBDA t :
            <<Statement({t}, Fact("table", {t}), {}, {}, Fact("policy", {PolicyName(t)})),
              Statement({t}, Fact("table", {t}), {}, {}, Fact("rls", {t}))>>,
          Reverse(files))

-----------------------------------------------------------------------------
(* Alembic keeps the version in a table of its own, which the first run    *)
(* creates.  An update or a delete must meet the version it started from;  *)
(* at base the table is empty, and an insert looks for no other version.   *)

VersionTable == "alembic_version"

EnsureVersionTable ==
  Statement({VersionTable}, {}, Fact("table", {VersionTable}),
            Fact("table", {VersionTable}), {})

InsertVersion(new) ==
  Statement({VersionTable}, {}, Fact("version", {new}), Fact("version", {new}),
            Fact("version", {"base"}))

ReplaceVersion(old, new) ==
  Statement({VersionTable}, Fact("version", {old}), {}, Fact("version", {new}),
            Fact("version", {old}))

SetVersion(old, new) ==
  IF old = "base" THEN <<InsertVersion(new)>> ELSE <<ReplaceVersion(old, new)>>

\* From "new" the version table is still to be made.
Upgrade(version, files) ==
  LET second == Upgrade0002(files) \o SetVersion("0001", "0002")
      both == Upgrade0001 \o SetVersion("base", "0001") \o second
  IN CASE version = "new"  -> <<EnsureVersionTable>> \o both
       [] version = "base" -> both
       [] version = "0001" -> second
       [] version = "0002" -> <<>>

\* One revision down; alembic refuses where there is none.
Downgrade(version, files) ==
  CASE version \in {"new", "base"} -> <<>>
    [] version = "0001" -> Downgrade0001 \o SetVersion("0001", "base")
    [] version = "0002" -> Downgrade0002(files) \o SetVersion("0002", "0001")
=============================================================================
