------------------------------ MODULE Release -------------------------------
(***************************************************************************)
(* From a checkout to a migrated database: make check and make migrate     *)
(* (tools/check_rls_coverage.py, tools/pytest_gate.py, then alembic with   *)
(* db/migrations/env.py), beside downgrades by hand and lost connections.  *)
(*                                                                         *)
(* Each checkout has its own tree of policy files.  Every alembic command  *)
(* is one transaction, run statement by statement under the locks it has   *)
(* taken; several of them may be open on the one database.                 *)
(***************************************************************************)
EXTENDS SchemaCatalog, PytestGate

CONSTANTS
  Checkout,     \* the working copies make is run in
  Trees,        \* [tenant, disk, listed]: declared, on disk, in _POLICY_FILES
  MaxCommands,  \* alembic commands, over all checkouts
  MaxLost       \* connections lost

VARIABLES
  schema,    \* the committed facts
  tree,      \* the tree of each checkout, which does not change
  run,       \* the alembic command that is open in each checkout
  report,    \* what a gated pytest run left, its floor and the verdict
  commands,  \* bounded by MaxCommands
  lost       \* bounded by MaxLost

vars == <<schema, tree, run, report, commands, lost>>

ASSUME ReleaseAssumption == MaxCommands \in Nat /\ MaxLost \in Nat

Versions == {"base", "0001", "0002"}
Version == CHOOSE v \in Versions : <<"version", v>> \in schema

-----------------------------------------------------------------------------
(* tools/check_rls_coverage.py *)

DOCUMENTED_NON_TENANT_POLICIES == {"organizations"}

MissingFiles(t) == t.tenant \ t.disk
Unwired(t) == t.disk \ ToSet(t.listed)
Orphans(t) == ToSet(t.listed) \ (t.tenant \cup DOCUMENTED_NON_TENANT_POLICIES)

Covered(t) == MissingFiles(t) = {} /\ Unwired(t) = {} /\ Orphans(t) = {}

-----------------------------------------------------------------------------
(* The open command *)

Begun(command, from) == [command |-> command, from |-> from, pc |-> 1,
                         adds |-> {}, drops |-> {}, locks |-> {}]
Nothing == Begun("none", "base")

PlanOf(command, from, listed) ==
  IF command = "upgrade" THEN Upgrade(from, listed) ELSE Downgrade(from, listed)

Plans == [command \in {"upgrade", "downgrade"}, from \in Versions \cup {"new"},
          listed \in {t.listed : t \in Trees} |-> PlanOf(command, from, listed)]

Plan(c) == Plans[<<run[c].command, run[c].from, tree[c].listed>>]
Open(c) == run[c].command # "none"
AtEnd(c) == run[c].pc > Len(Plan(c))
Now(c) == Plan(c)[run[c].pc]

\* What the transaction of c sees: the committed schema, its own work, and the
\* files beside its revisions.
View(c) == ((schema \ run[c].drops) \cup run[c].adds) \cup Fact("file", tree[c].disk)

Waits(c, d) == Open(c) /\ Open(d) /\ c # d /\ ~AtEnd(c) /\ Now(c).locks \cap run[d].locks # {}
Blocked(c) == \E d \in Checkout : Waits(c, d)
Runnable(c) == Now(c).needs \subseteq View(c) /\ Now(c).lacks \cap View(c) = {}

\* Mutant: every statement is a transaction of its own.
HeldForStatement(locks, s) == s.locks

\* What the transaction has locked stays locked to its end.
Held(locks, s) == locks \cup s.locks

Unreported == [run |-> Run(0, NoTests, "none"), floor |-> 1, verdict |-> "none"]

Close(c) == run' = [run EXCEPT ![c] = Nothing] /\ UNCHANGED <<tree, report, commands>>

\* Mutants: a command that fails keeps its transaction open, or what it has done.
KeepOpen(c) == UNCHANGED <<schema, run, tree, report, commands>>
KeepWork(c) == Close(c) /\ schema' = (schema \ run[c].drops) \cup run[c].adds

\* An error leaves the block of the engine: the transaction is rolled back.
Rollback(c) == Close(c) /\ UNCHANGED schema

-----------------------------------------------------------------------------
Init ==
  /\ schema = {<<"version", "base">>}
  /\ tree \in [Checkout -> Trees]
  /\ run = [c \in Checkout |-> Nothing]
  /\ report = Unreported
  /\ commands = 0 /\ lost = 0

\* make check: the coverage check, then the gated tests.  They touch no database,
\* so that the model lets them run before the first command loses nothing.
MakeCheck(c) ==
  /\ Covered(tree[c]) /\ report = Unreported /\ commands = 0
  /\ \E r \in Reports, floor \in Floors :
       report' = [run |-> r, floor |-> floor, verdict |-> Main(r, floor)]
  /\ UNCHANGED <<schema, tree, run, commands, lost>>

\* Alembic reads the version before anything is locked, and its plan from it.
Begin(c, command) ==
  /\ ~Open(c) /\ commands < MaxCommands
  /\ LET from == IF <<"table", VersionTable>> \in schema THEN Version ELSE "new"
     IN run' = [run EXCEPT ![c] = Begun(command, from)]
  /\ commands' = commands + 1 /\ report' = Unreported
  /\ UNCHANGED <<schema, tree, lost>>

\* Mutant: the coverage check is left to make check.
MigrateUnchecked(c) == Begin(c, "upgrade")

MakeMigrate(c) == Covered(tree[c]) /\ Begin(c, "upgrade")

\* By hand, from a checkout the coverage step of CI has let through.
StepDown(c) == Version # "base" /\ Covered(tree[c]) /\ Begin(c, "downgrade")

\* One statement: it takes its locks, then it runs or it raises.
Execute(c) ==
  /\ Open(c) /\ ~AtEnd(c) /\ ~Blocked(c)
  /\ UNCHANGED lost
  /\ IF ~Runnable(c) THEN Rollback(c)
     ELSE /\ run' = [run EXCEPT ![c] =
               [command |-> @.command, from |-> @.from, pc |-> @.pc + 1,
                locks |-> Held(@.locks, Now(c)),
                adds |-> (@.adds \ Now(c).drops) \cup Now(c).adds,
                drops |-> (@.drops \ Now(c).adds) \cup Now(c).drops]]
          /\ UNCHANGED <<schema, tree, report, commands>>

\* PostgreSQL ends one of several transactions that wait on each other.
DeadlockVictim(c) ==
  /\ \E circle \in SUBSET Checkout :
       c \in circle /\ \A d \in circle : \E e \in circle : Waits(d, e)
  /\ Rollback(c) /\ UNCHANGED lost

\* Mutant: what a downgrade has dropped comes back.
CommitAdds(c) ==
  /\ Open(c) /\ AtEnd(c)
  /\ schema' = schema \cup run[c].adds
  /\ Close(c)
  /\ UNCHANGED lost

\* The connection may be lost after the commit and before its answer.
Commit(c) ==
  /\ Open(c) /\ AtEnd(c)
  /\ schema' = (schema \ run[c].drops) \cup run[c].adds
  /\ Close(c)
  /\ \/ UNCHANGED lost
     \/ lost < MaxLost /\ lost' = lost + 1

Lose(c) == Open(c) /\ lost < MaxLost /\ lost' = lost + 1 /\ Rollback(c)

Next ==
  \E c \in Checkout :
    \/ MakeCheck(c) \/ MakeMigrate(c) \/ StepDown(c)
    \/ Execute(c) \/ DeadlockVictim(c) \/ Commit(c) \/ Lose(c)

\* A command that is open goes on; nobody has to start one.
Fairness == \A c \in Checkout : WF_vars(Execute(c) \/ DeadlockVictim(c) \/ Commit(c))

Spec == Init /\ [][Next]_vars /\ Fairness

-----------------------------------------------------------------------------
(* Properties *)

Known(facts) == \A f \in facts : f[1] \in {"version", "table", "type", "index", "fk",
                                          "function", "trigger", "rls", "force", "policy"}

\* The variables keep their types and the database has one version.
TypeOK ==
  /\ Known(schema) /\ Cardinality({v \in Versions : <<"version", v>> \in schema}) = 1
  /\ tree \in [Checkout -> Trees]
  /\ \A c \in Checkout :
       /\ run[c].command \in {"none", "upgrade", "downgrade"}
       /\ run[c].from \in Versions \cup {"new"}
       /\ run[c].pc \in Nat \ {0} /\ Known(run[c].adds \cup run[c].drops)
  /\ report \in [run : Reports, floor : Floors \cup {1},
                 verdict : {"none", "green", "red", "internal"}]
  /\ commands \in 0..MaxCommands /\ lost \in 0..MaxLost

Names == {t.name : t \in ToSet(Tables)}

\* The schema each version stands for, read off the tables and not the plans.
Expected(version) ==
  LET tables == Fact("table", Names) \cup Fact("function", {RejectMutation})
                \cup Fact("trigger", ToSet(ImmutableTables))
                \cup UNION {Fact("fk", ForeignKeys(t)) \cup Fact("index", ToSet(t.indexes)) :
                              t \in ToSet(Tables)}
      policies(t) == Fact("rls", {t}) \cup Fact("policy", {FilePolicy(t)})
  IN CASE version = "base" -> {}
       [] version = "0001" -> tables
       [] version = "0002" -> tables \cup UNION {policies(t) : t \in ToSet(PolicyFiles)}

\* What may stay behind: the enum types of tables that went, FORCE where row
\* security is off, and alembic's own table and version.
Leftover == Fact("type", UNION {t.types : t \in ToSet(Tables)}) \cup Fact("force", Names)
            \cup Fact("version", Versions) \cup Fact("table", {VersionTable})

\* Whatever commands were open at once, failed, lost their connection or were
\* taken back, the database holds the schema of the version it reports, and no
\* other.
SchemaMatchesVersion ==
  /\ Expected(Version) \subseteq schema
  /\ schema \subseteq Expected(Version) \cup Leftover

Guarded(t) == {<<"rls", t>>, <<"force", t>>, <<"policy", FilePolicy(t)>>} \subseteq schema

\* What all checkouts that the coverage check lets through declare as a tenant's.
CommonTenant ==
  {t \in UNION {tree[c].tenant : c \in Checkout} :
     \A c \in Checkout : Covered(tree[c]) => t \in tree[c].tenant}

\* A database at the head has row security forced, under its policy, on every
\* table that all checkouts let through by the coverage check declare as a
\* tenant's, whichever of them brought it there and whatever a checkout with a
\* slip in it tried.  It says no more of a table that only a later tree declares
\* and lists: a database at the head has no revision left to run, so that the
\* check passes there, the migration succeeds and the table stays unguarded.
GuardedAtHead ==
  Version = "0002" => \A t \in CommonTenant : Guarded(t)

\* A gate that goes green has seen a whole run, with at least its floor of
\* passed tests and none that failed.
GateGreenMeansRun ==
  report.verdict = "green" =>
    LET ran == report.run.ran
    IN report.run \in Completed /\ ran["failed"] = 0 /\ ran["errored"] = 0
       /\ ran["passed"] >= report.floor /\ report.floor >= 1

\* Whether f holds when statement i of a plan comes, if the plan began on these
\* facts with nothing else open: the last statement that touched f decides.
Holds(f, plan, i, facts) ==
  LET touching == {j \in 1..(i - 1) : f \in plan[j].adds \cup plan[j].drops}
  IN IF touching = {} THEN f \in facts ELSE f \in plan[Max(touching)].adds

\* No statement of the plan raises, and it ends at the head.
ReachesHead(plan, facts) ==
  /\ \A i \in 1..Len(plan) :
       /\ \A f \in plan[i].needs : Holds(f, plan, i, facts)
       /\ \A f \in plan[i].lacks : ~Holds(f, plan, i, facts)
  /\ Holds(<<"version", "0002">>, plan, Len(plan) + 1, facts)

PlanFrom == [from \in Versions \cup {"new"} |-> Upgrade(from, PolicyFiles)]

\* No failure, race or downgrade by one revision leaves a database that the
\* shipped tree cannot bring to the head any more; only one that was taken down
\* to base, where the enum types stay behind, cannot go up again.
HeadIsReachable ==
  (\A c \in Checkout : ~Open(c)) /\ (Version = "base" => \A f \in schema : f[1] # "type") =>
    LET from == IF <<"table", VersionTable>> \in schema THEN Version ELSE "new"
    IN ReachesHead(PlanFrom[from], schema \cup Fact("file", ToSet(PolicyFiles)))

\* An alembic command comes to its end, also one that waits or is in a deadlock.
CommandsEnd == \A c \in Checkout : Open(c) ~> ~Open(c)
=============================================================================
