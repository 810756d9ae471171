# Verification of neptiq

TLA+ models of neptiq, the TLC runs that check them on small instances, and
proofs that TLAPS checks for every value of the constants. neptiq is a
multi-tenant SEO crawler and auditor. At this commit it has a FastAPI
application with health routes, the tenancy dependencies the later routes will
use, the database layer (schema, row-level security, sessions), a set of
security packages (credential envelopes, SSRF validation, taint tracking),
crawler policy packages (robots, URL normalisation), and the build checks that
enforce the architecture's invariants. Workers, rule engine, queue and LLM
gateway are packages with a docstring and no code.

1. [The system](#1-the-system)
2. [Plan](#2-plan)
3. [Tenant sessions](#3-tenant-sessions)
4. [Import check](#4-import-check)
5. [Evidence ledger](#5-evidence-ledger)
6. [URL identity](#6-url-identity)
7. [Key rotation and startup](#7-key-rotation-and-startup)
8. [Release](#8-release)
9. [Crawl job](#9-crawl-job)
10. [The runs](#10-the-runs)
11. [What is proved](#11-what-is-proved)
12. [Where code and documents disagree](#12-where-code-and-documents-disagree)
13. [What is not modelled](#13-what-is-not-modelled)

## 1. The system

Every path is relative to the repository. "Correct when" is what the component
has to guarantee; the names in brackets are the properties that state it here.

| component | state it keeps | operations | correct when |
|---|---|---|---|
| `packages/neptiq_db` session.py | a pool of connections; `neptiq.org_id` and `neptiq.user_id` on each; one transaction per session | `create_engine`, `tenant_session`, `identity_session`, `unscoped_session` | no binding outlives its transaction, no connection leaks, a session is all or nothing (`NoBindingLeaks`, `PoolConsistent`, `AllOrNothing`) |
| `apps/api` deps/tenancy.py | none of its own; a `TenantContext` per request | `get_principal`, `get_tenant_context`, `require_role`, `get_db` | membership is established before a tenant is bound, and a refusal is never an accident (`RequestsAreMembers`, `RefusalsAreTrue`) |
| `db/policies/*.sql` | none | USING and WITH CHECK of every tenant table | rows and membership changes keep to the bound org (`OnlyOwnTenantRows`, `RowsStayInOrg`, `MembershipsScoped`) |
| `apps/api` routers/health.py | none | `healthz`, `readyz` | a probe answers whatever the database does (`Served`, `PoolConsistent`) |
| `apps/api` main.py | engine and session factory on `app.state` | lifespan, error handlers | it serves only while neither the evidence host nor the public host lies under the other (`EvidenceNotASubdomain`), and should while they share no cookies (`ServesOutsideCookieScope`, refuted) |
| `packages/neptiq_db` models.py, migration 0001 | the tables | insert, update, delete by any session | observations are immutable, one current row per finding, references hold (`ObservationsStay`, `AtMostOneCurrent`, `Traceable`) |
| migration 0002, env.py, `tools/check_rls_coverage.py` | the schema version | upgrade, downgrade, coverage check | a database holds the schema of the version it reports, with every tenant table that its checkouts agree on under its policy, and can get to the head (`SchemaMatchesVersion`, `GuardedAtHead`, `HeadIsReachable`, `CommandsEnd`) |
| `tools/check_zone_imports.py` | `seen`, `queue` of one walk | `imports_of`, `reachable`, `check_python`, `check_web` | it ends, and what passes cannot reach a forbidden package (`Ends`, `NoFalseAlarm`, `NearMissesCaught`, `ClosureComplete`) |
| `packages/neptiq_security` credentials.py | sealed rows, KEK generations (kept by callers) | `seal`, `open_sealed`, `rewrap` | a row opens as its own credential only, and a rotation loses none and ends (`OwnSecretOnly`, `SameGenerationOpens`, `NothingStranded`, `RotationCompletes`) |
| `packages/neptiq_security` ssrf.py | none; a redirect chain and a resolver (callers') | `classify_ip`, `validate_destination`, `validate_redirect_hop` | no hop connects to an internal address, however it is written or resolved, and the chain ends (`ConnectsToPermitted`, `JobEnds`) |
| `packages/neptiq_security` taint.py | a value and its provenance | constructors, `for_model` and other exits | untrusted text stays inside the frame of a prompt (`PromptKeepsFrame`) |
| `packages/neptiq_robots` | the document of one site | `evaluate`, `sitemaps` | fetching and reporting are two answers, each from rules that were read (`RobotsRespected`) |
| `packages/neptiq_url` | none | `normalise`, `url_hash` and helpers | idempotent; one form stands for one resource (`OneIdentity`, `OnePassSettles`, `FormReparses`, `Idempotent`) |
| `packages/neptiq_core` | settings, log configuration | settings validators, `_scrub`, errors, ids, provenance | unsafe settings stop startup, secrets never reach a log, a derived number carries its confidence |
| `tools/pytest_gate.py`, `check_ci_drift.py` | one run of a subprocess | the gate's outcomes | no green without executed tests (`GateGreenMeansRun`) |
| other tools, web application, infrastructure | files | text comparison, static pages, configuration | out of scope, see section 13 |

How the parts interact:

* A request runs `get_principal`, then `get_tenant_context` in an
  `identity_session` (user bound, org not), gives that connection back to the
  pool, and then runs its route in the `tenant_session` that `get_db` opens
  (org and user bound). The two transactions are separate: a membership may
  change in between.
* A worker gets its org from its caller and opens `tenant_session` directly; a
  reader of global tables opens `unscoped_session`; `readyz` takes a session
  straight from the factory.
* The sessions of one process share one pool, and settings live on its
  connections. The policies read those settings.
* Sessions of all processes share the tables. Constraints, triggers and the
  partial unique index are all that stands between two of them.
* The import check keeps `neptiq_db` and the credential module out of the
  packages that handle crawled content (Zone U), and the LLM packages out of
  the rules. It runs over the source tree, alone.
* A process reads its environment once (`get_settings`) and seals credentials
  with the KEK it found there. The rows outlive it, and the KEK too.
* `make check` runs the coverage check and the gated tests, `make migrate` the
  coverage check and alembic. The migrations read the policy files of the
  checkout; several of them may meet in one database.
* A fetcher, which is a docstring so far, asks `neptiq_robots`, normalises and
  validates a destination, follows redirects hop by hop, and hands text that
  `taint` has framed to a model.

What makes it hard: bindings on pooled connections that are reused by others;
two transactions per request; connections that die between, or during,
statements; a commit whose acknowledgement is lost; concurrent READ COMMITTED
transactions that insert, supersede, reopen and delete the same findings; ids
that are given at insert and appear at commit; a walk whose order depends on
the hash seed; processes that hold a KEK which has been replaced, beside jobs
that rewrap rows in two steps; migrations that plan from a version they have
not locked and take their locks in opposite orders; a resolver, a server and a
page that may answer anything. `PROJECT.json` lists each of these hazards at
the line where it bites.

## 2. Plan

Modules in the order in which the behaviour matters. Done:

1. `RowPolicies`, `TenantIsolation`, `TenantSessions`: tenant isolation, the
   property the product rests on. `TenantSessions` extends the policies and
   implements `TenantIsolation`.
2. `ImportClosure`: the build check that keeps the zones apart.
3. `EvidenceLedger`: what the observation tables accept.
4. `UrlIdentity`: what `normalise` tells apart, and what a second pass does.

5. `CredentialEnvelope`, `StartupSettings`, and `CredentialRotation`, which
   composes them: a rotation beside processes that hold older settings.
6. `SchemaCatalog`, `PytestGate`, and `Release`, which composes them: the
   coverage check, the gate, and migrations statement by statement.
   `ReleasePlans` says what each plan comes to when it runs alone.
7. `Robots`, `Destination`, `TaintedText`, and `CrawlJob`, which composes them:
   one page from its robots.txt to a prompt.

8. Proofs of every safety property that the runs check, and of the refinement
   (section 11).

Left:

9. `LogScrub` (the caps of `_scrub`) and the rejections of `normalise`, as pure
   functions.

## 3. Tenant sessions

`RowPolicies` states each policy as a predicate over the settings of a
connection. A setting is an identifier, `Unset` (never defined on that
connection) or `Empty` (the zero-length string). All ten policies cast
`current_setting(name, true)` to uuid, so the three cases compare, yield NULL
and raise respectively. Eight of the nine tenant tables have the same policy, on
`org_id`, and are one table in the model; `memberships` and `organizations`
have their own, since their USING clauses reach further.

`TenantSessions` has one task per API request, worker job, reader of global
tables or readiness probe. `step` says where a task is in its session:

| step | code |
|---|---|
| `start` | `get_principal`, and the checks before a session is opened: 401 without a user, refusal of a tenant session without an org, of an unscoped one without a reason |
| `checkout` | taking a connection from the pool: `Reuse`, `Refresh` (pre-ping or recycle), `Connect` (overflow), `PoolTimeout`, `ConnectFails` |
| `bindOrg`, `bindUser` | the `set_config(..., true)` statements of `tenant_session` and `identity_session` |
| `authorise` | `require_role`, which the route calls first |
| `body` | the statements of the session: `Lookup` for an identity session, `Ping` for the probe, and any reads, inserts and one membership edit in the others (no route uses the database yet, so every sequence the session lets through is allowed) |
| `commit`, `rollback` | leaving `session.begin()`, with or without an exception |
| `done` | `reply` is the status |

`EndTransaction` is the whole exit: settings revert, the connection is checked
in or discarded beyond `PoolSize`, an uncommitted edit is dropped. That every
exit takes it is the last conjunct of `PoolConsistent`: a task has a connection
exactly while `step` is one of `Holding`, and a task that is done has none.
`ConnectionLost`, `CommitUnacknowledged` and `Failover` model the server going
away before, during and after a statement. `MaxFailovers` bounds them.

`AfterLocal` is what a transaction-local setting reads as once its transaction
has ended. PostgreSQL leaves a custom setting defined, as the empty string; the
documents of the repository assume NULL. The safety runs take `Empty`, and the
proofs hold for both values.

Fairness (`FairSpec`): the event loop resumes every task whose statement has
answered, and a body ends, so checkout, binding, finishing the body and leaving
are weakly fair for each task. No fairness is given to the pool's timeout, to a
refused connection, to failovers or to work: progress may not depend on them.

`TenantIsolation` is the promise without any mechanism: a user is admitted to
one org by a membership that exists at that moment, or a worker is entrusted
with one; from then on it observes that org alone, and what it publishes
appears at once, belongs to that org and is its last act. `KeepsIsolation`
says the sessions implement it. The refinement mapping is `Access` (outside,
inside an org, over) with the committed rows and memberships; settings, pool,
drafts and steps disappear. It deliberately lets a role that has since been
lowered stand for the rest of a request, because the code reads the role in one
transaction and uses it in the next.

## 4. Import check

`ImportClosure` is `reachable` and the verdict of `check_python` for one
checked file. A dotted name is a pair of a top-level package and a part.
`queue` is the Python list, popped at its end; it starts as a list of a set, so
every order is possible. `Skip` and `Expand` are the two ways through the loop,
`ParseError` the `SyntaxError` exit of `imports_of`, `Judge` the comparison
with the forbidden names. `Violates` is the reference definition: each set of
names that holds what the file imports and is closed under imports holds a
forbidden one. The program is sequential, so its loop is weakly fair.

The closure is not complete (section 12). What does hold is that a failure is
never false, that a forbidden name at distance one, or behind the only package
a file imports, is never missed, and that the walk ends.

## 5. Evidence ledger

`EvidenceLedger` takes the constraints of `sites`, `page_snapshots`, `evidence`
and `findings` from the migration: foreign keys with their ON DELETE action,
the trigger that rejects UPDATE and DELETE of immutable tables, the partial
unique index on current findings. No code of the repository writes findings
yet, so a transaction may send any insert, update of `superseded_at` or delete
of what it can see.

`rows` is what is committed, `put` and `gone` what each transaction changed,
`stmt` the statement it waits for. `Blocks` is PostgreSQL's locking as far as
these statements need it: row locks, the key-share locks of inserted rows on
their parents, and the wait of a unique index for an uncommitted entry.
`Execute` runs a statement on what is committed by then, `Fail` aborts the
transaction with the constraint's error, `DeadlockVictim` breaks a cycle of
waits, `Crash` restarts the server. The mechanism of PostgreSQL is marked
external in the map; the schema, which decides the properties, is not.

Fairness (`FairSpec`): the server answers a statement that need not wait and
breaks a cycle, and the session's context manager ends an open transaction.

`Traceable` follows references by their kind: evidence refers to a
snapshot, a snapshot and a finding to a site, a finding to an older one. It is checked, and assumed of the rows a run starts with
(`SeedAssumption`), in the same words (`Traced`).

`AtMostOneCurrent` says "at most": the index does not ensure that a current
version exists, and a transaction may supersede a finding without a successor.

## 6. URL identity

`UrlIdentity` is `normalise` from the parts of a parsed URL on. Texts are
sequences of bytes, because percent signs and what stands around them are what
the function is about; the path is the sequence of its segments and the query
that of its parts. `NormalisePercentEncoding`, `ResolveDotSegments` and
`NormaliseQuery` are the three helpers of the code. All that read a text from
the left, byte by byte or an escape at a time, are one `Rewrite` with two tables:
what stands for the digits of an escape, and what for any other byte. `parse_qsl`, `quote` and
`unquote` of the standard library are marked external; what the code does with
a key or a value is the double decoding `Canonical(Parsed(key))`. `Picked` keeps
the elements at some positions. Scheme and
host have a `plain` flag for their spelling (case, final dot). A part without
`=` has a key and no value, which is what `parse_qsl` makes of it (`PartType`).

The program keeps no state; the model walks. `url` starts as `origin`, is
respelled or edited by the actions in front of `Requeue`, and `Requeue` puts it
through the pipeline again. `Meaning` is the reference: what the server is
asked for, each text decoded once, dot segments removed as RFC 3986 says, and
no tracking parameter.

`OneIdentity` says both halves of identity at once: equal forms exactly when
equal meanings. It holds for the spellings of `WellSpelled`, whose conjuncts
are the limits of the code: without any one of them the `urls` run refutes
`OneIdentity`. Section 12 lists what happens outside.
`OnePassSettles` says that the same spellings need no second pass, which is the part of idempotence that holds. `FormReparses`
holds for every spelling.

## 7. Key rotation and startup

`CredentialEnvelope` is `credentials.py`: `Seal`, `OpenSealed`, `Rewrap`,
`ToColumns`, `FromColumns`. AES-GCM is a box that opens with its key and its
associated data; a call that may raise is the set of what it may return. The
associated data of a ciphertext is the credential (org and provider), that of a
wrapped key is `kek_id`.

`StartupSettings` is the cached `Settings` of each process and the lifespan of
the API: `Load` (the validators decide whether a process comes up), `Start` (the
assertion on the two host names), `Restart`. `SetEnv` is the operator. A host is
a sequence of pieces with a case, so that suffixes, label boundaries, case and
final dots can differ. `EvidenceNotASubdomain` compares the code's string
operations with the labels of the names, which `Labels` reads off piece by piece
(`Scans` has the fold it shares with `TaintedText`): neither name may be the
other or lie under it. That is what the docstring of the assertion promises and
not what the repository asks for, a separate registrable domain.
`ServesOutsideCookieScope` states that: no domain that both names lie under may
be one a browser stores cookies for, which is any that is not a `PublicSuffix`.
The run `cookie_scope` refutes it with two siblings; section 12 has the case.

`CredentialRotation` puts the two beside a table of rows. The repository has the
operations and no caller of them; the calls are those of the most general caller
its docstrings allow. `Connect` seals with the KEK of the process's settings, at
any time, also after a newer KEK was deployed. A job reads a row and rewraps it
(`Fetch`) and writes it back later (`Write`), unless the row has changed since.
`JobDies` and `Misplace` are faults. `Retire` destroys a KEK.

Two conditions in the model are not in the code, and callers that will be
written have to keep them. A job must write back only over the row it read:
without it a rotation undoes a reconnect. A KEK may be destroyed only when it is
`Unused`: not deployed, held by no process, named by no row and by no job. Each
is needed, and with them `NothingStranded` holds. Settings have one KEK and no
`kek_id`; while a rotation goes on, a process opens the rows of its own
generation and no others, which is what `SameGenerationOpens` says exactly.

Fairness: the operator restarts what runs on a replaced environment and keeps
the jobs running. `RotationCompletes` needs no more, although processes with the
old KEK may reconnect credentials behind the job: once they are restarted they
cannot.

## 8. Release

`SchemaCatalog` has both revisions, up and down, as sequences of statements. A
schema is a set of facts (tables, enum types, indexes, foreign keys, triggers,
row security, policies, the version); a statement says what it locks, needs,
must not find, adds and drops. The policies of 0002 are named in two places, the
SQL files and the downgrade: `FilePolicy` and `PolicyName`.

`PytestGate` is the gate: `CountsOf` what the JUnit file tells, `Executed`, and
`Main` the verdict from exit code, report and floor. `Reports` are all the ways
in which a pytest run can end, with or without a report.

`Release` has checkouts, each with its own tree of policy files, and one
database. `MakeCheck` runs the coverage check and the gate, `MakeMigrate` the
coverage check and `alembic upgrade head`, `StepDown` one `alembic downgrade -1`
by hand. A command plans from the version it read before it locked anything, and
runs statement by statement in one transaction: `Execute` takes locks and runs
or rolls back, `DeadlockVictim` breaks a circle of waits, `Lose` and the second
half of `Commit` are connections lost before and after the commit.

`SchemaMatchesVersion` reads the expected schema off the tables and not off the
plans. `HeadIsReachable` runs the plan on the schema that is there. Neither says
anything of a database that was taken down to base; section 12 says why.
`GuardedAtHead` speaks of the tables that all checkouts which the coverage check
lets through declare as a tenant's (`CommonTenant`). The instance has a tree
that declares, stores and lists one table more, as the check asks for, without a
revision that creates it (`Later`). Its upgrade fails for want of the table;
beside a database that is at 0002 already its `make migrate` has nothing to run
and succeeds, and that table is guarded by nothing. So the property says nothing
of it, and would be violated if it did.
`SetVersion` inserts the version where there is none and replaces it otherwise,
as alembic does; at base a plan is therefore held up by the first table it
creates and not by the version (`Gate`).
`PlanStillFits` (`ReleasePlans`) is what a plan from an unlocked read rests on:
the version it was made for is checked under the lock of its gate and
stays until the command ends.

Fairness: an open command goes on. Nobody has to start one.

## 9. Crawl job

`Destination` goes from a host as it was written to the address that may be
connected to: the numeric spellings (`Pack` adds the octets at their `Weight`),
`ClassifyIp` with the IPv6 forms that embed IPv4 numbers (two for Teredo) and
those that only the standard library calls non-global, literals, resolver
answers, the hop cap. `Robots` is the double
decision. `TaintedText` is `for_model`; its `Replace` goes through a text and
knows how many of the last characters came after the last replacement, which is
what makes occurrences not overlap.

`CrawlJob` composes them in the order their documentation gives: robots.txt,
the decision, then hop by hop validation, connection and redirect, and at the
end text for a model. The environment is unrestricted: every status with and
without rules, every sequence of answers, every target, every text.
`ConnectsToPermitted` has its own meaning of an internal address and of a number
(`inet_aton`), `RobotsRespected` its own reading of the rules.

Fairness: each request is answered or given up by a timeout. `JobEnds` then
rests on the hop cap alone, since a server may redirect for ever.

## 10. The runs

| run | instance | shows |
|---|---|---|
| `sessions` | 2 tasks of all 9 asks, 2 orgs, 2 users, 2 slots of which 1 is kept, 1 failover, edits that end or grant a membership | the safety of the pool, of bindings, refusals, rows and memberships, and `KeepsIsolation` |
| `progress` | 2 tasks that may both write two rows, 1 slot, 1 failover | `AllOrNothing` and, under `FairSpec`, `Served` |
| `reused` | as `sessions`, 1 slot, no edits | violation of `UnboundReadsEmpty` |
| `imports` | every graph over 4 packages with the three forms of import, files of up to 2 statements, with and without a file that does not parse | `NoFalseAlarm`, `NearMissesCaught`, `Ends` |
| `imports_missed` | the same, all files parse | violation of `ClosureComplete` |
| `ledger` | 2 transactions of up to 2 statements, 1 site, 1 identity, 3 ids, four kinds of committed rows to start from | `AtMostOneCurrent`, `Traceable`, `ObservationsStay` and, under `FairSpec`, `StatementsReturn` |
| `urls` | 5 URLs, 3 edits each, 2 tracking parameters of which one is listed with a capital | `OneIdentity`, `OnePassSettles`, `FormReparses` |
| `url_again` | the same | violation of `Idempotent` |
| `rotation` | an API process and a worker, 2 credentials, 2 KEKs and a malformed one, 2 jobs, 4 environments, 2 changes of environment, 1 fault | `OwnSecretOnly`, `NothingStranded`, `SameGenerationOpens`, `EvidenceNotASubdomain`, `RotationCompletes` |
| `cookie_scope` | the same | violation of `ServesOutsideCookieScope` |
| `release` | 2 checkouts of 6 trees, 4 commands, 1 lost connection, up to 3 tests, floors 0 to 2 | `SchemaMatchesVersion`, `HeadIsReachable`, `GuardedAtHead`, `PlanStillFits`, `GateGreenMeansRun`, `CommandsEnd`, and the assumptions on the plans |
| `crawl` | 256 IPv4 addresses, 13 numeric spellings, every IPv6 form the code tells apart, 2 hops, every text of up to 4 characters | `ConnectsToPermitted`, `RobotsRespected`, `PromptKeepsFrame`, `JobEnds` |

`TypeOK` of a module is checked once, in `sessions`, `imports`, `ledger`,
`rotation` and `release`. Every action fires in some passing run.

Why the bounds are enough. *Sessions*: a leak needs two tasks that use one
connection in turn, a mix-up two tasks with different orgs at once; two tasks
and two slots give both, with one slot discarded on return. One failover meets
every step of both tasks. A user with two orgs (ann) is what separates the
identity clause of the memberships policy from the org clause. The pool
deadlock that `Served` excludes needs as many requests as slots, two against
one here. *Imports*: one package between the file and the forbidden one, a
cycle of two, and a package reached both directly and through another are all
within four packages; larger graphs repeat them. *Ledger*: one transaction
supersedes while the other reopens, inserts or deletes; three ids
give a finding, its successor and a rival. Two transactions have every pair of
statements that wait for each other, and the circle of two that is a deadlock;
for more than two the safety properties are proved (section 11). A start with committed rows stands
for the longer histories that lead there, so two statements per transaction
suffice to supersede and insert. *URLs*: the shortest texts that
hold a delimiter, an escape of one and a hex digit; three edits escape a byte,
escape the percent sign of that escape, and change something else; longer ones
are a matter of the proofs.
*Rotation*: two KEKs, one environment that does not load and one whose KEK does
not, one with two hosts beside each other and one whose evidence host ends in
the text of the public host and not in its labels; two changes go there and back; two jobs meet on one row and a third would
only lose to them. *Release*: four commands are an upgrade, a downgrade to 0001,
and then an upgrade and a downgrade at once, which is the shortest way into the
circle of waits. `MakeCheck` comes before the first command only: it touches no
database, so its place among the commands cannot matter. A plan that is out of
date needs one command that commits while another waits. *Crawl*: octets run to
3, so that a number of four octets has every way to be too large; internal are
one whole first octet and the two ends. Three characters hold a whole sentinel,
the fourth is what hides in it or is cut off. The cap of 2 hops is passed, met
and exceeded. Symmetry is used in safety runs only, and the permuted sets occur
in no seed.

Deadlock is not checked in the runs `ledger`, `rotation`, `cookie_scope`,
`release` and `crawl`: there a state in which every transaction, command or job
has ended and the bounded events are used up is final. In the other modules
`Terminated` and `Finished` are the only way to stop, so a stuck task would be
reported.

Each property has a mutant in its module: a plausible slip in one definition
(a binding that survives, a rollback that publishes, a policy open when unset,
a foreign key left out, a commit that keeps the old version, a rewrap with the
old binding, policies that a downgrade leaves, a mapped address that is not
unwrapped) under which TLC finds the property violated.

## 11. What is proved

Thirty-six theorems, for any constants that satisfy the named assumptions: any
number of tasks, orgs, users, slots and failovers (`SettingAssumption`,
`SessionAssumption`); any packages and import graphs (`NameAssumption`); any
sites, transactions and starting rows that satisfy the schema
(`LedgerAssumption`, `SeedAssumption`); any processes, credentials, KEKs, jobs,
environments and faults, with host names of any length (`StartupAssumption`,
`EnvelopeAssumption`, `RotationAssumption`); any resolver, servers, tables of
networks, numbers, texts and caps (`OctetAssumption`, `CrawlAssumption`); any
URLs, hosts, ports and tracking parameters (`UrlAssumption`); any
checkouts, commands, lost connections, tests and floors (`ReleaseAssumption`,
`GateAssumption`, `PlansAssumption`, `HeadAssumption`).

Most assumptions say that a bound is a natural number or a value is of its kind.
`PlansAssumption` and `HeadAssumption` say more, and of constants only: what the
statements of one plan, run alone, add, drop, need and must not find. A plan of
a tree that the check lets through has nothing to do, needs what nothing makes
(`Starves`), or leads from the version it was made for to the next. The trees
may list and declare different tables. The plans
are the migrations, so TLC computes this from their statements (in the run
`release`, where it evaluates both). What is proved is that it survives
any number of commands that interleave, roll back, deadlock and lose their
connections.

`TenantSessionsProofs` proves every safety property of `TenantSessions`, and
that it implements `TenantIsolation`. No property is inductive alone. `IInv`
joins them with what links them: `Shape` (which steps, sessions and connections
go together), `RolesKept` (a role a task carries was committed), `WorkInv` (what
was seen and drafted belongs to the bound org), `Outcomes`, `RefusalInv` and
`FreshLookup` (a role looked up and not yet committed is still in the table or
its history). The argument is the one the code relies on: what a
statement returns depends on the settings of the connection; they belong to one
task because the connection does; that task's session exists because a
membership did. The refinement is proved with `IInv`, one case per action:
each maps to one abstract action or a stutter. Note that it does not
depend on `AfterLocal`, on the fairness or on the failover bound.

`ImportClosureProofs`: `Contained` (what is seen and queued lies in every
closed set that holds the file's imports) gives `FailuresAreReal`;
`NearExpanded` (a package that alone is imported is queued or has been
expanded) gives `NearMissesFail`.

`EvidenceLedgerProofs`: `Identified` and `Fresh` (ids given to pending inserts
are new and distinct) give the type invariant; `NoCollisions` (no two rows
collide within what is committed, within what a transaction sees, or between
what two have written) gives `OneCurrent`; `GoneIds` and `Untouched` (nobody
has deleted or rewritten an observation) give `ObservationsRemain`.

In the same module, `References` (a row's references are to known ids, and to
rows of the right kind), `Closed` (what is committed and what each transaction
sees is closed under references, and nobody has deleted the parent of what
another has inserted) and `Apart` (a row is deleted or changed by one transaction
at a time, and not both) give `RowsTraceable`. A statement keeps them because of
what `Blocks` makes it wait for: the row locks and the key-share locks on parents.

`CredentialRotationProofs`: what a row opens to, and with which KEK, is not
inductive, since the rows a job is about to write count as well. `Genuine` is
what makes it so: an envelope, stored or in the hands of a job, is wrapped under
the KEK that its `kek_id` names, bound to that id, that KEK is not destroyed,
and the ciphertext holds a plaintext of the credential it is bound to. `Loaded`
and `InUse` carry the KEKs that processes hold. `RetireHolds` is where `Unused`
is needed. Four theorems follow from the invariant by opening the envelope.

The fifth, `NeverASubdomain`, is about names. `Decided` says that an API process
serves, or was turned down, by the settings it still holds. That the comparison
of pieces (`endswith` with a dot in front) decides which name lies under which,
label by label, is `SeparateIsNotUnder`: the labels of one name end those of another
exactly if its pieces end the other's, alone or behind a dot (`EndsMeets`), by
induction over both names, one piece of each at a time (`EndsStep`, `MeetsStep`).

`ReleaseProofs`: `Progress` (what a command has done is what the statements it
has run amount to, and it holds every lock they took), `Exclusive` (no two hold
one), `Fits` (a version that was checked under the lock is the version still),
`Fed` (no command has passed a statement that needs what nothing makes) and
`AtAVersion` (the schema is that of one version, up to what a downgrade
leaves) are inductive together: a plan that has run through was made for the
version in the database, so its commit leads to the version it was made to reach. `Brought` (a database at
the head was brought there from a tree that declares no more than the shipped
list has) is what `HeadIsGuarded` needs, and all it claims.
`Tabled` (a command that found a version table can count on it) gives
`HeadStaysReachable`, `Counted` the types and the gate.

`CrawlJobProofs`: `Asked` (the document that was decided on allows the path
while it is asked for) gives `Respected`; `Pinned` (the address came out of the
validation of this target with this answer) and `ClassifiedIsExternal` (what the
classification lets through is internal in no form) give `Permitted`, together
with `CanonicalReads`: a number whose octets stand at their weights is read as
its fields say, each octet once. For `Framing` two
replacements in a row have to be followed through a text. What is kept after
each character of it is that the characters since the last replacement are all
there, that a replacement stands in front of them, and that no sentinel occurs;
so none is left when the text ends (`ReplaceRemoves`), the second replacement
brings back none of the first kind (`NeutralLacks`), and a cut, with its marker,
ends in no part that a frame could complete (`CappedLacks`, `FrameHolds`).

`UrlIdentityProofs` needs no invariant but the types: the walk stays among URLs
(`UrlTypeOK`), and the rest is about what `normalise` computes, for texts, paths
and queries of any length. Four facts carry it. *A text* falls into escapes and
other bytes in one way (`TextInduction`), what `Rewrite` makes of it does not
depend on what stands in front (`ScansAgree`), and so `Unquote(Quote(x)) = x`
(`UnquoteQuote`), `NormalisePercentEncoding(s) = Quote(Unquote(s))` where each
percent sign begins an escape (`PlainNormal`), and every form is legible
(`NormalLegible`), hence a fixed point of the second loop. *A path*: the stack of
`_resolve_dot_segments` holds, after n segments, those that no ".." among them
cancels, and from the k-th from its top on the ordinary segments outnumber the
".." by k (`Stack`, with one lemma for a segment that is pushed, popped, or
neither); `Directory` picks the same ones without a stack (`ResolveKept`,
`DirectoryPicks`). *A query*: each part is decoded once and keeps its "="
(`PlainPartForm`), and its form is spelled in the same way (`QueryStays`).
*Together*: the form is `Meaning` with its texts quoted and the default port left
out (`PathMeaning`, `QueryMeaning`), and quoting is one to one (`IdentityExact`).
That a pass does not change what the server is asked for (`PassesKeepMeaning`)
follows from the two theorems, identity and one pass, and is stated by no run.
`WellSpelled` is a hypothesis of all but `FormsReparse` and `StaysUrl`; section
12 says what happens without it.

`ScanLemmas` has what these proofs need of texts: an induction over 0..n and the
existence of what is defined by recursion over it, both for sets and functions
instead of operators, which the provers cannot instantiate; and the members of
joined, reversed and compared sequences. `Scan` in `Scans` is the fold of the
community modules written out, since the built-in `SelectSeq` and recursive
operators have no definition the prover could use.

Only model-checked: liveness (`Served`, `Ends`, `StatementsReturn`,
`RotationCompletes`, `CommandsEnd`, `JobEnds`), which is out of the prover's
reach. The
properties of section 12 that are refuted leave nothing to prove; their
neighbours that hold (`OnlyOwnTenantRows`, `NearMissesCaught`) are proved.

## 12. Where code and documents disagree

Shown by a run:

* **reused** - `db/policies/README.md:30` says an unset setting is NULL, "so an
  unbound session sees zero rows". On a connection that was bound once the
  setting is the empty string, the cast raises and the statement fails. An
  identity session binds no org, so the membership lookup of the second request
  on a connection meets it.
* **imports_missed** - `reachable` marks names as seen when it queues them, and
  a queued package name is then skipped: packages that only another package
  imports are never read. The check misses a forbidden import two packages
  away, which is what its docstring says it is for.
* **url_again** - `normalise.py:275` says normalising is idempotent. It is not
  for a path with a bare percent sign before an escape (`/%%362` becomes
  `/%62`, then `/b`), for a query text that is encoded twice (`?a=%252541`
  becomes `?a=%2541`, then `?a=A`) and for a key without `=` whose form is not
  its own text (`?a%`, `?a%25`, `?a%25=`).
* **cookie_scope** - `settings.py:117` and `:152`, `.env.example:82` and
  `docs/ARCHITECTURE.md:420` ask for a separate registrable domain, and
  `main.py:38` says that a configuration which shares the application's cookie
  scope must stop the process. `assert_evidence_domain_separate` turns down a
  host that equals or lies under the other, and lets siblings under one
  registrable domain pass: `app.neptiq.com` and `ev.neptiq.com`.

Seen while modelling, without a run of their own:

* `docs/ARCHITECTURE.md:409` promises a test that no row of another tenant
  appears. `get_db` binds the user along with the org, and so a tenant session
  also reads that user's memberships of other orgs. They are the user's own
  rows; `OnlyOwnTenantRows` says what does hold.
* `models.py:78` says ids are assigned in commit order. They are assigned at
  INSERT; a cursor over ids can pass a row that is not committed yet.
* Outside `WellSpelled`: `/a/b/..` becomes `/a`, where RFC 3986 section 5.2.4,
  which the helper names, says `/a/`; an empty segment stops a `..`; `?%61`
  becomes `?a=` and `?a&a=` becomes `?a&a`, although the module says they are
  "preserved as written"; `hsCtaTracking` and `trkCampaign` are listed with
  capitals and compared with a lower-cased key, so they are never stripped.
* `_ceiling_above_default` checks that the ceiling is positive; its comment says
  a ceiling below the default fails at startup. `.env.example:20` offers the
  environments `ci` and `prod`, which `Settings` rejects.
* `models.py:63` says a model that forgets `__neptiq_tenant__` fails in CI. The
  coverage check compares tables that declare it with the policy files, and a
  table that declares nothing has neither.
* The coverage check passes when `organizations.sql` is listed and not there
  (the upgrade then raises and is rolled back), and it reads `_POLICY_FILES` as
  text, so that an entry in a comment counts. A database that is at 0002
  already never sees an entry added to the list, which `check_rls_coverage.py:128`
  tells authors to add: `GuardedAtHead` leaves such a table out.
* The downgrade of 0001 leaves the enum types, so a database taken to base
  cannot go up again; that of 0002 leaves FORCE ROW LEVEL SECURITY set, without
  effect while row security is disabled.
* The Makefile names `tests/integration` and `tests/security`, which do not
  exist; the gate answers red. `ci.yml` calls pytest directly and not the gate.
* `BareOctal`: a bare run of digits behind a zero is read as decimal, a dotted
  one as octal. What is connected to is the address that was read, so
  `ConnectsToPermitted` excepts only the comparison with `inet_aton`.
* A 3xx, or a 2xx without a body, falls in the branch of `evaluate` commented
  as the case of 4xx, and may be fetched. The hop cap counts from one: a caller
  that counts from zero follows one redirect more. `for_display` and
  `for_storage` clean strings only.

## 13. What is not modelled

Of `normalise`: what it rejects (schemes, userinfo, malformed hosts and ports,
lengths), IDN, and escapes that are not ASCII (a query value that is not UTF-8
is decoded to the replacement character, whichever bytes it had).

Of the modelled components: `_migrator_url`, which reads one variable, and
alembic's offline mode, which prints SQL; the crawl delay, which a decision only
carries; of `taint.py` the coercions that raise, `map`, and the exits that
repeat steps of `for_model`; of the lifespan the creation of engine and session
factory, which opens no connection. A process that crashes and comes back with
the environment it had is the same process.

`install_rls_guard` keeps no state (the attribute it looks for is never set).
`check_web` is a text scan of each file, without a closure. `check_brand_tokens`,
`check_ci_drift`, `gen_package_manifests` and `build-brand.sh` compare or write
text. `_scrub` rewrites one log record. Errors, schemas and provenance are
declarations; `wilson_interval` is floating point. The web application is
static pages. The empty packages have nothing to model; a worker appears as a
job of `TenantSessions` and as the fetcher of `CrawlJob`. Infrastructure is
configuration: that the application's database role does not bypass row-level
security (`infra/compose/postgres-init`) is an assumption of `RowPolicies`. The
tables outside the four of `EvidenceLedger` differ from those in their columns,
not in the mechanisms modelled. Isolation levels above READ COMMITTED are not
used by the code.
