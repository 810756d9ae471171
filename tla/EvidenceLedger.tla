--------------------------- MODULE EvidenceLedger ---------------------------
(***************************************************************************)
(* The observation tables of neptiq_db (sites, page_snapshots, evidence,   *)
(* findings) under concurrent READ COMMITTED transactions: what their      *)
(* foreign keys, immutability triggers and partial unique index accept of  *)
(* any statements a session sends.                                         *)
(*                                                                         *)
(* A transaction's changes are kept apart from the committed rows until    *)
(* it commits; what it changed is locked.  A statement that meets a lock   *)
(* waits for the transaction that holds it.                                *)
(***************************************************************************)
EXTENDS Naturals, FiniteSets

CONSTANTS
  Sites,         \* ids of sites
  Hashes,        \* identity hashes of findings
  Txs,           \* transactions, each of which runs once
  NULL,
  MaxId,         \* bound: the rows that are inserted
  MaxStatements, \* bound: the statements of a transaction
  Seeds          \* possible committed rows at the start, and the last id

VARIABLES
  rows,    \* the committed rows
  put,     \* the rows a transaction has inserted or changed, as it left them
  gone,    \* the ids it has deleted
  stmt,    \* the statement it waits to execute, or NULL
  phase,   \* "open" or "ended"
  sent,    \* the statements it has sent, none before it begins
  lastId   \* the id uuidv7() gave last

vars == <<rows, put, gone, stmt, phase, sent, lastId>>

Ids == Sites \cup 1..MaxId

RowType ==
  [table : {"sites"}, id : Sites]
    \cup [table : {"page_snapshots"}, id : 1..MaxId, site_id : Sites]
    \cup [table : {"evidence"}, id : 1..MaxId, snapshot_id : 1..MaxId]
    \cup [table : {"findings"}, id : 1..MaxId, site_id : Sites,
          identity_hash : Hashes, supersedes_id : 1..MaxId \cup {NULL},
          current : BOOLEAN]   \* superseded_at IS NULL

StmtType ==
  [op : {"insert"}, row : RowType]
    \cup [op : {"update"}, id : 1..MaxId, current : BOOLEAN]
    \cup [op : {"delete"}, id : Ids]

IdsOf(R) == {r.id : r \in R}
OneRowPerId(R) == \A q, r \in R : q.id = r.id => q = r

-----------------------------------------------------------------------------
(* The schema *)

ForeignKeysWithoutHistory ==
  {[table |-> "page_snapshots", column |-> "site_id", onDelete |-> "CASCADE"],
   [table |-> "evidence", column |-> "snapshot_id", onDelete |-> "RESTRICT"],
   [table |-> "findings", column |-> "site_id", onDelete |-> "CASCADE"]}

ForeignKeys ==
  {[table |-> "page_snapshots", column |-> "site_id", onDelete |-> "CASCADE"],
   [table |-> "evidence", column |-> "snapshot_id", onDelete |-> "RESTRICT"],
   [table |-> "findings", column |-> "site_id", onDelete |-> "CASCADE"],
   [table |-> "findings", column |-> "supersedes_id", onDelete |-> "RESTRICT"]}

ImmutableWithoutSnapshots == {"evidence"}

\* The tables with the trigger that rejects UPDATE and DELETE of a row.
ImmutableTables == {"page_snapshots", "evidence"}

CollidePerLineage(q, r) ==
  /\ q.table = "findings" /\ r.table = "findings" /\ q.id # r.id
  /\ q.current /\ r.current
  /\ q.site_id = r.site_id /\ q.identity_hash = r.identity_hash
  /\ q.supersedes_id = r.supersedes_id

\* uq_finding_current holds one of the two rows.
Collide(q, r) ==
  /\ q.table = "findings" /\ r.table = "findings" /\ q.id # r.id
  /\ q.current /\ r.current
  /\ q.site_id = r.site_id /\ q.identity_hash = r.identity_hash

RefersTo(r, id, actions) ==
  \E k \in ForeignKeys :
    k.table = r.table /\ k.onDelete \in actions /\ r[k.column] = id

\* Every row of R can be traced in R: evidence to its snapshot, a snapshot and
\* a finding to their site, a finding to the one it supersedes, which is older.
Traced(R) ==
  LET found(table, id) == \E q \in R : q.table = table /\ q.id = id
  IN \A r \in R :
       /\ r.table = "evidence" => found("page_snapshots", r.snapshot_id)
       /\ r.table \in {"page_snapshots", "findings"} => found("sites", r.site_id)
       /\ r.table = "findings" /\ r.supersedes_id # NULL =>
            found("findings", r.supersedes_id) /\ r.supersedes_id < r.id

ASSUME LedgerAssumption ==
  /\ NULL \notin RowType \cup StmtType \cup Ids
  /\ MaxId \in Nat /\ MaxStatements \in Nat
  /\ Sites \cap Nat = {}

\* The committed rows at the start satisfy the schema.
ASSUME SeedAssumption ==
  \A seed \in Seeds :
    /\ seed.rows \subseteq RowType /\ OneRowPerId(seed.rows)
    /\ seed.lastId \in 0..MaxId
    /\ \A r \in seed.rows : r.id \in Sites \cup 1..seed.lastId
    /\ \A q, r \in seed.rows : ~Collide(q, r)
    /\ Traced(seed.rows)

Refs(r) == {id \in Ids : RefersTo(r, id, {"CASCADE", "RESTRICT"})}

\* The rows of V that a DELETE of the rows D removes: a cascade starts at a
\* site, passes through what refers to it and ends there at the latest.
Cascade(D, V) == D \cup {r \in V : \E d \in D : RefersTo(r, d.id, {"CASCADE"})}
Deleted(d, V) == Cascade(Cascade({d}, V), V)

-----------------------------------------------------------------------------
(* Transactions *)

\* What a statement of t sees: the committed rows under its own changes.
View(t) == {r \in rows : r.id \notin gone[t] \cup IdsOf(put[t])} \cup put[t]

Touched(t) == gone[t] \cup IdsOf(put[t])

\* The parents of what t has inserted are locked against deletion.
KeyShared(t) ==
  UNION {Refs(r) : r \in {p \in put[t] : p.id \notin IdsOf(rows)}}

\* A row as an UPDATE of superseded_at by t leaves it.
Updated(s, V) ==
  {[r EXCEPT !.current = s.current] :
     r \in {q \in V : q.id = s.id /\ q.table = "findings" /\ q.current # s.current}}

\* A row that s would add to the index, for an insert or an update.
Written(s, V) ==
  CASE s.op = "insert" -> {s.row}
    [] s.op = "update" -> Updated(s, V)
    [] OTHER -> {}

\* u has changed something the statement s of t must know the outcome of.
Blocks(u, t, s) ==
  LET V == View(t)
      removed == IF s.op = "delete"
                 THEN IdsOf(UNION {Deleted(d, V) : d \in {r \in V : r.id = s.id}})
                 ELSE {}
  IN
  /\ u # t
  /\ \/ s.op = "update" /\ s.id \in Touched(u)
     \/ (removed \cup (IF s.op = "delete" THEN {s.id} ELSE {})) \cap Touched(u) # {}
     \/ removed \cap KeyShared(u) # {}
     \/ s.op = "insert" /\ Refs(s.row) \cap gone[u] # {}
     \/ \E w \in Written(s, V) :
          \E q \in put[u] \cup {r \in rows : r.id \in Touched(u)} : Collide(q, w)

Blockers(t) ==
  IF stmt[t] = NULL THEN {} ELSE {u \in Txs : Blocks(u, t, stmt[t])}

\* The constraint or the trigger that makes the statement fail.
Raises(s, V) ==
  \/ s.op = "insert" /\ ~(Refs(s.row) \subseteq IdsOf(V))
  \/ \E w \in Written(s, V), q \in V : Collide(q, w)
  \/ s.op = "update" /\ \E r \in V : r.id = s.id /\ r.table \in ImmutableTables
  \/ s.op = "delete" /\ \E d \in V :
       /\ d.id = s.id
       /\ \/ \E r \in Deleted(d, V) : r.table \in ImmutableTables
          \/ \E r \in V \ Deleted(d, V), q \in Deleted(d, V) :
               RefersTo(r, q.id, {"RESTRICT"})

-----------------------------------------------------------------------------

Init ==
  /\ \E seed \in Seeds : rows = seed.rows /\ lastId = seed.lastId
  /\ put = [t \in Txs |-> {}]
  /\ gone = [t \in Txs |-> {}]
  /\ stmt = [t \in Txs |-> NULL]
  /\ phase = [t \in Txs |-> "open"]
  /\ sent = [t \in Txs |-> 0]

Running(t) == phase[t] = "open" /\ sent[t] > 0

\* What a caller may insert: columns that are NOT NULL have a value, and what
\* it refers to is something it has seen.
Insertable(id, V) ==
  LET known(table) == IdsOf({r \in V : r.table = table}) IN
  [table : {"page_snapshots"}, id : {id}, site_id : known("sites")]
    \cup [table : {"evidence"}, id : {id}, snapshot_id : known("page_snapshots")]
    \cup [table : {"findings"}, id : {id}, site_id : known("sites"),
          identity_hash : Hashes, supersedes_id : known("findings") \cup {NULL},
          current : BOOLEAN]

CanSend(t) ==
  phase[t] = "open" /\ stmt[t] = NULL /\ sent[t] < MaxStatements

\* The default of the primary key is evaluated before the statement can wait.
SendInsert(t) ==
  /\ CanSend(t) /\ lastId < MaxId
  /\ \E r \in Insertable(lastId + 1, View(t)) :
       stmt' = [stmt EXCEPT ![t] = [op |-> "insert", row |-> r]]
  /\ lastId' = lastId + 1
  /\ sent' = [sent EXCEPT ![t] = @ + 1]
  /\ UNCHANGED <<rows, put, gone, phase>>

\* UPDATE ... WHERE id = ..., setting superseded_at or clearing it.
SendUpdate(t) ==
  /\ CanSend(t)
  /\ \E id \in IdsOf({r \in View(t) : r.table # "sites"}), open \in BOOLEAN :
       stmt' = [stmt EXCEPT ![t] = [op |-> "update", id |-> id, current |-> open]]
  /\ sent' = [sent EXCEPT ![t] = @ + 1]
  /\ UNCHANGED <<rows, put, gone, phase, lastId>>

SendDelete(t) ==
  /\ CanSend(t)
  /\ \E id \in IdsOf(View(t)) :
       stmt' = [stmt EXCEPT ![t] = [op |-> "delete", id |-> id]]
  /\ sent' = [sent EXCEPT ![t] = @ + 1]
  /\ UNCHANGED <<rows, put, gone, phase, lastId>>

\* Once nothing blocks it a statement runs on what is committed by then; one
\* whose row is gone or no longer matches changes nothing.
Execute(t) ==
  LET s == stmt[t]
      V == View(t)
      removed == IF s.op = "delete"
                 THEN UNION {Deleted(d, V) : d \in {r \in V : r.id = s.id}}
                 ELSE {}
      written == Written(s, V)
  IN
  /\ s # NULL /\ Blockers(t) = {} /\ ~Raises(s, V)
  /\ put' = [put EXCEPT ![t] =
       {r \in @ : r.id \notin IdsOf(removed \cup written)} \cup written]
  /\ gone' = [gone EXCEPT ![t] = @ \cup IdsOf(removed)]
  /\ stmt' = [stmt EXCEPT ![t] = NULL]
  /\ UNCHANGED <<rows, phase, sent, lastId>>

\* The transaction ends without effect, at once and with all its locks.
Discard(T) ==
  /\ put' = [t \in Txs |-> IF t \in T THEN {} ELSE put[t]]
  /\ gone' = [t \in Txs |-> IF t \in T THEN {} ELSE gone[t]]
  /\ stmt' = [t \in Txs |-> IF t \in T THEN NULL ELSE stmt[t]]
  /\ phase' = [t \in Txs |-> IF t \in T THEN "ended" ELSE phase[t]]
  /\ UNCHANGED <<rows, sent, lastId>>

Fail(t) ==
  /\ stmt[t] # NULL /\ Blockers(t) = {} /\ Raises(stmt[t], View(t))
  /\ Discard({t})

NoCycle(t) == FALSE

\* t waits, through others, for itself.
InCycle(t) ==
  /\ Blockers(t) # {}
  /\ \A S \in SUBSET Txs :
       Blockers(t) \subseteq S /\ (\A u \in S : Blockers(u) \subseteq S) => t \in S

DeadlockVictim(t) == InCycle(t) /\ Discard({t})

\* An exception in the body of the session, or a lost connection.
Rollback(t) == Running(t) /\ Discard({t})

CommitOverOld(t) ==
  /\ Running(t) /\ stmt[t] = NULL
  /\ rows' = {r \in rows : r.id \notin gone[t]} \cup put[t]
  /\ put' = [put EXCEPT ![t] = {}]
  /\ gone' = [gone EXCEPT ![t] = {}]
  /\ phase' = [phase EXCEPT ![t] = "ended"]
  /\ UNCHANGED <<stmt, sent, lastId>>

Commit(t) ==
  /\ Running(t) /\ stmt[t] = NULL
  /\ rows' = View(t)
  /\ put' = [put EXCEPT ![t] = {}]
  /\ gone' = [gone EXCEPT ![t] = {}]
  /\ phase' = [phase EXCEPT ![t] = "ended"]
  /\ UNCHANGED <<stmt, sent, lastId>>

\* The server restarts: what is not committed is lost.
Crash ==
  LET lost == {t \in Txs : Running(t)} IN lost # {} /\ Discard(lost)

Step(t) ==
  \/ SendInsert(t) \/ SendUpdate(t) \/ SendDelete(t)
  \/ Execute(t) \/ Fail(t) \/ DeadlockVictim(t) \/ Rollback(t) \/ Commit(t)

Next == Crash \/ \E t \in Txs : Step(t)

Spec == Init /\ [][Next]_vars

\* The server answers every statement that need not wait and breaks every
\* cycle; the context manager ends every session.
FairSpec ==
  /\ Spec
  /\ \A t \in Txs : /\ WF_vars(Execute(t) \/ Fail(t))
                    /\ WF_vars(DeadlockVictim(t))
                    /\ WF_vars(Commit(t))

-----------------------------------------------------------------------------
(* Properties *)

\* Every variable stays in its domain, and what a transaction sees of an id is
\* one row: the committed one or its own.
TypeOK ==
  /\ rows \subseteq RowType
  /\ put \in [Txs -> SUBSET RowType]
  /\ gone \in [Txs -> SUBSET Ids]
  /\ stmt \in [Txs -> StmtType \cup {NULL}]
  /\ phase \in [Txs -> {"open", "ended"}]
  /\ sent \in [Txs -> 0..MaxStatements]
  /\ lastId \in 0..MaxId
  /\ OneRowPerId(rows) /\ \A t \in Txs : OneRowPerId(put[t])

\* The partial unique index keeps at most one current finding per site and
\* identity, whichever transactions supersede, reopen and insert at once.
AtMostOneCurrent ==
  \A q, r \in rows :
    /\ q.table = "findings" /\ q.current
    /\ r.table = "findings" /\ r.current
    /\ q.site_id = r.site_id /\ q.identity_hash = r.identity_hash
    => q.id = r.id

\* Every committed row can be traced through committed rows: no snapshot, piece
\* of evidence or finding outlives what it refers to, whichever transactions
\* insert it, delete that and end at once.
Traceable == Traced(rows)

\* What was observed stays: no transaction, no cascade and no restart removes
\* or changes a committed snapshot or piece of evidence.
ObservationsStay ==
  [][{r \in rows : r.table \in {"page_snapshots", "evidence"}} \subseteq rows']_vars

\* Transactions that lock rows in opposite orders do not wait for ever.
StatementsReturn == \A t \in Txs : (stmt[t] # NULL) ~> (stmt[t] = NULL)
=============================================================================
