------------------------ MODULE EvidenceLedgerProofs ------------------------
(***************************************************************************)
(* Theorems about EvidenceLedger, for any sites, hashes, transactions,     *)
(* bounds and seeds.                                                       *)
(***************************************************************************)
EXTENDS EvidenceLedger, TLAPS

-----------------------------------------------------------------------------
(* Rows and statements *)

LEMMA RowIds == \A r \in RowType : r.id \in Ids
BY DEF RowType, Ids

LEMMA ViewRows ==
  ASSUME TypeOK, NEW t \in Txs
  PROVE  View(t) \subseteq RowType /\ OneRowPerId(View(t))
<1>1. View(t) \subseteq RowType
  BY DEF View, TypeOK
<1>2. OneRowPerId(View(t))
  BY DEF View, TypeOK, OneRowPerId, IdsOf
<1> QED BY <1>1, <1>2

LEMMA CollideSymmetric ==
  \A q, r : Collide(q, r) => Collide(r, q)
BY DEF Collide

\* What a statement writes is of the row type and has the statement's id.
LEMMA WrittenRows ==
  ASSUME NEW s \in StmtType, NEW V \in SUBSET RowType
  PROVE  /\ Written(s, V) \subseteq RowType
         /\ s.op = "insert" => Written(s, V) = {s.row}
         /\ s.op = "update" => \A w \in Written(s, V) :
              w.id = s.id /\ w.table = "findings" /\
              \E q \in V : q.id = w.id /\ q.table = "findings"
         /\ s.op = "delete" => Written(s, V) = {}
<1>1. s.op \in {"insert", "update", "delete"}
  BY DEF StmtType
<1>2. CASE s.op = "insert"
  <2>1. s.row \in RowType
    BY <1>2 DEF StmtType
  <2> QED BY <1>2, <2>1 DEF Written
<1>3. CASE s.op = "update"
  <2>1. Written(s, V) = Updated(s, V)
    BY <1>3 DEF Written
  <2>2. s.current \in BOOLEAN
    BY <1>3 DEF StmtType
  <2>3. ASSUME NEW q \in V, q.id = s.id, q.table = "findings"
        PROVE  /\ [q EXCEPT !.current = s.current] \in RowType
               /\ [q EXCEPT !.current = s.current].id = s.id
               /\ [q EXCEPT !.current = s.current].table = "findings"
    <3>1. q \in [table : {"findings"}, id : 1..MaxId, site_id : Sites,
                 identity_hash : Hashes, supersedes_id : 1..MaxId \cup {NULL},
                 current : BOOLEAN]
      BY <2>3 DEF RowType
    <3>2. [q EXCEPT !.current = s.current] \in
                [table : {"findings"}, id : 1..MaxId, site_id : Sites,
                 identity_hash : Hashes, supersedes_id : 1..MaxId \cup {NULL},
                 current : BOOLEAN]
      BY <2>2, <3>1
    <3> QED BY <2>3, <3>1, <3>2 DEF RowType
  <2> QED BY <1>3, <2>1, <2>3 DEF Updated
<1>4. CASE s.op = "delete"
  BY <1>4 DEF Written
<1> QED BY <1>1, <1>2, <1>3, <1>4

LEMMA DeletedRows ==
  \A V, d : d \in V => d \in Deleted(d, V) /\ Deleted(d, V) \subseteq V
BY DEF Deleted, Cascade

-----------------------------------------------------------------------------
(* One transaction's step *)

Removed(t) ==
  IF stmt[t].op = "delete"
  THEN UNION {Deleted(d, View(t)) : d \in {r \in View(t) : r.id = stmt[t].id}}
  ELSE {}

LEMMA ExecuteStep ==
  ASSUME TypeOK, NEW t \in Txs, Execute(t)
  PROVE  /\ stmt[t] \in StmtType
         /\ Removed(t) \subseteq View(t)
         /\ Written(stmt[t], View(t)) \subseteq RowType
         /\ put' = [put EXCEPT ![t] =
              {r \in put[t] : r.id \notin IdsOf(Removed(t) \cup Written(stmt[t], View(t)))}
                \cup Written(stmt[t], View(t))]
         /\ gone' = [gone EXCEPT ![t] = gone[t] \cup IdsOf(Removed(t))]
         /\ stmt' = [stmt EXCEPT ![t] = NULL]
         /\ UNCHANGED <<rows, phase, sent, lastId>>
<1>1. stmt[t] \in StmtType
  BY DEF Execute, TypeOK
<1>2. Removed(t) \subseteq View(t)
  BY DeletedRows DEF Removed
<1> QED
  BY <1>1, <1>2, WrittenRows, ViewRows DEF Execute, Removed, TypeOK

\* What a transaction sees after a statement is what it saw, less the rows the
\* statement removed or rewrote, and what it wrote.
LEMMA ViewAfter ==
  ASSUME TypeOK, NEW t \in Txs, Execute(t)
  PROVE  /\ \A r \in View(t)' : \/ r \in Written(stmt[t], View(t))
                                \/ r \in View(t)
         /\ \A u \in Txs \ {t} : View(u)' = View(u)
<1> DEFINE W == Written(stmt[t], View(t))
<1>1. /\ put'[t] = {r \in put[t] : r.id \notin IdsOf(Removed(t) \cup W)} \cup W
      /\ gone'[t] = gone[t] \cup IdsOf(Removed(t))
      /\ rows' = rows
      /\ \A u \in Txs \ {t} : put'[u] = put[u] /\ gone'[u] = gone[u]
  BY ExecuteStep DEF TypeOK
<1> HIDE DEF W
<1>2. ASSUME NEW r \in rows, r.id \notin gone'[t], r.id \notin IdsOf(put'[t])
      PROVE  r.id \notin gone[t] /\ r.id \notin IdsOf(put[t])
  BY <1>1, <1>2 DEF IdsOf
<1>3. \A r \in View(t)' : r \in W \/ r \in View(t)
  BY <1>1, <1>2 DEF View
<1>4. \A u \in Txs \ {t} : View(u)' = View(u)
  BY <1>1 DEF View
<1> QED BY <1>3, <1>4 DEF W

-----------------------------------------------------------------------------
(* Types *)

\* Ids are handed out once: rows that share an id are versions of one row, and
\* no other row or statement has the id of a statement that waits to insert.
Identified ==
  /\ \A r \in rows : r.id \in Sites \cup 1..lastId
  /\ \A t \in Txs : \A r \in put[t] : r.id \in Sites \cup 1..lastId
  /\ \A t \in Txs : \A p \in put[t], q \in rows : p.id = q.id => p.table = q.table
  /\ \A t, u \in Txs : \A p \in put[t], q \in put[u] : p.id = q.id => p.table = q.table

Inserts(t) == stmt[t] # NULL /\ stmt[t].op = "insert"

Fresh ==
  \A t \in Txs : Inserts(t) =>
    /\ stmt[t].row.id \in 1..lastId
    /\ stmt[t].row.id \notin IdsOf(rows)
    /\ \A u \in Txs : stmt[t].row.id \notin IdsOf(put[u])
    /\ \A u \in Txs : u # t /\ Inserts(u) => stmt[u].row.id # stmt[t].row.id

LEMMA InitType == Init => TypeOK /\ Identified /\ Fresh
<1>1. SUFFICES ASSUME Init PROVE TypeOK /\ Identified /\ Fresh
  OBVIOUS
<1>2. PICK seed \in Seeds : rows = seed.rows /\ lastId = seed.lastId
  BY <1>1 DEF Init
<1>3. /\ rows \subseteq RowType /\ OneRowPerId(rows) /\ lastId \in 0..MaxId
      /\ \A r \in rows : r.id \in Sites \cup 1..lastId
  BY <1>2, SeedAssumption
<1>4. OneRowPerId({})
  BY DEF OneRowPerId
<1> QED
  BY <1>1, <1>3, <1>4, LedgerAssumption
     DEF Init, TypeOK, Identified, Fresh, Inserts

LEMMA ExecuteType ==
  ASSUME TypeOK, Identified, Fresh, NEW t \in Txs, Execute(t)
  PROVE  TypeOK' /\ Identified' /\ Fresh'
<1> DEFINE s == stmt[t]
           V == View(t)
           W == Written(s, V)
<1>1. /\ s \in StmtType /\ s # NULL
      /\ Removed(t) \subseteq V /\ W \subseteq RowType /\ V \subseteq RowType
      /\ put' = [put EXCEPT ![t] =
           {r \in put[t] : r.id \notin IdsOf(Removed(t) \cup W)} \cup W]
      /\ gone' = [gone EXCEPT ![t] = gone[t] \cup IdsOf(Removed(t))]
      /\ stmt' = [stmt EXCEPT ![t] = NULL]
      /\ UNCHANGED <<rows, phase, sent, lastId>>
  BY ExecuteStep, ViewRows DEF Execute
<1>2. V = {r \in rows : r.id \notin gone[t] \cup IdsOf(put[t])} \cup put[t]
  BY DEF View
<1>3. /\ s.op \in {"insert", "update", "delete"}
      /\ s.op = "insert" => W = {s.row}
      /\ s.op = "update" => \A w \in W :
           w.id = s.id /\ w.table = "findings" /\
           \E q \in V : q.id = w.id /\ q.table = "findings"
      /\ s.op = "delete" => W = {}
  BY <1>1, WrittenRows DEF StmtType
<1>4. s.op = "update" => \A w, x \in W : w = x
  <2>1. SUFFICES ASSUME s.op = "update", NEW w \in W, NEW x \in W PROVE w = x
    OBVIOUS
  <2>2. W = Updated(s, V)
    BY <2>1 DEF Written
  <2>3. PICK q \in V : q.id = s.id /\ w = [q EXCEPT !.current = s.current]
    BY <2>1, <2>2 DEF Updated
  <2>4. PICK r \in V : r.id = s.id /\ x = [r EXCEPT !.current = s.current]
    BY <2>1, <2>2 DEF Updated
  <2>5. q = r
    BY <2>3, <2>4, ViewRows DEF OneRowPerId
  <2> QED BY <2>3, <2>4, <2>5
<1> HIDE DEF s, V, W
<1>5. OneRowPerId(W)
  BY <1>3, <1>4 DEF OneRowPerId
<1>6. OneRowPerId(put'[t])
  <2>1. put'[t] = {r \in put[t] : r.id \notin IdsOf(Removed(t) \cup W)} \cup W
    BY <1>1 DEF TypeOK
  <2>2. OneRowPerId(put[t])
    BY DEF TypeOK
  <2> QED BY <1>5, <2>1, <2>2 DEF OneRowPerId, IdsOf
<1>7. TypeOK'
  <2>1. IdsOf(Removed(t)) \subseteq Ids
    BY <1>1, RowIds DEF IdsOf
  <2>2. put' \in [Txs -> SUBSET RowType] /\ gone' \in [Txs -> SUBSET Ids]
    BY <1>1, <2>1 DEF TypeOK
  <2>3. \A u \in Txs : OneRowPerId(put'[u])
    BY <1>1, <1>6 DEF TypeOK
  <2>4. stmt' \in [Txs -> StmtType \cup {NULL}]
    BY <1>1 DEF TypeOK
  <2> QED BY <1>1, <2>2, <2>3, <2>4 DEF TypeOK
\* A row it writes has an id of its own or is a finding that is seen.
<1>8. ASSUME NEW w \in W
      PROVE  /\ w.id \in Sites \cup 1..lastId
             /\ \/ /\ s.op = "insert" /\ w = s.row
                   /\ w.id \notin IdsOf(rows)
                   /\ \A u \in Txs : w.id \notin IdsOf(put[u])
                \/ \E q \in V : q.id = w.id /\ q.table = w.table
  <2>1. CASE s.op = "insert"
    BY <1>1, <1>3, <2>1 DEF Fresh, Inserts, s
  <2>2. CASE s.op = "update"
    <3>1. PICK q \in V : q.id = w.id /\ q.table = w.table
      BY <1>3, <2>2
    <3> QED BY <1>2, <3>1 DEF Identified
  <2> QED BY <1>3, <2>1, <2>2
<1>9. ASSUME NEW w \in W, NEW u \in Txs, NEW q \in rows \cup put[u], w.id = q.id
      PROVE  w.table = q.table
  <2>1. PICK r \in V : r.id = w.id /\ r.table = w.table
    BY <1>8, <1>9 DEF IdsOf
  <2> QED BY <1>2, <1>9, <2>1 DEF Identified, TypeOK, OneRowPerId
<1>10. \A u \in Txs : \A p \in put'[u] : p \in put[u] \/ p \in W
  BY <1>1 DEF TypeOK
<1>11. Identified'
  <2>1. \A w, x \in W : w.id = x.id => w.table = x.table
    BY <1>5 DEF OneRowPerId
  <2>2. \A u \in Txs : \A p \in put'[u] : p.id \in Sites \cup 1..lastId
    BY <1>8, <1>10 DEF Identified
  <2>3. \A u \in Txs : \A p \in put'[u], q \in rows : p.id = q.id => p.table = q.table
    BY <1>9, <1>10 DEF Identified
  <2>4. ASSUME NEW u \in Txs, NEW v \in Txs, NEW p \in put'[u], NEW q \in put'[v],
               p.id = q.id
        PROVE  p.table = q.table
    <3>1. CASE p \in W /\ q \in W
      BY <2>1, <2>4, <3>1
    <3>2. CASE p \in W /\ q \in put[v]
      BY <1>9, <2>4, <3>2
    <3>3. CASE p \in put[u] /\ q \in W
      BY <1>9, <2>4, <3>3
    <3>4. CASE p \in put[u] /\ q \in put[v]
      BY <2>4, <3>4 DEF Identified
    <3> QED BY <1>10, <3>1, <3>2, <3>3, <3>4
  <2>5. lastId' = lastId /\ rows' = rows
    BY <1>1
  <2>6. \A r \in rows : r.id \in Sites \cup 1..lastId
    BY DEF Identified
  <2> QED BY <2>2, <2>3, <2>4, <2>5, <2>6 DEF Identified
<1>12. Fresh'
  <2>1. SUFFICES ASSUME NEW u \in Txs, Inserts(u)'
                 PROVE  /\ stmt'[u].row.id \in 1..lastId'
                        /\ stmt'[u].row.id \notin IdsOf(rows')
                        /\ \A v \in Txs : stmt'[u].row.id \notin IdsOf(put'[v])
                        /\ \A v \in Txs : v # u /\ Inserts(v)' =>
                             stmt'[v].row.id # stmt'[u].row.id
    BY DEF Fresh, IdsOf
  <2>2. u # t /\ stmt'[u] = stmt[u] /\ Inserts(u)
    BY <1>1, <2>1 DEF Inserts, TypeOK
  <2>3. \A v \in Txs : Inserts(v)' => stmt'[v] = stmt[v] /\ Inserts(v)
    BY <1>1 DEF Inserts, TypeOK
  <2>4. \A w \in W : w.id # stmt[u].row.id
    <3>1. SUFFICES ASSUME NEW w \in W, w.id = stmt[u].row.id PROVE FALSE
      OBVIOUS
    <3>2. CASE s.op = "insert" /\ w = s.row
      BY <1>1, <2>2, <3>1, <3>2 DEF Fresh, Inserts, s
    <3>3. CASE \E q \in V : q.id = w.id
      BY <1>2, <2>2, <3>1, <3>3 DEF Fresh, IdsOf
    <3> QED BY <1>8, <3>2, <3>3
  <2>5. \A v \in Txs : stmt[u].row.id \notin IdsOf(put'[v])
    BY <1>10, <2>2, <2>4 DEF Fresh, IdsOf
  <2> QED BY <1>1, <2>2, <2>3, <2>5 DEF Fresh
<1> QED BY <1>7, <1>11, <1>12

LEMMA SendType ==
  ASSUME TypeOK, Identified, Fresh, NEW t \in Txs,
         SendInsert(t) \/ SendUpdate(t) \/ SendDelete(t)
  PROVE  /\ TypeOK' /\ Identified' /\ Fresh'
         /\ UNCHANGED <<rows, put, gone, phase>>
<1>1. UNCHANGED <<rows, put, gone, phase>>
  BY DEF SendInsert, SendUpdate, SendDelete
<1>2. sent' = [sent EXCEPT ![t] = @ + 1] /\ sent[t] < MaxStatements
  BY DEF SendInsert, SendUpdate, SendDelete, CanSend
<1>3. sent' \in [Txs -> 0..MaxStatements]
  BY <1>2, LedgerAssumption DEF TypeOK
<1>4. View(t) \subseteq RowType
  BY ViewRows
<1>5. CASE SendInsert(t)
  <2>1. PICK r \in Insertable(lastId + 1, View(t)) :
             stmt' = [stmt EXCEPT ![t] = [op |-> "insert", row |-> r]]
    BY <1>5 DEF SendInsert
  <2>2. lastId' = lastId + 1 /\ lastId < MaxId /\ lastId \in Nat /\ lastId' \in 1..MaxId
    BY <1>5, LedgerAssumption DEF SendInsert, TypeOK
  <2> DEFINE known(table) == IdsOf({q \in View(t) : q.table = table})
  <2>3. known("sites") \subseteq Sites
    BY <1>4 DEF IdsOf, RowType
  <2>4. known("page_snapshots") \subseteq 1..MaxId /\ known("findings") \subseteq 1..MaxId
    BY <1>4 DEF IdsOf, RowType
  <2>5. r \in RowType /\ r.id = lastId'
    <3>1. r \in [table : {"page_snapshots"}, id : {lastId'}, site_id : known("sites")]
                \cup [table : {"evidence"}, id : {lastId'},
                      snapshot_id : known("page_snapshots")]
                \cup [table : {"findings"}, id : {lastId'}, site_id : known("sites"),
                      identity_hash : Hashes,
                      supersedes_id : known("findings") \cup {NULL},
                      current : BOOLEAN]
      BY <2>1, <2>2 DEF Insertable
    <3> HIDE DEF known
    <3> QED BY <2>2, <2>3, <2>4, <3>1 DEF RowType
  <2>6. stmt' \in [Txs -> StmtType \cup {NULL}]
    BY <2>1, <2>5 DEF TypeOK, StmtType
  <2>7. TypeOK'
    BY <1>1, <1>3, <2>2, <2>6 DEF TypeOK
  <2>8. \A i \in Sites \cup 1..lastId : i \in Sites \cup 1..lastId' /\ i # lastId'
    BY <2>2, LedgerAssumption
  <2>9. Identified'
    BY <1>1, <2>8 DEF Identified
  <2>10. \A u \in Txs \ {t} : stmt'[u] = stmt[u]
    BY <2>1 DEF TypeOK
  <2>11. stmt'[t].row.id = lastId'
    BY <2>1, <2>5 DEF TypeOK
  <2>12. lastId' \in 1..lastId' /\ lastId' \notin IdsOf(rows)
         /\ \A u \in Txs : lastId' \notin IdsOf(put[u])
    BY <2>2, <2>8 DEF Identified, IdsOf
  <2>13. \A u \in Txs \ {t} : Inserts(u)' => Inserts(u) /\ stmt'[u].row.id = stmt[u].row.id
                               /\ stmt[u].row.id \in 1..lastId
    BY <2>10 DEF Inserts, Fresh
  <2>14. Fresh'
    <3>1. SUFFICES ASSUME NEW u \in Txs, Inserts(u)'
                 PROVE  /\ stmt'[u].row.id \in 1..lastId'
                        /\ stmt'[u].row.id \notin IdsOf(rows)
                        /\ \A v \in Txs : stmt'[u].row.id \notin IdsOf(put[v])
                        /\ \A v \in Txs : v # u /\ Inserts(v)' =>
                             stmt'[v].row.id # stmt'[u].row.id
      BY <1>1 DEF Fresh, IdsOf
    <3>2. CASE u = t
      BY <2>8, <2>11, <2>12, <2>13, <3>2
    <3>3. CASE u # t
      <4>1. Inserts(u) /\ stmt'[u] = stmt[u] /\ stmt[u].row.id \in 1..lastId
        BY <2>10, <2>13, <3>1, <3>3
      <4>2. stmt[u].row.id \in 1..lastId' /\ stmt[u].row.id # lastId'
        BY <2>2, <4>1
      <4>3. \A v \in Txs : v # u /\ Inserts(v)' => stmt'[v].row.id # stmt[u].row.id
        BY <2>10, <2>11, <2>13, <4>1, <4>2 DEF Fresh
      <4> QED BY <4>1, <4>2, <4>3 DEF Fresh
    <3> QED BY <3>2, <3>3
  <2> QED BY <1>1, <2>7, <2>9, <2>14
<1>6. CASE SendUpdate(t) \/ SendDelete(t)
  <2>1. PICK s \in StmtType : s.op # "insert" /\ stmt' = [stmt EXCEPT ![t] = s]
    <3>1. CASE SendUpdate(t)
      <4>1. PICK id \in IdsOf({r \in View(t) : r.table # "sites"}), open \in BOOLEAN :
              stmt' = [stmt EXCEPT ![t] = [op |-> "update", id |-> id, current |-> open]]
        BY <3>1 DEF SendUpdate
      <4>2. id \in 1..MaxId
        BY <1>4 DEF IdsOf, RowType
      <4> QED BY <4>1, <4>2 DEF StmtType
    <3>2. CASE SendDelete(t)
      <4>1. PICK id \in IdsOf(View(t)) :
              stmt' = [stmt EXCEPT ![t] = [op |-> "delete", id |-> id]]
        BY <3>2 DEF SendDelete
      <4>2. id \in Ids
        BY <1>4, RowIds DEF IdsOf
      <4> QED BY <4>1, <4>2 DEF StmtType
    <3> QED BY <1>6, <3>1, <3>2
  <2>2. lastId' = lastId
    BY <1>6 DEF SendUpdate, SendDelete
  <2>3. TypeOK' /\ Identified'
    BY <1>1, <1>3, <2>1, <2>2 DEF TypeOK, Identified
  <2>4. \A u \in Txs : Inserts(u)' => Inserts(u) /\ stmt'[u] = stmt[u]
    BY <2>1 DEF Inserts, TypeOK
  <2>5. Fresh'
    BY <1>1, <2>2, <2>4 DEF Fresh, IdsOf
  <2> QED BY <1>1, <2>3, <2>5
<1> QED BY <1>5, <1>6

LEMMA DiscardType ==
  ASSUME TypeOK, Identified, Fresh, NEW T \in SUBSET Txs, Discard(T)
  PROVE  TypeOK' /\ Identified' /\ Fresh'
<1>1. \A u \in Txs : put'[u] \subseteq put[u] /\ gone'[u] \subseteq gone[u]
                     /\ (stmt'[u] = stmt[u] \/ stmt'[u] = NULL)
  BY DEF Discard
<1>2. TypeOK'
  <2>1. put' \in [Txs -> SUBSET RowType] /\ gone' \in [Txs -> SUBSET Ids]
        /\ stmt' \in [Txs -> StmtType \cup {NULL}]
        /\ phase' \in [Txs -> {"open", "ended"}]
    BY DEF Discard, TypeOK
  <2>2. \A u \in Txs : OneRowPerId(put'[u])
    BY <1>1 DEF TypeOK, OneRowPerId
  <2> QED BY <2>1, <2>2 DEF TypeOK, Discard
<1>3. Identified'
  BY <1>1 DEF Identified, Discard
<1>4. \A u \in Txs : Inserts(u)' => Inserts(u) /\ stmt'[u] = stmt[u]
  BY <1>1 DEF Inserts
<1>5. Fresh'
  BY <1>1, <1>4 DEF Fresh, IdsOf, Discard
<1> QED BY <1>2, <1>3, <1>5

LEMMA CommitType ==
  ASSUME TypeOK, Identified, Fresh, NEW t \in Txs, Commit(t)
  PROVE  TypeOK' /\ Identified' /\ Fresh'
<1>1. /\ rows' = View(t)
      /\ put' = [put EXCEPT ![t] = {}] /\ gone' = [gone EXCEPT ![t] = {}]
      /\ phase' = [phase EXCEPT ![t] = "ended"]
      /\ UNCHANGED <<stmt, sent, lastId>>
  BY DEF Commit
<1>2. \A r \in rows' : r \in rows \/ r \in put[t]
  BY <1>1 DEF View
<1>3. \A u \in Txs : put'[u] \subseteq put[u]
  BY <1>1 DEF TypeOK
<1>4. TypeOK'
  <2>1. rows' \subseteq RowType /\ OneRowPerId(rows')
    BY <1>1, ViewRows
  <2>2. put' \in [Txs -> SUBSET RowType] /\ gone' \in [Txs -> SUBSET Ids]
        /\ phase' \in [Txs -> {"open", "ended"}]
    BY <1>1 DEF TypeOK
  <2>3. \A u \in Txs : OneRowPerId(put'[u])
    BY <1>3 DEF TypeOK, OneRowPerId
  <2> QED BY <1>1, <2>1, <2>2, <2>3 DEF TypeOK
<1>5. Identified'
  <2>1. /\ \A r \in rows' : r.id \in Sites \cup 1..lastId
        /\ \A u \in Txs : \A r \in put'[u] : r.id \in Sites \cup 1..lastId
    BY <1>2, <1>3 DEF Identified
  <2>2. \A u \in Txs : \A p \in put'[u], q \in rows' : p.id = q.id => p.table = q.table
    BY <1>2, <1>3 DEF Identified
  <2>3. \A u, v \in Txs : \A p \in put'[u], q \in put'[v] :
          p.id = q.id => p.table = q.table
    BY <1>3 DEF Identified
  <2> QED BY <1>1, <2>1, <2>2, <2>3 DEF Identified
<1>6. \A u \in Txs : Inserts(u)' <=> Inserts(u)
  BY <1>1 DEF Inserts
<1>7. Fresh'
  BY <1>1, <1>2, <1>3, <1>6 DEF Fresh, IdsOf
<1> QED BY <1>4, <1>5, <1>7

\* What a step may do: every action that is not a statement's or a commit
\* sends or discards.
LEMMA NextCases ==
  ASSUME [Next]_vars
  PROVE  \/ \E t \in Txs : Execute(t)
         \/ \E t \in Txs : Commit(t)
         \/ \E t \in Txs : SendInsert(t) \/ SendUpdate(t) \/ SendDelete(t)
         \/ \E T \in SUBSET Txs : Discard(T)
         \/ UNCHANGED vars
<1>1. CASE Crash
  <2>1. {t \in Txs : Running(t)} \in SUBSET Txs
    OBVIOUS
  <2> QED BY <1>1, <2>1 DEF Crash
<1>2. CASE \E t \in Txs : Step(t)
  <2>1. PICK t \in Txs : Step(t)
    BY <1>2
  <2>2. {t} \in SUBSET Txs
    OBVIOUS
  <2> QED BY <2>1, <2>2 DEF Step, Fail, DeadlockVictim, Rollback
<1> QED BY <1>1, <1>2 DEF Next

LEMMA NextType ==
  TypeOK /\ Identified /\ Fresh /\ [Next]_vars => TypeOK' /\ Identified' /\ Fresh'
<1>1. SUFFICES ASSUME TypeOK, Identified, Fresh, [Next]_vars
               PROVE  TypeOK' /\ Identified' /\ Fresh'
  OBVIOUS
<1>2. CASE UNCHANGED vars
  <2>1. TypeOK'
    BY <1>1, <1>2 DEF vars, TypeOK
  <2>2. Identified'
    BY <1>1, <1>2 DEF vars, Identified
  <2>3. \A t \in Txs : Inserts(t)' <=> Inserts(t)
    BY <1>2 DEF vars, Inserts
  <2>4. Fresh'
    BY <1>1, <1>2, <2>3 DEF vars, Fresh, IdsOf
  <2> QED BY <2>1, <2>2, <2>4
<1> QED
  BY <1>1, <1>2, NextCases, ExecuteType, SendType, DiscardType, CommitType

\* Rows, statements and ids keep their types, and an id names one row.
THEOREM TypesHold == Spec => []TypeOK
BY InitType, NextType, PTL DEF Spec

-----------------------------------------------------------------------------
(* At most one current finding *)

\* No two rows that may be committed together collide: those committed, those
\* one transaction sees, and those two transactions have written.
NoCollisions ==
  /\ \A q, r \in rows : ~Collide(q, r)
  /\ \A t \in Txs : \A q, r \in View(t) : ~Collide(q, r)
  /\ \A t, u \in Txs : t # u => \A q \in put[t], r \in put[u] : ~Collide(q, r)

LEMMA InitCollisions == Init => NoCollisions
<1>1. SUFFICES ASSUME Init PROVE NoCollisions
  OBVIOUS
<1>2. \A q, r \in rows : ~Collide(q, r)
  BY <1>1, SeedAssumption DEF Init
<1>3. \A t \in Txs : View(t) \subseteq rows /\ put[t] = {}
  BY <1>1 DEF Init, View
<1> QED BY <1>2, <1>3 DEF NoCollisions

LEMMA ExecuteCollisions ==
  ASSUME TypeOK, NoCollisions, NEW t \in Txs, Execute(t)
  PROVE  NoCollisions'
<1> DEFINE W == Written(stmt[t], View(t))
<1>0. /\ rows' = rows /\ stmt[t] \in StmtType
      /\ put' = [put EXCEPT ![t] =
           {r \in put[t] : r.id \notin IdsOf(Removed(t) \cup W)} \cup W]
  BY ExecuteStep
<1>1. /\ rows' = rows
      /\ \A u \in Txs : \A p \in put'[u] : p \in put[u] \/ (u = t /\ p \in W)
      /\ stmt[t] \in StmtType
  <2> HIDE DEF W
  <2> QED BY <1>0 DEF TypeOK
<1>2. \A w \in W, q \in View(t) : ~Collide(q, w) /\ ~Collide(w, q)
  <2>1. \A w \in W, q \in View(t) : ~Collide(w, q)
    BY DEF Execute, Raises, Collide
  <2> QED BY <2>1, CollideSymmetric
<1>3. \A w \in W, u \in Txs \ {t} : \A q \in put[u] : ~Collide(q, w) /\ ~Collide(w, q)
  <2>1. SUFFICES ASSUME NEW w \in W, NEW u \in Txs \ {t}, NEW q \in put[u]
                 PROVE  ~Collide(q, w)
    BY CollideSymmetric
  <2>2. Blockers(t) = {} /\ stmt[t] # NULL
    BY DEF Execute
  <2>3. ~Blocks(u, t, stmt[t])
    BY <2>2 DEF Blockers
  <2> QED BY <2>3 DEF Blocks
<1>4. \A w, x \in W : ~Collide(w, x)
  <2>1. \A w, x \in W : w.id = x.id
    BY <1>1, WrittenRows, ViewRows DEF StmtType
  <2> QED BY <2>1 DEF Collide
<1>5. \A r \in View(t)' : r \in W \/ r \in View(t)
  BY ViewAfter
<1>6. \A u \in Txs \ {t} : View(u)' = View(u)
  BY ViewAfter
<1> HIDE DEF W
<1>7. \A q, r \in View(t)' : ~Collide(q, r)
  BY <1>2, <1>4, <1>5 DEF NoCollisions
<1>8. \A u, v \in Txs : u # v => \A q \in put'[u], r \in put'[v] : ~Collide(q, r)
  <2>1. SUFFICES ASSUME NEW u \in Txs, NEW v \in Txs, u # v,
                        NEW q \in put'[u], NEW r \in put'[v]
                 PROVE  ~Collide(q, r)
    OBVIOUS
  <2>2. CASE q \in put[u] /\ r \in put[v]
    BY <2>1, <2>2 DEF NoCollisions
  <2>3. CASE u = t /\ q \in W
    <3>1. r \in put[v] /\ v \in Txs \ {t}
      BY <1>1, <2>1, <2>3
    <3> QED BY <1>3, <2>3, <3>1
  <2>4. CASE v = t /\ r \in W
    <3>1. q \in put[u] /\ u \in Txs \ {t}
      BY <1>1, <2>1, <2>4
    <3> QED BY <1>3, <2>4, <3>1
  <2> QED BY <1>1, <2>1, <2>2, <2>3, <2>4
<1>9. \A u \in Txs : \A q, r \in View(u)' : ~Collide(q, r)
  BY <1>6, <1>7 DEF NoCollisions
<1>10. \A q, r \in rows' : ~Collide(q, r)
  BY <1>1 DEF NoCollisions
<1> QED BY <1>8, <1>9, <1>10 DEF NoCollisions

LEMMA CommitCollisions ==
  ASSUME TypeOK, NoCollisions, NEW t \in Txs, Commit(t)
  PROVE  NoCollisions'
<1>1. /\ rows' = View(t)
      /\ put'[t] = {} /\ gone'[t] = {}
      /\ \A u \in Txs \ {t} : put'[u] = put[u] /\ gone'[u] = gone[u]
  BY DEF Commit, TypeOK
<1>2. \A q, r \in rows' : ~Collide(q, r)
  BY <1>1 DEF NoCollisions
<1>3. \A u, v \in Txs : u # v => \A q \in put'[u], r \in put'[v] : ~Collide(q, r)
  BY <1>1 DEF NoCollisions
<1>4. ASSUME NEW u \in Txs, NEW q \in View(u)', NEW r \in View(u)'
      PROVE  ~Collide(q, r)
  <2>1. CASE u = t
    <3>1. q \in rows' /\ r \in rows'
      BY <1>1, <1>4, <2>1 DEF View
    <3> QED BY <1>2, <3>1
  <2>2. CASE u # t
    \* What u sees now it saw before, or t has written it.
    <3>1. \A x \in View(u)' : x \in View(u) \/ x \in put[t]
      BY <1>1, <2>2 DEF View
    <3>2. \A x \in View(u)' : x \in rows' \/ x \in put[u]
      BY <1>1, <2>2 DEF View
    <3>3. CASE q \in View(u) /\ r \in View(u)
      BY <3>3 DEF NoCollisions
    <3>4. CASE q \in put[t] /\ r \in put[u]
      BY <2>2, <3>4 DEF NoCollisions
    <3>5. CASE q \in put[u] /\ r \in put[t]
      BY <2>2, <3>5 DEF NoCollisions
    <3>6. put[u] \subseteq View(u)
      BY DEF View
    <3>7. CASE q \in rows' /\ r \in rows'
      BY <1>2, <3>7
    <3> QED BY <1>4, <3>1, <3>2, <3>3, <3>4, <3>5, <3>6, <3>7
  <2> QED BY <2>1, <2>2
<1> QED BY <1>2, <1>3, <1>4 DEF NoCollisions

LEMMA DiscardCollisions ==
  ASSUME NoCollisions, NEW T \in SUBSET Txs, Discard(T)
  PROVE  NoCollisions'
<1>1. /\ rows' = rows
      /\ \A u \in Txs : \/ put'[u] = put[u] /\ gone'[u] = gone[u]
                        \/ put'[u] = {} /\ gone'[u] = {}
  BY DEF Discard
<1>2. \A u \in Txs : View(u)' = View(u) \/ View(u)' \subseteq rows
  BY <1>1 DEF View
<1>3. \A u \in Txs : put'[u] \subseteq put[u]
  BY <1>1
<1>4. \A u \in Txs : \A q, r \in View(u)' : ~Collide(q, r)
  BY <1>2 DEF NoCollisions
<1>5. \A u, v \in Txs : u # v => \A q \in put'[u], r \in put'[v] : ~Collide(q, r)
  BY <1>3 DEF NoCollisions
<1> QED BY <1>1, <1>4, <1>5 DEF NoCollisions

LEMMA NextCollisions ==
  TypeOK /\ Identified /\ Fresh /\ NoCollisions /\ [Next]_vars => NoCollisions'
<1>1. SUFFICES ASSUME TypeOK, Identified, Fresh, NoCollisions, [Next]_vars
               PROVE  NoCollisions'
  OBVIOUS
<1>2. CASE \/ \E t \in Txs : SendInsert(t) \/ SendUpdate(t) \/ SendDelete(t)
           \/ UNCHANGED vars
  <2>1. rows' = rows /\ put' = put /\ gone' = gone
    BY <1>2 DEF SendInsert, SendUpdate, SendDelete, vars
  <2>2. \A t : View(t)' = View(t)
    BY <2>1 DEF View
  <2> QED BY <1>1, <2>1, <2>2 DEF NoCollisions
<1> QED
  BY <1>1, <1>2, NextCases, ExecuteCollisions, CommitCollisions, DiscardCollisions

\* However many transactions supersede, reopen and insert at once, one site
\* has one current finding of an identity at most.
THEOREM OneCurrent == Spec => []AtMostOneCurrent
<1>1. NoCollisions => AtMostOneCurrent
  BY DEF NoCollisions, AtMostOneCurrent, Collide
<1> QED
  BY <1>1, InitType, NextType, InitCollisions, NextCollisions, PTL DEF Spec

-----------------------------------------------------------------------------
(* Observations *)

\* What has been deleted had an id that was handed out, and no statement that
\* waits to insert has it.
GoneIds ==
  \A t \in Txs : /\ gone[t] \subseteq Sites \cup 1..lastId
                 /\ \A u \in Txs : Inserts(u) => stmt[u].row.id \notin gone[t]

LEMMA InitGone == Init => GoneIds
BY DEF Init, GoneIds

LEMMA NextGone ==
  TypeOK /\ Identified /\ Fresh /\ GoneIds /\ [Next]_vars => GoneIds'
<1>1. SUFFICES ASSUME TypeOK, Identified, Fresh, GoneIds, [Next]_vars PROVE GoneIds'
  OBVIOUS
<1>2. ASSUME NEW t \in Txs, Execute(t) PROVE GoneIds'
  <2>1. /\ gone' = [gone EXCEPT ![t] = gone[t] \cup IdsOf(Removed(t))]
        /\ stmt' = [stmt EXCEPT ![t] = NULL] /\ lastId' = lastId
        /\ Removed(t) \subseteq View(t)
    BY <1>1, <1>2, ExecuteStep
  <2>2. IdsOf(Removed(t)) \subseteq IdsOf(rows) \cup IdsOf(put[t])
    BY <2>1 DEF View, IdsOf
  <2>3. IdsOf(Removed(t)) \subseteq Sites \cup 1..lastId
    BY <1>1, <2>2 DEF Identified, IdsOf
  <2>4. \A u \in Txs : Inserts(u)' =>
          /\ Inserts(u) /\ stmt'[u] = stmt[u]
          /\ stmt[u].row.id \notin IdsOf(Removed(t))
    BY <1>1, <2>1, <2>2 DEF Inserts, Fresh, TypeOK
  <2> QED BY <1>1, <2>1, <2>3, <2>4 DEF GoneIds, TypeOK
<1>3. ASSUME NEW t \in Txs, SendInsert(t) \/ SendUpdate(t) \/ SendDelete(t)
      PROVE  GoneIds'
  <2>1. gone' = gone /\ lastId \in Nat
    BY <1>1, <1>3, SendType DEF TypeOK, SendInsert, SendUpdate, SendDelete
  <2>2. CASE SendInsert(t)
    <3>1. lastId' = lastId + 1
      BY <2>2 DEF SendInsert
    <3>2. \A u \in Txs : gone[u] \subseteq Sites \cup 1..lastId'
                         /\ lastId' \notin gone[u]
      BY <1>1, <2>1, <3>1, LedgerAssumption DEF GoneIds
    <3>3. PICK r \in Insertable(lastId + 1, View(t)) :
            stmt' = [stmt EXCEPT ![t] = [op |-> "insert", row |-> r]]
      BY <2>2 DEF SendInsert
    <3>4. r.id = lastId'
      BY <3>1, <3>3 DEF Insertable
    <3>5. \A u \in Txs : Inserts(u)' => \/ Inserts(u) /\ stmt'[u] = stmt[u]
                                        \/ stmt'[u].row.id = lastId'
      BY <1>1, <3>3, <3>4 DEF Inserts, TypeOK
    <3> QED BY <1>1, <2>1, <3>2, <3>5 DEF GoneIds
  <2>3. CASE SendUpdate(t) \/ SendDelete(t)
    <3>1. lastId' = lastId
      BY <2>3 DEF SendUpdate, SendDelete
    <3>2. \A u \in Txs : Inserts(u)' => Inserts(u) /\ stmt'[u] = stmt[u]
      <4>1. PICK s : s.op # "insert" /\ stmt' = [stmt EXCEPT ![t] = s]
        <5>1. CASE SendUpdate(t)
          <6>1. PICK id \in IdsOf({r \in View(t) : r.table # "sites"}), open \in BOOLEAN :
                  stmt' = [stmt EXCEPT ![t] =
                             [op |-> "update", id |-> id, current |-> open]]
            BY <5>1 DEF SendUpdate
          <6>2. [op |-> "update", id |-> id, current |-> open].op # "insert"
            OBVIOUS
          <6> QED BY <6>1, <6>2
        <5>2. CASE SendDelete(t)
          <6>1. PICK id \in IdsOf(View(t)) :
                  stmt' = [stmt EXCEPT ![t] = [op |-> "delete", id |-> id]]
            BY <5>2 DEF SendDelete
          <6>2. [op |-> "delete", id |-> id].op # "insert"
            OBVIOUS
          <6> QED BY <6>1, <6>2
        <5> QED BY <2>3, <5>1, <5>2
      <4> QED BY <1>1, <4>1 DEF Inserts, TypeOK
    <3> QED BY <1>1, <2>1, <3>1, <3>2 DEF GoneIds
  <2> QED BY <1>3, <2>2, <2>3
<1>4. CASE (\E t \in Txs : Commit(t)) \/ (\E T \in SUBSET Txs : Discard(T))
           \/ UNCHANGED vars
  <2>1. /\ lastId' = lastId
        /\ \A u \in Txs : gone'[u] \subseteq gone[u]
        /\ \A u \in Txs : stmt'[u] = stmt[u] \/ stmt'[u] = NULL
    BY <1>1, <1>4 DEF Commit, Discard, vars, TypeOK
  <2> QED BY <1>1, <2>1 DEF GoneIds, Inserts
<1> QED
  BY <1>1, <1>2, <1>3, <1>4, NextCases

\* No transaction has deleted or rewritten an immutable row that is committed
\* or that another has inserted.
Untouched ==
  \A t \in Txs :
    /\ \A r \in rows : r.table \in ImmutableTables => r.id \notin Touched(t)
    /\ \A u \in Txs \ {t} : \A r \in put[u] :
         r.table \in ImmutableTables => r.id \notin Touched(t)

LEMMA InitUntouched == Init => Untouched
BY DEF Init, Untouched, Touched, IdsOf

LEMMA ExecuteUntouched ==
  ASSUME TypeOK, Identified, Fresh, GoneIds, Untouched, NEW t \in Txs, Execute(t)
  PROVE  Untouched'
<1> DEFINE W == Written(stmt[t], View(t))
<1>1. /\ rows' = rows /\ stmt[t] \in StmtType
      /\ put'[t] = {r \in put[t] : r.id \notin IdsOf(Removed(t) \cup W)} \cup W
      /\ gone'[t] = gone[t] \cup IdsOf(Removed(t))
      /\ \A u \in Txs \ {t} : put'[u] = put[u] /\ gone'[u] = gone[u]
      /\ Removed(t) \subseteq View(t)
  BY ExecuteStep DEF TypeOK
<1>2. View(t) \subseteq rows \cup put[t]
  BY DEF View
<1>3. \A d \in Removed(t) : d.table \notin ImmutableTables
  BY DEF Removed, Execute, Raises
\* What it writes is a row it inserts or a finding it sees.
<1>4. ASSUME NEW w \in W
      PROVE  \/ Inserts(t) /\ w = stmt[t].row
             \/ w.table = "findings" /\ \E q \in View(t) : q.id = w.id /\ q.table = "findings"
  <2>1. CASE stmt[t].op = "insert"
    BY <1>1, <2>1, WrittenRows, ViewRows DEF Inserts, Execute
  <2>2. CASE stmt[t].op = "update"
    BY <1>1, <2>2, WrittenRows, ViewRows
  <2>3. CASE stmt[t].op = "delete"
    BY <1>1, <2>3, WrittenRows, ViewRows
  <2> QED BY <1>1, <2>1, <2>2, <2>3 DEF StmtType
<1> HIDE DEF W
\* It touches no immutable row of the others.
<1>5. ASSUME NEW u \in Txs \ {t}, NEW r \in rows \cup put[u],
             r.table \in ImmutableTables, r.id \notin Touched(t)
      PROVE  r.id \notin Touched(t)'
  <2>1. r.id \notin gone[t] /\ r.id \notin IdsOf(put[t])
    BY <1>5 DEF Touched
  <2>2. \A d \in View(t) : d.id = r.id => d.table = r.table
    <3>1. SUFFICES ASSUME NEW d \in View(t), d.id = r.id PROVE d.table = r.table
      OBVIOUS
    <3>2. d \in rows
      BY <1>2, <2>1, <3>1 DEF IdsOf
    <3> QED BY <3>1, <3>2, <1>5 DEF Identified, TypeOK, OneRowPerId
  <2>3. r.id \notin IdsOf(Removed(t))
    BY <1>1, <1>3, <1>5, <2>2 DEF IdsOf
  <2>4. \A w \in W : w.id # r.id
    BY <1>4, <1>5, <2>2 DEF Fresh, IdsOf, ImmutableTables
  <2> QED BY <1>1, <2>1, <2>3, <2>4 DEF Touched, IdsOf
\* An immutable row it inserts has been touched by no other.
<1>6. ASSUME NEW u \in Txs \ {t}, NEW w \in W, w.table \in ImmutableTables
      PROVE  w.id \notin Touched(u)
  BY <1>4, <1>6 DEF Fresh, GoneIds, Touched, ImmutableTables
<1>7. \A u \in Txs \ {t} : Touched(u)' = Touched(u)
  BY <1>1 DEF Touched
<1>8. \A r \in rows : r.table \in ImmutableTables => r.id \notin Touched(t)'
  <2>1. SUFFICES ASSUME NEW r \in rows, r.table \in ImmutableTables
                 PROVE  r.id \notin Touched(t)'
    OBVIOUS
  <2>2. r.id \notin gone[t] /\ r.id \notin IdsOf(put[t])
    BY <2>1 DEF Untouched, Touched
  <2>3. \A d \in View(t) : d.id = r.id => d.table = r.table
    BY <1>2, <2>1 DEF Identified, TypeOK, OneRowPerId
  <2>4. r.id \notin IdsOf(Removed(t))
    BY <1>1, <1>3, <2>1, <2>3 DEF IdsOf
  <2>5. \A w \in W : w.id # r.id
    BY <1>4, <2>1, <2>3 DEF Fresh, IdsOf, ImmutableTables
  <2> QED BY <1>1, <2>2, <2>4, <2>5 DEF Touched, IdsOf
<1>9. \A u \in Txs \ {t} : \A r \in put'[u] :
        r.table \in ImmutableTables => r.id \notin Touched(t)'
  BY <1>1, <1>5 DEF Untouched
<1>10. \A u \in Txs \ {t} : \A r \in put'[t] :
         r.table \in ImmutableTables => r.id \notin Touched(u)
  BY <1>1, <1>6 DEF Untouched
<1> QED
  BY <1>1, <1>7, <1>8, <1>9, <1>10 DEF Untouched

LEMMA NextUntouched ==
  TypeOK /\ Identified /\ Fresh /\ GoneIds /\ Untouched /\ [Next]_vars => Untouched'
<1>1. SUFFICES ASSUME TypeOK, Identified, Fresh, GoneIds, Untouched, [Next]_vars
               PROVE  Untouched'
  OBVIOUS
<1>2. ASSUME NEW t \in Txs, Commit(t) PROVE Untouched'
  <2>1. /\ rows' = View(t) /\ put'[t] = {} /\ gone'[t] = {}
        /\ \A u \in Txs \ {t} : put'[u] = put[u] /\ gone'[u] = gone[u]
    BY <1>1, <1>2 DEF Commit, TypeOK
  <2>2. Touched(t)' = {} /\ \A u \in Txs \ {t} : Touched(u)' = Touched(u)
    BY <2>1 DEF Touched, IdsOf
  <2>3. \A r \in rows' : r \in rows \/ r \in put[t]
    BY <2>1 DEF View
  <2> QED BY <1>1, <2>1, <2>2, <2>3 DEF Untouched
<1>3. ASSUME NEW T \in SUBSET Txs, Discard(T) PROVE Untouched'
  <2>1. /\ rows' = rows
        /\ \A u \in Txs : Touched(u)' \subseteq Touched(u) /\ put'[u] \subseteq put[u]
    BY <1>3 DEF Discard, Touched, IdsOf
  <2> QED BY <1>1, <2>1 DEF Untouched
<1>4. CASE \/ \E t \in Txs : SendInsert(t) \/ SendUpdate(t) \/ SendDelete(t)
           \/ UNCHANGED vars
  <2>1. rows' = rows /\ put' = put /\ gone' = gone
    BY <1>4 DEF SendInsert, SendUpdate, SendDelete, vars
  <2>2. \A t : Touched(t)' = Touched(t)
    BY <2>1 DEF Touched
  <2> QED BY <1>1, <2>1, <2>2 DEF Untouched
<1> QED
  BY <1>1, <1>2, <1>3, <1>4, NextCases, ExecuteUntouched

\* No transaction, cascade or restart takes back a committed snapshot or piece
\* of evidence.
THEOREM ObservationsRemain == Spec => ObservationsStay
<1> DEFINE Observations(R) == {r \in R : r.table \in {"page_snapshots", "evidence"}}
<1>1. TypeOK /\ Untouched /\ [Next]_vars => [Observations(rows) \subseteq rows']_vars
  <2>1. SUFFICES ASSUME TypeOK, Untouched, [Next]_vars
                 PROVE  Observations(rows) \subseteq rows'
    OBVIOUS
  <2>2. ASSUME NEW t \in Txs, Commit(t) PROVE Observations(rows) \subseteq rows'
    BY <2>1, <2>2 DEF Commit, View, Untouched, Touched, ImmutableTables
  <2>3. CASE \/ \E t \in Txs : Execute(t)
             \/ \E t \in Txs : SendInsert(t) \/ SendUpdate(t) \/ SendDelete(t)
             \/ \E T \in SUBSET Txs : Discard(T)
             \/ UNCHANGED vars
    BY <2>3 DEF Execute, SendInsert, SendUpdate, SendDelete, Discard, vars
  <2> QED BY <2>1, <2>2, <2>3, NextCases
<1> QED
  BY <1>1, InitType, NextType, InitGone, NextGone, InitUntouched, NextUntouched, PTL
     DEF Spec, ObservationsStay

-----------------------------------------------------------------------------
(***************************************************************************)
(* That every committed row can be traced through committed rows.          *)
(*                                                                         *)
(* The committed rows change only at a commit, which replaces them by what *)
(* one transaction sees.  So the argument is about what the transactions   *)
(* see: each view is closed under references, and what two transactions    *)
(* have done on their own can be put together, because the ids they        *)
(* touched are disjoint and nobody has deleted the parent of a row that    *)
(* another has inserted.                                                   *)
(***************************************************************************)

\* The rows there are, and those that wait to be inserted.
Inserted == {stmt[t].row : t \in {u \in Txs : Inserts(u)}}
AllRows == rows \cup (UNION {put[t] : t \in Txs}) \cup Inserted

\* What a reference of r may lead to.
Sound(r, q) ==
  \/ r.table \in {"page_snapshots", "findings"} /\ q.table = "sites"
  \/ r.table = "evidence" /\ q.table = "page_snapshots"
  \/ r.table = "findings" /\ q.table = "findings" /\ q.id < r.id

\* Ids are those handed out; rows with one id differ in superseded_at only; a
\* reference that leads somewhere leads to a row of the parent's table.
References ==
  \A r \in AllRows :
    /\ {r.id} \cup Refs(r) \subseteq Sites \cup 1..lastId
    /\ \A q \in AllRows : /\ q.id = r.id => q.table = r.table /\ Refs(q) = Refs(r)
                          /\ q.id \in Refs(r) => Sound(r, q)

ClosedUnder(V) == \A r \in V : Refs(r) \subseteq IdsOf(V)

\* What is committed and what each transaction sees is closed under references,
\* and nobody has deleted the parent of a row that another has inserted.
Closed ==
  /\ ClosedUnder(rows)
  /\ \A t \in Txs : ClosedUnder(View(t))
  /\ \A t, u \in Txs : t # u => KeyShared(t) \cap gone[u] = {}

\* A row is deleted or changed by one transaction at a time, and not both.
Apart ==
  /\ \A t \in Txs : gone[t] \cap IdsOf(put[t]) = {}
  /\ \A t, u \in Txs : t # u => Touched(t) \cap Touched(u) = {}

-----------------------------------------------------------------------------
(* References *)

\* What a row refers to, read off its columns.
LEMMA RefsOf ==
  ASSUME NEW r \in RowType
  PROVE  /\ r.table = "sites" => Refs(r) = {}
         /\ r.table = "page_snapshots" => Refs(r) = {r.site_id}
         /\ r.table = "evidence" => Refs(r) = {r.snapshot_id}
         /\ r.table = "findings" =>
              Refs(r) = {r.site_id} \cup ({r.supersedes_id} \ {NULL})
<1>1. \A id : RefersTo(r, id, {"CASCADE", "RESTRICT"}) <=>
         \/ r.table = "page_snapshots" /\ r.site_id = id
         \/ r.table = "evidence" /\ r.snapshot_id = id
         \/ r.table = "findings" /\ (r.site_id = id \/ r.supersedes_id = id)
  BY DEF RefersTo, ForeignKeys
<1>2. /\ r.table \in {"page_snapshots", "findings"} => r.site_id \in Ids
      /\ r.table = "evidence" => r.snapshot_id \in Ids
      /\ r.table = "findings" => r.supersedes_id \in Ids \cup {NULL}
  BY DEF RowType, Ids
<1>3. NULL \notin Ids
  BY LedgerAssumption
<1> QED BY <1>1, <1>2, <1>3 DEF Refs

\* A cascade leads to a site.
LEMMA CascadesFromSites ==
  ASSUME NEW r \in RowType, NEW id, RefersTo(r, id, {"CASCADE"})
  PROVE  id \in Sites
BY DEF RefersTo, ForeignKeys, RowType

LEMMA SiteRows ==
  \A r \in RowType : (r.id \in Sites <=> r.table = "sites")
BY LedgerAssumption DEF RowType

\* A DELETE takes with it every row that refers, by a cascade, to one it takes.
LEMMA DeletedClosed ==
  ASSUME NEW V \in SUBSET RowType, NEW d \in V, NEW r \in V, NEW q \in Deleted(d, V),
         RefersTo(r, q.id, {"CASCADE"})
  PROVE  r \in Deleted(d, V)
<1>1. q \in V
  BY DeletedRows
<1>2. q.table = "sites"
  BY <1>1, CascadesFromSites, SiteRows
<1>3. \A id : ~RefersTo(q, id, {"CASCADE"})
  BY <1>2 DEF RefersTo, ForeignKeys
<1>4. q = d
  BY <1>3 DEF Deleted, Cascade
<1> QED BY <1>4 DEF Deleted, Cascade

LEMMA RefActions ==
  \A r, id : RefersTo(r, id, {"CASCADE", "RESTRICT"}) =>
               RefersTo(r, id, {"CASCADE"}) \/ RefersTo(r, id, {"RESTRICT"})
BY DEF RefersTo

\* An UPDATE leaves what a row refers to.
LEMMA UpdatedRefs ==
  ASSUME NEW s \in StmtType, s.op = "update", NEW V \in SUBSET RowType,
         NEW w \in Written(s, V)
  PROVE  \E q \in V : /\ q.id = s.id /\ w.id = s.id
                      /\ q.table = w.table /\ Refs(q) = Refs(w)
<1>1. PICK q \in V : /\ q.id = s.id /\ q.table = "findings"
                     /\ w = [q EXCEPT !.current = s.current]
  BY DEF Written, Updated
<1>2. q \in [table : {"findings"}, id : 1..MaxId, site_id : Sites,
             identity_hash : Hashes, supersedes_id : 1..MaxId \cup {NULL},
             current : BOOLEAN]
  BY <1>1 DEF RowType
<1>3. /\ w.id = q.id /\ w.table = "findings"
      /\ w.site_id = q.site_id /\ w.supersedes_id = q.supersedes_id
  BY <1>1, <1>2
<1>4. w \in RowType
  BY WrittenRows
<1>5. Refs(w) = Refs(q)
  BY <1>1, <1>3, <1>4, RefsOf
<1> QED BY <1>1, <1>3, <1>5

\* To be traceable is to be closed under references that lead where they should.
LEMMA TracedRefs ==
  ASSUME NEW R \in SUBSET RowType, Traced(R), NEW r \in R, NEW i \in Refs(r)
  PROVE  \E q \in R : q.id = i /\ Sound(r, q)
<1>1. r.table \in {"sites", "page_snapshots", "evidence", "findings"}
  BY DEF RowType
<1>2. CASE r.table = "page_snapshots"
  BY <1>2, RefsOf DEF Traced, Sound
<1>3. CASE r.table = "evidence"
  BY <1>3, RefsOf DEF Traced, Sound
<1>4. CASE r.table = "findings"
  BY <1>4, RefsOf DEF Traced, Sound
<1>5. CASE r.table = "sites"
  BY <1>5, RefsOf
<1> QED BY <1>1, <1>2, <1>3, <1>4, <1>5

LEMMA ClosedTraced ==
  ASSUME NEW R \in SUBSET RowType, ClosedUnder(R),
         \A q, r \in R : q.id \in Refs(r) => Sound(r, q)
  PROVE  Traced(R)
<1>1. \A r \in R : \A i \in Refs(r) : \E q \in R : q.id = i /\ Sound(r, q)
  BY DEF ClosedUnder, IdsOf
<1>2. ASSUME NEW r \in R, r.table = "evidence"
      PROVE  \E q \in R : q.table = "page_snapshots" /\ q.id = r.snapshot_id
  BY <1>1, <1>2, RefsOf DEF Sound
<1>3. ASSUME NEW r \in R, r.table \in {"page_snapshots", "findings"}
      PROVE  \E q \in R : q.table = "sites" /\ q.id = r.site_id
  <2>1. r.site_id \in Refs(r) /\ r.site_id \in Sites
    BY <1>3, RefsOf DEF RowType
  <2> QED BY <1>1, <2>1, SiteRows
<1>4. ASSUME NEW r \in R, r.table = "findings", r.supersedes_id # NULL
      PROVE  /\ \E q \in R : q.table = "findings" /\ q.id = r.supersedes_id
             /\ r.supersedes_id < r.id
  <2>1. r.supersedes_id \in Refs(r) /\ r.supersedes_id \in 1..MaxId
    BY <1>4, RefsOf DEF RowType
  <2>2. r.supersedes_id \notin Sites
    BY <2>1, LedgerAssumption
  <2>3. PICK q \in R : q.id = r.supersedes_id /\ Sound(r, q)
    BY <1>1, <2>1
  <2>4. q.table # "sites"
    BY <2>2, <2>3, SiteRows
  <2> QED BY <1>4, <2>3, <2>4 DEF Sound
<1> QED BY <1>2, <1>3, <1>4 DEF Traced

-----------------------------------------------------------------------------
(* References stay what they are *)

LEMMA InitReferences == Init => References
<1>1. SUFFICES ASSUME Init PROVE References
  OBVIOUS
<1>2. PICK seed \in Seeds : rows = seed.rows /\ lastId = seed.lastId
  BY <1>1 DEF Init
<1>3. /\ rows \subseteq RowType /\ OneRowPerId(rows) /\ Traced(rows)
      /\ \A r \in rows : r.id \in Sites \cup 1..lastId
  BY <1>2, SeedAssumption
<1>4. AllRows = rows
  BY <1>1 DEF Init, AllRows, Inserted, Inserts
<1>5. \A r \in rows : \A i \in Refs(r) : \E q \in rows : q.id = i /\ Sound(r, q)
  BY <1>3, TracedRefs
<1>6. \A r \in rows : Refs(r) \subseteq Sites \cup 1..lastId
  BY <1>3, <1>5
<1>7. \A q, r \in rows : q.id \in Refs(r) => Sound(r, q)
  BY <1>3, <1>5 DEF OneRowPerId
<1>8. \A q, r \in rows : q.id = r.id => q = r
  BY <1>3 DEF OneRowPerId
<1> QED BY <1>3, <1>4, <1>6, <1>7, <1>8 DEF References

\* No row is new but for its values of superseded_at.
OnlyVersions ==
  \A r \in AllRows' :
    \E q \in AllRows : q.id = r.id /\ q.table = r.table /\ Refs(q) = Refs(r)

LEMMA KeptReferences ==
  ASSUME References, OnlyVersions, lastId' = lastId
  PROVE  References'
<1>1. ASSUME NEW q, NEW r, NEW p, NEW o, q.id = p.id, q.table = p.table,
             r.id = o.id, r.table = o.table, Sound(r, q)
      PROVE  Sound(o, p)
  BY <1>1 DEF Sound
<1>2. SUFFICES ASSUME NEW r \in AllRows'
               PROVE  /\ {r.id} \cup Refs(r) \subseteq Sites \cup 1..lastId
                      /\ \A q \in AllRows' :
                           /\ q.id = r.id => q.table = r.table /\ Refs(q) = Refs(r)
                           /\ q.id \in Refs(r) => Sound(r, q)
  BY DEF References
<1>3. PICK o \in AllRows : o.id = r.id /\ o.table = r.table /\ Refs(o) = Refs(r)
  BY DEF OnlyVersions
<1>4. {r.id} \cup Refs(r) \subseteq Sites \cup 1..lastId
  BY <1>3 DEF References
<1>5. ASSUME NEW q \in AllRows'
      PROVE  /\ q.id = r.id => q.table = r.table /\ Refs(q) = Refs(r)
             /\ q.id \in Refs(r) => Sound(r, q)
  <2>1. PICK p \in AllRows : p.id = q.id /\ p.table = q.table /\ Refs(p) = Refs(q)
    BY DEF OnlyVersions
  <2>2. q.id = r.id => q.table = r.table /\ Refs(q) = Refs(r)
    BY <1>3, <2>1 DEF References
  <2>3. q.id \in Refs(r) => Sound(o, p)
    BY <1>3, <2>1 DEF References
  <2> QED BY <1>1, <1>3, <2>1, <2>2, <2>3
<1> QED BY <1>4, <1>5

LEMMA FewerRows ==
  ASSUME AllRows' \subseteq AllRows
  PROVE  OnlyVersions
BY DEF OnlyVersions

LEMMA ExecuteVersions ==
  ASSUME TypeOK, NEW t \in Txs, Execute(t)
  PROVE  OnlyVersions /\ lastId' = lastId
<1> DEFINE W == Written(stmt[t], View(t))
<1>1. /\ stmt[t] \in StmtType /\ stmt[t] # NULL
      /\ put' = [put EXCEPT ![t] =
           {r \in put[t] : r.id \notin IdsOf(Removed(t) \cup W)} \cup W]
      /\ stmt' = [stmt EXCEPT ![t] = NULL]
      /\ rows' = rows /\ lastId' = lastId
  BY ExecuteStep DEF Execute
<1>2. \A w \in W : \E q \in AllRows : q.id = w.id /\ q.table = w.table /\ Refs(q) = Refs(w)
  <2>1. SUFFICES ASSUME NEW w \in W
                 PROVE \E q \in AllRows : q.id = w.id /\ q.table = w.table /\ Refs(q) = Refs(w)
    OBVIOUS
  <2>2. View(t) \subseteq RowType /\ View(t) \subseteq AllRows
    BY ViewRows DEF View, AllRows
  <2>3. CASE stmt[t].op = "insert"
    <3>1. w = stmt[t].row
      BY <1>1, <2>2, <2>3, WrittenRows
    <3>2. Inserts(t)
      BY <1>1, <2>3 DEF Inserts
    <3>3. w \in Inserted
      BY <3>1, <3>2 DEF Inserted
    <3> QED BY <3>3 DEF AllRows
  <2>4. CASE stmt[t].op = "update"
    BY <1>1, <2>2, <2>4, UpdatedRefs
  <2>5. CASE stmt[t].op = "delete"
    BY <1>1, <2>2, <2>5, WrittenRows
  <2> QED BY <1>1, <2>3, <2>4, <2>5 DEF StmtType
<1> HIDE DEF W
<1>3. Inserted' \subseteq Inserted
  BY <1>1 DEF Inserted, Inserts, TypeOK
<1>4. \A r \in AllRows' : r \in AllRows \/ r \in W
  BY <1>1, <1>3 DEF AllRows, TypeOK
<1> QED BY <1>1, <1>2, <1>4 DEF OnlyVersions

LEMMA SendInsertReferences ==
  ASSUME TypeOK, Identified, Fresh, References, NEW t \in Txs, SendInsert(t)
  PROVE  References'
<1>1. PICK r \in Insertable(lastId + 1, View(t)) :
           stmt' = [stmt EXCEPT ![t] = [op |-> "insert", row |-> r]]
  BY DEF SendInsert
<1>2. /\ rows' = rows /\ put' = put /\ lastId' = lastId + 1
      /\ lastId \in Nat /\ lastId' \in 1..MaxId
  BY LedgerAssumption DEF SendInsert, TypeOK
<1> DEFINE known(table) == IdsOf({q \in View(t) : q.table = table})
<1>3. View(t) \subseteq RowType /\ View(t) \subseteq AllRows
  BY ViewRows DEF View, AllRows
<1>4. r \in [table : {"page_snapshots"}, id : {lastId'}, site_id : known("sites")]
            \cup [table : {"evidence"}, id : {lastId'},
                  snapshot_id : known("page_snapshots")]
            \cup [table : {"findings"}, id : {lastId'}, site_id : known("sites"),
                  identity_hash : Hashes,
                  supersedes_id : known("findings") \cup {NULL},
                  current : BOOLEAN]
  BY <1>1, <1>2 DEF Insertable
<1>5. known("sites") \subseteq Sites
      /\ known("page_snapshots") \subseteq 1..MaxId /\ known("findings") \subseteq 1..MaxId
  BY <1>3 DEF IdsOf, RowType
\* What it refers to is a row of the parent's table that is seen.
<1>6. /\ r.id = lastId' /\ r \in RowType
      /\ \A i \in Refs(r) : \E p \in View(t) :
           p.id = i /\ (p.table # "findings" \/ p.id < lastId' => Sound(r, p))
  <2>1. r.id = lastId' /\ r \in RowType
    <3> HIDE DEF known
    <3> QED BY <1>2, <1>4, <1>5 DEF RowType
  <2>2. r.table = "page_snapshots" => r.site_id \in known("sites")
    BY <1>4
  <2>3. r.table = "evidence" => r.snapshot_id \in known("page_snapshots")
    BY <1>4
  <2>4. r.table = "findings" => r.site_id \in known("sites")
                                /\ r.supersedes_id \in known("findings") \cup {NULL}
    BY <1>4
  <2>5. r.table \in {"page_snapshots", "evidence", "findings"}
    BY <1>4
  <2>6. CASE r.table = "page_snapshots"
    BY <2>1, <2>2, <2>6, RefsOf DEF IdsOf, Sound
  <2>7. CASE r.table = "evidence"
    BY <2>1, <2>3, <2>7, RefsOf DEF IdsOf, Sound
  <2>8. CASE r.table = "findings"
    BY <2>1, <2>4, <2>8, RefsOf DEF IdsOf, Sound
  <2> QED BY <2>1, <2>5, <2>6, <2>7, <2>8
<1> HIDE DEF known
<1>7. \A i \in Sites \cup 1..lastId : i \in Sites \cup 1..lastId' /\ i # lastId'
  BY <1>2, LedgerAssumption
<1>8. \A q \in AllRows : q.id # lastId' /\ lastId' \notin Refs(q)
  BY <1>7 DEF References
<1>9. \A q \in AllRows' : q \in AllRows \/ q = r
  <2>1. \A q \in Inserted' : q \in Inserted \/ q = r
    BY <1>1 DEF Inserted, Inserts, TypeOK
  <2> QED BY <1>2, <2>1 DEF AllRows
<1>10. \A i \in Refs(r) : \E p \in View(t) : p.id = i /\ Sound(r, p)
  <2>1. SUFFICES ASSUME NEW i \in Refs(r) PROVE \E p \in View(t) : p.id = i /\ Sound(r, p)
    OBVIOUS
  <2>2. PICK p \in View(t) :
           p.id = i /\ (p.table # "findings" \/ p.id < lastId' => Sound(r, p))
    BY <1>6
  <2>3. p.id \in Sites \cup 1..lastId /\ p \in RowType
    BY <1>3 DEF References
  <2>4. p.table = "findings" => p.id \in 1..MaxId
    BY <2>3 DEF RowType
  <2>5. p.table = "findings" => p.id < lastId'
    BY <1>2, <2>3, <2>4, LedgerAssumption
  <2> QED BY <2>2, <2>5
<1>11. Refs(r) \subseteq Sites \cup 1..lastId
  BY <1>3, <1>10 DEF References
<1>12. \A q \in AllRows : q.id \in Refs(r) => Sound(r, q)
  <2>1. SUFFICES ASSUME NEW q \in AllRows, q.id \in Refs(r) PROVE Sound(r, q)
    OBVIOUS
  <2>2. PICK p \in View(t) : p.id = q.id /\ Sound(r, p)
    BY <1>10, <2>1
  <2>3. p.table = q.table
    BY <1>3, <2>2 DEF References
  <2> QED BY <2>2, <2>3 DEF Sound
<1>13. r.id \in Sites \cup 1..lastId' /\ r.id \notin Refs(r)
  BY <1>2, <1>6, <1>7, <1>11
<1> QED
  <2>1. SUFFICES ASSUME NEW o \in AllRows'
                 PROVE  /\ {o.id} \cup Refs(o) \subseteq Sites \cup 1..lastId'
                        /\ \A q \in AllRows' :
                             /\ q.id = o.id => q.table = o.table /\ Refs(q) = Refs(o)
                             /\ q.id \in Refs(o) => Sound(o, q)
    BY DEF References
  <2>2. CASE o \in AllRows
    <3>1. {o.id} \cup Refs(o) \subseteq Sites \cup 1..lastId'
      BY <1>7, <2>2 DEF References
    <3>2. \A q \in AllRows : /\ q.id = o.id => q.table = o.table /\ Refs(q) = Refs(o)
                             /\ q.id \in Refs(o) => Sound(o, q)
      BY <2>2 DEF References
    <3> QED BY <1>6, <1>8, <1>9, <2>2, <3>1, <3>2
  <2>3. CASE o = r
    <3>1. {r.id} \cup Refs(r) \subseteq Sites \cup 1..lastId'
      BY <1>7, <1>11, <1>13
    <3> QED BY <1>6, <1>8, <1>9, <1>12, <1>13, <2>3, <3>1
  <2> QED BY <1>9, <2>2, <2>3

LEMMA NextReferences ==
  TypeOK /\ Identified /\ Fresh /\ References /\ [Next]_vars => References'
<1>1. SUFFICES ASSUME TypeOK, Identified, Fresh, References, [Next]_vars
               PROVE  References'
  OBVIOUS
<1>2. ASSUME NEW t \in Txs, Execute(t) PROVE References'
  BY <1>1, <1>2, ExecuteVersions, KeptReferences
<1>3. ASSUME NEW t \in Txs, SendInsert(t) PROVE References'
  BY <1>1, <1>3, SendInsertReferences
<1>4. ASSUME NEW t \in Txs, SendUpdate(t) \/ SendDelete(t) PROVE References'
  <2>1. rows' = rows /\ put' = put /\ lastId' = lastId
    BY <1>4 DEF SendUpdate, SendDelete
  <2>2. \A u \in Txs : Inserts(u)' => Inserts(u) /\ stmt'[u] = stmt[u]
    <3>1. CASE SendUpdate(t)
      <4>1. PICK id \in IdsOf({r \in View(t) : r.table # "sites"}), open \in BOOLEAN :
              stmt' = [stmt EXCEPT ![t] = [op |-> "update", id |-> id, current |-> open]]
        BY <3>1 DEF SendUpdate
      <4>2. [op |-> "update", id |-> id, current |-> open].op # "insert"
        OBVIOUS
      <4> QED BY <1>1, <4>1, <4>2 DEF Inserts, TypeOK
    <3>2. CASE SendDelete(t)
      <4>1. PICK id \in IdsOf(View(t)) :
              stmt' = [stmt EXCEPT ![t] = [op |-> "delete", id |-> id]]
        BY <3>2 DEF SendDelete
      <4>2. [op |-> "delete", id |-> id].op # "insert"
        OBVIOUS
      <4> QED BY <1>1, <4>1, <4>2 DEF Inserts, TypeOK
    <3> QED BY <1>4, <3>1, <3>2
  <2>3. AllRows' \subseteq AllRows
    BY <2>1, <2>2 DEF AllRows, Inserted
  <2> QED BY <1>1, <2>1, <2>3, FewerRows, KeptReferences
<1>5. CASE (\E t \in Txs : Commit(t)) \/ (\E T \in SUBSET Txs : Discard(T))
           \/ UNCHANGED vars
  <2>1. /\ lastId' = lastId
        /\ \A u \in Txs : put'[u] \subseteq put[u]
        /\ \A u \in Txs : stmt'[u] = stmt[u] \/ stmt'[u] = NULL
    BY <1>1, <1>5 DEF Commit, Discard, vars, TypeOK
  <2>2. \A r \in rows' : r \in rows \/ \E t \in Txs : r \in put[t]
    BY <1>1, <1>5 DEF Commit, Discard, vars, View
  <2>3. Inserted' \subseteq Inserted
    BY <2>1 DEF Inserted, Inserts
  <2>4. AllRows' \subseteq AllRows
    BY <2>1, <2>2, <2>3 DEF AllRows
  <2> QED BY <1>1, <2>1, <2>4, FewerRows, KeptReferences
<1> QED
  BY <1>1, <1>2, <1>3, <1>4, <1>5, NextCases

-----------------------------------------------------------------------------
(* What a statement waited for *)

\* What a statement writes is the row it inserts or a version of one it sees.
LEMMA WrittenVersions ==
  ASSUME TypeOK, NEW t \in Txs, Execute(t), NEW w \in Written(stmt[t], View(t))
  PROVE  \/ Inserts(t) /\ w = stmt[t].row
         \/ /\ stmt[t].op = "update" /\ w.id = stmt[t].id
            /\ \E q \in View(t) : q.id = w.id /\ Refs(q) = Refs(w)
<1>1. stmt[t] \in StmtType /\ stmt[t] # NULL /\ View(t) \subseteq RowType
  BY ExecuteStep, ViewRows DEF Execute
<1>2. CASE stmt[t].op = "insert"
  BY <1>1, <1>2, WrittenRows DEF Inserts
<1>3. CASE stmt[t].op = "update"
  <2>1. PICK q \in View(t) : /\ q.id = stmt[t].id /\ w.id = stmt[t].id
                             /\ q.table = w.table /\ Refs(q) = Refs(w)
    BY <1>1, <1>3, UpdatedRefs
  <2> QED BY <1>3, <2>1
<1>4. CASE stmt[t].op = "delete"
  BY <1>1, <1>4, WrittenRows
<1> QED BY <1>1, <1>2, <1>3, <1>4 DEF StmtType

\* By then no other transaction has touched what it changes, holds the parents
\* it removes, or has deleted the parents of what it inserts.
LEMMA NotBlocked ==
  ASSUME TypeOK, Fresh, GoneIds, NEW t \in Txs, Execute(t), NEW u \in Txs \ {t}
  PROVE  /\ IdsOf(Removed(t)) \cap (Touched(u) \cup KeyShared(u)) = {}
         /\ IdsOf(Written(stmt[t], View(t))) \cap Touched(u) = {}
         /\ Inserts(t) => Refs(stmt[t].row) \cap gone[u] = {}
<1>1. stmt[t] # NULL /\ Blockers(t) = {}
  BY DEF Execute
<1>2. ~Blocks(u, t, stmt[t])
  BY <1>1 DEF Blockers
<1>3. /\ stmt[t].op = "update" => stmt[t].id \notin Touched(u)
      /\ stmt[t].op = "insert" => Refs(stmt[t].row) \cap gone[u] = {}
  BY <1>2 DEF Blocks
<1>4. IdsOf(Removed(t)) \cap (Touched(u) \cup KeyShared(u)) = {}
  <2>1. CASE stmt[t].op = "delete"
    <3>1. Removed(t) = UNION {Deleted(d, View(t)) : d \in {r \in View(t) : r.id = stmt[t].id}}
      BY <2>1 DEF Removed
    <3>2. LET removed == IdsOf(Removed(t))
          IN  (removed \cup {stmt[t].id}) \cap Touched(u) = {} /\ removed \cap KeyShared(u) = {}
      BY <1>2, <2>1, <3>1 DEF Blocks
    <3> QED BY <3>2
  <2>2. CASE stmt[t].op # "delete"
    BY <2>2 DEF Removed, IdsOf
  <2> QED BY <2>1, <2>2
<1>5. ASSUME NEW w \in Written(stmt[t], View(t)) PROVE w.id \notin Touched(u)
  <2>1. CASE Inserts(t) /\ w = stmt[t].row
    BY <2>1 DEF Fresh, GoneIds, Touched
  <2>2. CASE stmt[t].op = "update" /\ w.id = stmt[t].id
    BY <1>3, <2>2
  <2> QED BY <2>1, <2>2, WrittenVersions
<1> QED BY <1>3, <1>4, <1>5 DEF Inserts, IdsOf

-----------------------------------------------------------------------------
(* No row is touched by two *)

LEMMA InitApart == Init => Apart
BY DEF Init, Apart, Touched, IdsOf

LEMMA ExecuteApart ==
  ASSUME TypeOK, Fresh, GoneIds, Apart, NEW t \in Txs, Execute(t)
  PROVE  Apart'
<1> DEFINE W == Written(stmt[t], View(t))
<1>1. /\ put'[t] = {r \in put[t] : r.id \notin IdsOf(Removed(t) \cup W)} \cup W
      /\ gone'[t] = gone[t] \cup IdsOf(Removed(t))
      /\ \A u \in Txs \ {t} : put'[u] = put[u] /\ gone'[u] = gone[u]
  BY ExecuteStep DEF TypeOK
<1>2. \A w \in W : w.id \notin gone[t]
  <2>1. SUFFICES ASSUME NEW w \in W PROVE w.id \notin gone[t]
    OBVIOUS
  <2>2. CASE Inserts(t) /\ w = stmt[t].row
    BY <2>2 DEF GoneIds
  <2>3. CASE \E q \in View(t) : q.id = w.id
    BY <2>3 DEF View, Apart, IdsOf
  <2> QED BY <2>2, <2>3, WrittenVersions
<1>3. W = {} \/ Removed(t) = {}
  <2>1. stmt[t] \in StmtType
    BY ExecuteStep
  <2> QED BY <2>1, WrittenRows, ViewRows DEF Removed
<1>4. \A u \in Txs \ {t} : /\ IdsOf(Removed(t)) \cap Touched(u) = {}
                           /\ IdsOf(W) \cap Touched(u) = {}
  BY NotBlocked
<1> HIDE DEF W
<1>5. gone'[t] \cap IdsOf(put'[t]) = {}
  <2>1. gone[t] \cap IdsOf(put[t]) = {}
    BY DEF Apart
  <2>2. \A p \in put'[t] : p.id \notin gone'[t]
    BY <1>1, <1>2, <1>3, <2>1 DEF IdsOf
  <2> QED BY <2>2 DEF IdsOf
<1>6. Touched(t)' \subseteq Touched(t) \cup IdsOf(Removed(t)) \cup IdsOf(W)
  BY <1>1 DEF Touched, IdsOf
<1>7. \A u \in Txs \ {t} : Touched(u)' = Touched(u)
  BY <1>1 DEF Touched
<1>8. \A u \in Txs \ {t} : Touched(t)' \cap Touched(u)' = {}
  BY <1>4, <1>6, <1>7 DEF Apart
<1> QED BY <1>1, <1>5, <1>7, <1>8 DEF Apart

LEMMA NextApart ==
  TypeOK /\ Fresh /\ GoneIds /\ Apart /\ [Next]_vars => Apart'
<1>1. SUFFICES ASSUME TypeOK, Fresh, GoneIds, Apart, [Next]_vars PROVE Apart'
  OBVIOUS
<1>2. CASE \/ \E t \in Txs : Commit(t)
           \/ \E t \in Txs : SendInsert(t) \/ SendUpdate(t) \/ SendDelete(t)
           \/ \E T \in SUBSET Txs : Discard(T)
           \/ UNCHANGED vars
  <2>1. \A u \in Txs : put'[u] \subseteq put[u] /\ gone'[u] \subseteq gone[u]
    BY <1>1, <1>2 DEF Commit, SendInsert, SendUpdate, SendDelete, Discard, vars, TypeOK
  <2>2. \A u \in Txs : /\ Touched(u)' \subseteq Touched(u)
                       /\ IdsOf(put'[u]) \subseteq IdsOf(put[u])
    BY <2>1 DEF Touched, IdsOf
  <2> QED BY <1>1, <2>1, <2>2 DEF Apart
<1> QED BY <1>1, <1>2, NextCases, ExecuteApart

-----------------------------------------------------------------------------
(* What is seen is closed under references *)

LEMMA ViewIds ==
  \A t : \A i : i \in IdsOf(View(t)) <=>
    i \in IdsOf(put[t]) \/ (i \in IdsOf(rows) /\ i \notin gone[t])
BY DEF View, IdsOf

LEMMA NotSeenGone ==
  ASSUME Apart, NEW t \in Txs
  PROVE  IdsOf(View(t)) \cap gone[t] = {}
BY ViewIds DEF Apart

LEMMA ViewNow ==
  ASSUME TypeOK, NEW t \in Txs, Execute(t)
  PROVE  View(t)' = {r \in View(t) : r.id \notin IdsOf(Removed(t) \cup Written(stmt[t], View(t)))}
                      \cup Written(stmt[t], View(t))
<1> DEFINE W == Written(stmt[t], View(t))
           X == IdsOf(Removed(t) \cup W)
<1>1. /\ put'[t] = {r \in put[t] : r.id \notin X} \cup W
      /\ gone'[t] = gone[t] \cup IdsOf(Removed(t))
      /\ rows' = rows
  BY ExecuteStep DEF TypeOK
<1>2. /\ IdsOf(Removed(t)) \subseteq X /\ IdsOf(W) \subseteq X
      /\ X \subseteq IdsOf(Removed(t)) \cup IdsOf(W)
  BY DEF IdsOf
<1>3. \A w \in W : w.id \in IdsOf(W)
  BY DEF IdsOf
<1> HIDE DEF W, X
<1>4. \A i : i \in IdsOf(put'[t]) <=> (i \in IdsOf(put[t]) /\ i \notin X) \/ i \in IdsOf(W)
  BY <1>1 DEF IdsOf
<1>5. View(t)' = {r \in rows : r.id \notin gone'[t] \cup IdsOf(put'[t])} \cup put'[t]
  BY <1>1 DEF View
<1>6. \A r \in View(t)' : r \in W \/ (r \in View(t) /\ r.id \notin X)
  BY <1>1, <1>2, <1>3, <1>4, <1>5 DEF View
<1>7. \A r \in View(t) : r.id \notin X => r \in View(t)'
  BY <1>1, <1>2, <1>3, <1>4, <1>5 DEF View
<1>8. W \subseteq View(t)'
  BY <1>1, <1>5
<1> QED BY <1>6, <1>7, <1>8 DEF W, X

LEMMA InitClosed == Init => Closed
<1>1. SUFFICES ASSUME Init PROVE Closed
  OBVIOUS
<1>2. rows \subseteq RowType /\ Traced(rows)
  BY <1>1, SeedAssumption DEF Init
<1>3. ClosedUnder(rows)
  BY <1>2, TracedRefs DEF ClosedUnder, IdsOf
<1>4. \A t \in Txs : View(t) = rows /\ gone[t] = {}
  BY <1>1 DEF Init, View, IdsOf
<1> QED BY <1>3, <1>4 DEF Closed

\* A statement leaves its transaction with a closed view: it inserts a row whose
\* parents are seen, rewrites one without moving its references, or deletes with
\* every row all that refers to it.
LEMMA ExecuteViewClosed ==
  ASSUME TypeOK, Closed, NEW t \in Txs, Execute(t)
  PROVE  ClosedUnder(View(t)')
<1> DEFINE s == stmt[t]
           V == View(t)
           W == Written(s, V)
<1>1. /\ s \in StmtType /\ V \subseteq RowType /\ OneRowPerId(V)
      /\ ~Raises(s, V)
  BY ExecuteStep, ViewRows DEF Execute
<1>2. ClosedUnder(V)
  BY DEF Closed
<1>3. View(t)' = {r \in V : r.id \notin IdsOf(Removed(t) \cup W)} \cup W
  BY ViewNow
<1>4. CASE s.op = "insert"
  <2>1. Removed(t) = {} /\ W = {s.row} /\ Refs(s.row) \subseteq IdsOf(V)
    BY <1>1, <1>4, WrittenRows DEF Removed, Raises
  <2> HIDE DEF W, V, s
  <2>2. IdsOf(V) \subseteq IdsOf(View(t)') /\ \A r \in View(t)' : r \in V \/ r = s.row
    BY <1>3, <2>1 DEF IdsOf
  <2> QED BY <1>2, <2>1, <2>2 DEF ClosedUnder
<1>5. CASE s.op = "update"
  <2>1. Removed(t) = {}
    BY <1>5 DEF Removed
  <2>2. \A w \in W : \E q \in V : q.id = w.id /\ Refs(q) = Refs(w)
    BY <1>1, <1>5, UpdatedRefs
  <2> HIDE DEF W, V, s
  <2>3. IdsOf(V) \subseteq IdsOf(View(t)')
    BY <1>3, <2>1 DEF IdsOf
  <2>4. \A r \in View(t)' : \E q \in V : Refs(q) = Refs(r)
    BY <1>3, <2>2
  <2> QED BY <1>2, <2>3, <2>4 DEF ClosedUnder
<1>6. CASE s.op = "delete"
  <2>1. W = {} /\ Removed(t) = UNION {Deleted(d, V) : d \in {r \in V : r.id = s.id}}
    BY <1>1, <1>6, WrittenRows DEF Removed
  <2>2. \A d \in V : d.id = s.id => Removed(t) = Deleted(d, V)
    <3>1. SUFFICES ASSUME NEW d \in V, d.id = s.id PROVE Removed(t) = Deleted(d, V)
      OBVIOUS
    <3>2. {r \in V : r.id = s.id} = {d}
      BY <1>1, <3>1 DEF OneRowPerId
    <3> HIDE DEF V, W, s
    <3> QED BY <2>1, <3>2
  <2>3. Removed(t) \subseteq V
    BY ExecuteStep
  <2>4. View(t)' = {r \in V : r.id \notin IdsOf(Removed(t))}
    <3> HIDE DEF V, W, s
    <3> QED BY <1>3, <2>1
  <2>5. ASSUME NEW r \in View(t)', NEW i \in Refs(r), i \in IdsOf(Removed(t)) PROVE FALSE
    <3>1. PICK q \in Removed(t) : q.id = i
      BY <2>5 DEF IdsOf
    <3>2. PICK d \in V : d.id = s.id /\ q \in Deleted(d, V)
      BY <2>1
    <3>3. r \in V /\ r \notin Deleted(d, V)
      BY <2>2, <2>4, <3>2 DEF IdsOf
    <3>4. RefersTo(r, q.id, {"CASCADE"}) \/ RefersTo(r, q.id, {"RESTRICT"})
      BY <2>5, <3>1, RefActions DEF Refs
    <3>5. ~RefersTo(r, q.id, {"CASCADE"})
      BY <1>1, <3>2, <3>3, DeletedClosed
    <3>6. ~RefersTo(r, q.id, {"RESTRICT"})
      BY <1>1, <1>6, <3>2, <3>3 DEF Raises
    <3> QED BY <3>4, <3>5, <3>6
  <2>6. ASSUME NEW r \in View(t)', NEW i \in Refs(r) PROVE i \in IdsOf(View(t)')
    <3>1. i \in IdsOf(V)
      BY <1>2, <2>4 DEF ClosedUnder
    <3> HIDE DEF V
    <3> QED BY <2>4, <2>5, <3>1 DEF IdsOf
  <2> QED BY <2>6 DEF ClosedUnder
<1> QED BY <1>1, <1>4, <1>5, <1>6 DEF StmtType

LEMMA ExecuteClosed ==
  ASSUME TypeOK, Identified, Fresh, GoneIds, Closed, NEW t \in Txs, Execute(t)
  PROVE  Closed'
<1> DEFINE W == Written(stmt[t], View(t))
<1>1. /\ put'[t] = {r \in put[t] : r.id \notin IdsOf(Removed(t) \cup W)} \cup W
      /\ gone'[t] = gone[t] \cup IdsOf(Removed(t))
      /\ rows' = rows
      /\ \A u \in Txs \ {t} : put'[u] = put[u] /\ gone'[u] = gone[u]
  BY ExecuteStep DEF TypeOK
<1>2. \A u \in Txs : ClosedUnder(View(u)')
  <2>1. \A u \in Txs \ {t} : View(u)' = View(u)
    BY ViewAfter
  <2> QED BY <2>1, ExecuteViewClosed DEF Closed
\* What it inserts has parents that no other has deleted.
<1>3. ASSUME NEW u \in Txs \ {t}, NEW w \in W, w.id \notin IdsOf(rows)
      PROVE  Refs(w) \cap gone[u] = {}
  <2>1. CASE Inserts(t) /\ w = stmt[t].row
    BY <2>1, NotBlocked
  <2>2. CASE \E q \in View(t) : q.id = w.id /\ Refs(q) = Refs(w)
    <3>1. PICK q \in View(t) : q.id = w.id /\ Refs(q) = Refs(w)
      BY <2>2
    <3>2. q \in put[t] /\ q.id \notin IdsOf(rows)
      BY <1>3, <3>1 DEF View, IdsOf
    <3>3. Refs(q) \subseteq KeyShared(t)
      BY <3>2 DEF KeyShared
    <3> QED BY <3>1, <3>3 DEF Closed
  <2> QED BY <2>1, <2>2, WrittenVersions
<1>4. \A u \in Txs \ {t} : IdsOf(Removed(t)) \cap KeyShared(u) = {}
  BY NotBlocked
<1> HIDE DEF W
<1>5. \A u \in Txs \ {t} : KeyShared(u)' = KeyShared(u)
  BY <1>1 DEF KeyShared
<1>6. \A u \in Txs \ {t} : KeyShared(t)' \cap gone'[u] = {}
  <2>1. SUFFICES ASSUME NEW u \in Txs \ {t}, NEW i \in KeyShared(t)' PROVE i \notin gone[u]
    BY <1>1
  <2>2. PICK p \in put'[t] : p.id \notin IdsOf(rows) /\ i \in Refs(p)
    BY <1>1, <2>1 DEF KeyShared
  <2>3. CASE p \in W
    BY <1>3, <2>2, <2>3
  <2>4. CASE p \in put[t]
    <3>1. i \in KeyShared(t)
      BY <2>2, <2>4 DEF KeyShared
    <3> QED BY <3>1 DEF Closed
  <2> QED BY <1>1, <2>2, <2>3, <2>4
<1>7. \A u \in Txs \ {t} : KeyShared(u)' \cap gone'[t] = {}
  BY <1>1, <1>4, <1>5 DEF Closed
<1>8. \A u, v \in Txs \ {t} : u # v => KeyShared(u)' \cap gone'[v] = {}
  BY <1>1, <1>5 DEF Closed
<1>9. ClosedUnder(rows')
  BY <1>1 DEF Closed
<1>10. \A u, v \in Txs : u # v => KeyShared(u)' \cap gone'[v] = {}
  BY <1>6, <1>7, <1>8
<1> QED BY <1>2, <1>9, <1>10 DEF Closed

\* What another transaction sees after a commit is closed as well: a row and its
\* parent, one from either side, are not deleted by the other side.
LEMMA CommitViewClosed ==
  ASSUME TypeOK, References, Apart, Closed, NEW t \in Txs, Commit(t), NEW u \in Txs \ {t}
  PROVE  ClosedUnder(View(u)')
<1>1. /\ rows' = View(t) /\ put'[u] = put[u] /\ gone'[u] = gone[u]
  BY DEF Commit, TypeOK
<1>2. \A i : i \in IdsOf(View(u)') <=>
             i \in IdsOf(put[u]) \/ (i \in IdsOf(View(t)) /\ i \notin gone[u])
  BY <1>1 DEF View, IdsOf
<1>3. View(u)' = {r \in View(t) : r.id \notin Touched(u)} \cup put[u]
  BY <1>1 DEF View, Touched
<1>4. /\ ClosedUnder(View(t)) /\ ClosedUnder(View(u))
      /\ IdsOf(View(t)) \cap gone[t] = {} /\ IdsOf(View(u)) \cap gone[u] = {}
  BY NotSeenGone DEF Closed
<1>5. KeyShared(t) \cap gone[u] = {} /\ KeyShared(u) \cap gone[t] = {}
  BY DEF Closed
\* A row of either has the references of the committed row with its id.
<1>6. \A r \in put[t] \cup put[u] : \A c \in rows : c.id = r.id => Refs(c) = Refs(r)
  BY DEF References, AllRows
<1>7. ASSUME NEW r \in View(t), r.id \notin Touched(u), NEW i \in Refs(r)
      PROVE  i \notin gone[u]
  <2>1. CASE r \in put[t] /\ r.id \notin IdsOf(rows)
    <3>1. i \in KeyShared(t)
      BY <1>7, <2>1 DEF KeyShared
    <3> QED BY <1>5, <3>1
  <2>2. CASE r \in rows \/ r.id \in IdsOf(rows)
    <3>1. PICK c \in rows : c.id = r.id /\ Refs(c) = Refs(r)
      BY <1>6, <1>7, <2>2 DEF View, IdsOf
    <3>2. c \in View(u)
      BY <1>7, <3>1 DEF View, Touched
    <3> QED BY <1>4, <1>7, <3>1, <3>2 DEF ClosedUnder
  <2> QED BY <1>7, <2>1, <2>2 DEF View
<1>8. ASSUME NEW r \in put[u], NEW i \in Refs(r), i \notin IdsOf(put[u])
      PROVE  i \in IdsOf(View(t)) /\ i \notin gone[u]
  <2>1. i \in IdsOf(rows) /\ i \notin gone[u]
    <3>1. i \in IdsOf(View(u))
      BY <1>4, <1>8 DEF View, ClosedUnder
    <3> QED BY <1>8, <3>1, ViewIds
  <2>2. CASE r.id \notin IdsOf(rows)
    <3>1. i \in KeyShared(u)
      BY <1>8, <2>2 DEF KeyShared
    <3>2. i \notin gone[t]
      BY <1>5, <3>1
    <3> QED BY <2>1, <3>2, ViewIds
  <2>3. CASE r.id \in IdsOf(rows)
    <3>1. PICK c \in rows : c.id = r.id /\ Refs(c) = Refs(r)
      BY <1>6, <1>8, <2>3 DEF IdsOf
    <3>2. r.id \notin Touched(t)
      BY <1>8 DEF Apart, Touched, IdsOf
    <3>3. c \in View(t)
      BY <3>1, <3>2 DEF View, Touched
    <3>4. i \in IdsOf(View(t))
      BY <1>4, <1>8, <3>1, <3>3 DEF ClosedUnder
    <3> QED BY <2>1, <3>4
  <2> QED BY <2>2, <2>3
<1>9. ASSUME NEW r \in View(u)', NEW i \in Refs(r) PROVE i \in IdsOf(View(u)')
  <2>1. CASE r \in View(t) /\ r.id \notin Touched(u)
    <3>1. i \in IdsOf(View(t))
      BY <1>4, <1>9, <2>1 DEF ClosedUnder
    <3>2. i \notin gone[u]
      BY <1>7, <1>9, <2>1
    <3> QED BY <1>2, <3>1, <3>2
  <2>2. CASE r \in put[u]
    BY <1>2, <1>8, <1>9, <2>2
  <2> QED BY <1>3, <1>9, <2>1, <2>2
<1> QED BY <1>9 DEF ClosedUnder

LEMMA CommitClosed ==
  ASSUME TypeOK, References, Apart, Closed, NEW t \in Txs, Commit(t)
  PROVE  Closed'
<1>1. /\ rows' = View(t) /\ put'[t] = {} /\ gone'[t] = {}
      /\ \A u \in Txs \ {t} : put'[u] = put[u] /\ gone'[u] = gone[u]
  BY DEF Commit, TypeOK
<1>2. ClosedUnder(rows')
  BY <1>1 DEF Closed
<1>3. \A u \in Txs : ClosedUnder(View(u)')
  <2>1. View(t)' = rows'
    BY <1>1 DEF View, IdsOf
  <2> QED BY <1>2, <2>1, CommitViewClosed
\* A row that had not been committed is only known to its transaction.
<1>4. \A u \in Txs : KeyShared(u)' \subseteq KeyShared(u)
  <2>1. SUFFICES ASSUME NEW u \in Txs, NEW i \in KeyShared(u)' PROVE i \in KeyShared(u)
    OBVIOUS
  <2>2. PICK p \in put'[u] : p.id \notin IdsOf(View(t)) /\ i \in Refs(p)
    BY <1>1, <2>1 DEF KeyShared
  <2>3. u # t /\ p \in put[u]
    BY <1>1, <2>2
  <2>4. p.id \notin gone[t]
    BY <2>3 DEF Apart, Touched, IdsOf
  <2>5. p.id \notin IdsOf(rows)
    BY <2>2, <2>4, ViewIds
  <2> QED BY <2>2, <2>3, <2>5 DEF KeyShared
<1>5. \A u, v \in Txs : u # v => KeyShared(u)' \cap gone'[v] = {}
  BY <1>1, <1>4 DEF Closed
<1> QED BY <1>2, <1>3, <1>5 DEF Closed

LEMMA DiscardClosed ==
  ASSUME Closed, NEW T \in SUBSET Txs, Discard(T)
  PROVE  Closed'
<1>1. /\ rows' = rows
      /\ \A u \in Txs : \/ put'[u] = put[u] /\ gone'[u] = gone[u]
                        \/ put'[u] = {} /\ gone'[u] = {}
  BY DEF Discard
<1>2. \A u \in Txs : View(u)' = View(u) \/ View(u)' = rows
  BY <1>1 DEF View, IdsOf
<1>3. \A u \in Txs : KeyShared(u)' \subseteq KeyShared(u) /\ gone'[u] \subseteq gone[u]
  BY <1>1 DEF KeyShared
<1>4. \A u \in Txs : ClosedUnder(View(u)')
  BY <1>2 DEF Closed
<1>5. \A u, v \in Txs : u # v => KeyShared(u)' \cap gone'[v] = {}
  BY <1>3 DEF Closed
<1> QED BY <1>1, <1>4, <1>5 DEF Closed

LEMMA NextClosed ==
  /\ TypeOK /\ Identified /\ Fresh /\ GoneIds /\ References /\ Apart /\ Closed
  /\ [Next]_vars
  => Closed'
<1>1. SUFFICES ASSUME TypeOK, Identified, Fresh, GoneIds, References, Apart, Closed,
                      [Next]_vars
               PROVE  Closed'
  OBVIOUS
<1>2. CASE \/ \E t \in Txs : SendInsert(t) \/ SendUpdate(t) \/ SendDelete(t)
           \/ UNCHANGED vars
  <2>1. rows' = rows /\ put' = put /\ gone' = gone
    BY <1>2 DEF SendInsert, SendUpdate, SendDelete, vars
  <2>2. \A t : View(t)' = View(t) /\ KeyShared(t)' = KeyShared(t)
    BY <2>1 DEF View, KeyShared
  <2> QED BY <1>1, <2>1, <2>2 DEF Closed
<1> QED
  BY <1>1, <1>2, NextCases, ExecuteClosed, CommitClosed, DiscardClosed

-----------------------------------------------------------------------------

\* Evidence has its snapshot, a snapshot and a finding their site, a finding the
\* older one it supersedes, among the committed rows: whichever transactions
\* insert a row, delete its parent and end at once, in any number.
THEOREM RowsTraceable == Spec => []Traceable
<1>1. TypeOK /\ References /\ Closed => Traceable
  <2>1. SUFFICES ASSUME TypeOK, References, Closed PROVE Traced(rows)
    BY DEF Traceable
  <2>2. rows \subseteq RowType /\ ClosedUnder(rows)
    BY <2>1 DEF TypeOK, Closed
  <2>3. \A q, r \in rows : q.id \in Refs(r) => Sound(r, q)
    BY <2>1 DEF References, AllRows
  <2> QED BY <2>2, <2>3, ClosedTraced
<1> QED
  BY <1>1, InitType, NextType, InitGone, NextGone, InitReferences, NextReferences,
     InitApart, NextApart, InitClosed, NextClosed, PTL DEF Spec
=============================================================================
