------------------------ MODULE TenantSessionsProofs ------------------------
(***************************************************************************)
(* Theorems about TenantSessions, for any orgs, users, tasks, pool and     *)
(* seeds, and for either reading of AfterLocal.                            *)
(***************************************************************************)
EXTENDS TenantSessions, FiniteSetTheorems, TLAPS

USE SettingAssumption, SessionAssumption

-----------------------------------------------------------------------------
(* Types *)

LEMMA RefusalType ==
  ASSUME NEW a \in AskType
  PROVE  Refusal(a) \in Replies
BY DEF Refusal, AskType, Replies, NoReply

LEMMA FirstSessionType ==
  ASSUME NEW a \in AskType
  PROVE  FirstSession(a) \in {"identity", "tenant", "unscoped", "probe"}
BY DEF FirstSession, AskType

LEMMA RevertedType ==
  ASSUME NEW s \in Settings
  PROVE  Reverted(s) \in Settings
BY DEF Reverted, Settings

LEMMA ViewType ==
  ASSUME TypeOK, NEW t \in Tasks
  PROVE  View(t) \in Memberships
BY DEF View, TypeOK, Memberships, EditType

LEMMA HoldingsType ==
  ASSUME NEW m \in Memberships
  PROVE  Holdings(m) \subseteq HeldType
BY DEF Holdings, Memberships, HeldType

\* The pool and settings keep their types when a transaction ends.
LEMMA EndTransactionType ==
  ASSUME TypeOK, NEW t \in Tasks, conn[t] \in Conns, EndTransaction(t)
  PROVE  /\ conn' \in [Tasks -> Conns \cup {NoConn}]
         /\ guc' \in [Conns -> Settings]
         /\ open' \subseteq Conns /\ idle' \subseteq Conns /\ dead' \subseteq Conns
         /\ edit' \in [Tasks -> EditType]
<1>1. guc[conn[t]] \in Settings
  BY DEF TypeOK
<1>2. Reverted(guc[conn[t]]) \in Settings
  BY <1>1, RevertedType
<1>3. NoEdit \in EditType
  BY DEF NoEdit, EditType
<1> QED
  BY <1>2, <1>3 DEF EndTransaction, TypeOK

\* So do the committed tables when a transaction publishes.
LEMMA PublishType ==
  ASSUME TypeOK, NEW t \in Tasks, Publish(t)
  PROVE  /\ memberships' \in Memberships
         /\ held' \subseteq HeldType
         /\ rows' \subseteq RowType
<1>1. View(t) \in Memberships
  BY ViewType
<1>2. Holdings(View(t)) \subseteq HeldType
  BY <1>1, HoldingsType
<1> QED
  BY <1>1, <1>2 DEF Publish, TypeOK

LEMMA TypeInit == Init => TypeOK
<1> SUFFICES ASSUME Init PROVE TypeOK
  OBVIOUS
<1>1. NoAsk \in AskType
  BY DEF NoAsk, AskType, Roles
<1>2. Unbound \in Settings
  BY DEF Unbound, Settings
<1>3. memberships \in Memberships
  BY DEF Init
<1>4. held \subseteq HeldType
  BY <1>3, HoldingsType DEF Init
<1> QED
  BY <1>1, <1>2, <1>3, <1>4 DEF Init, TypeOK, NoEdit, EditType, Replies, NoReply

(***************************************************************************)
(* Each kind of task opens its own sessions and goes through their steps:  *)
(* identity sessions belong to authenticated requests, tenant sessions to  *)
(* a request or a job that names an org.  A connection is held exactly     *)
(* during the steps that need one.                                         *)
(***************************************************************************)
FitsAsk(t) ==
  /\ session[t] = "identity" =>
       ask[t].kind = "request" /\ ask[t].org \in Orgs /\ ask[t].user \in Users
  /\ session[t] = "tenant" =>
       /\ ask[t].kind \in {"request", "job"} /\ ask[t].org \in Orgs
       /\ ask[t].kind = "request" => ask[t].user \in Users
  /\ session[t] \in {"unscoped", "probe"} => ask[t].kind \in {"global", "probe"}

FitsSession(t) ==
  /\ step[t] = "start" => session[t] = "none"
  /\ step[t] \notin {"start", "done"} => session[t] # "none"
  /\ step[t] = "bindOrg" => session[t] = "tenant"
  /\ step[t] = "bindUser" => session[t] \in {"identity", "tenant"}
  /\ step[t] = "authorise" => session[t] = "tenant" /\ ask[t].kind = "request"
  /\ step[t] \in Holding <=> conn[t] # NoConn

Shape == \A t \in Tasks : FitsAsk(t) /\ FitsSession(t)

LEMMA TypeStep == TypeOK /\ Shape /\ [Next]_vars => TypeOK'
<1> SUFFICES ASSUME TypeOK, Shape, [Next]_vars PROVE TypeOK'
  OBVIOUS
<1> USE DEF TypeOK, Fail, Finish, Replies, NoReply, Holding,
            taskVars, workVars, poolVars, dbVars
<1>1. ASSUME NEW t \in Tasks, NEW a \in Asks, Arrive(t, a) PROVE TypeOK'
  <2>1. a \in AskType
    OBVIOUS
  <2>2. Refusal(a) \in Replies /\ FirstSession(a) \in {"identity", "tenant", "unscoped", "probe"}
    BY <2>1, RefusalType, FirstSessionType
  <2> QED BY <1>1, <2>1, <2>2 DEF Arrive
<1>2. ASSUME NEW t \in Tasks, Reuse(t) PROVE TypeOK'
  BY <1>2 DEF Reuse, AfterCheckout
<1>3. ASSUME NEW t \in Tasks, Refresh(t) PROVE TypeOK'
  BY <1>3 DEF Refresh, AfterCheckout, Unbound, Settings
<1>4. ASSUME NEW t \in Tasks, Connect(t) PROVE TypeOK'
  BY <1>4 DEF Connect, AfterCheckout, Unbound, Settings
<1>5. ASSUME NEW t \in Tasks, PoolTimeout(t) PROVE TypeOK'
  BY <1>5 DEF PoolTimeout, Unavailable
<1>6. ASSUME NEW t \in Tasks, ConnectFails(t) PROVE TypeOK'
  BY <1>6 DEF ConnectFails, Unavailable
<1>7. ASSUME NEW t \in Tasks, BindOrg(t) PROVE TypeOK'
  <2>1. ask[t].org \in Orgs \cup {Unset}
    BY DEF AskType
  <2>2. guc' \in [Conns -> Settings]
    BY <1>7, <2>1 DEF BindOrg, Alive, Settings
  <2> QED BY <1>7, <2>2 DEF BindOrg, AfterBinding
<1>8. ASSUME NEW t \in Tasks, BindUser(t) PROVE TypeOK'
  <2>1. ask[t].user \in Users \cup {Unset}
    BY DEF AskType
  <2>2. guc' \in [Conns -> Settings]
    BY <1>8, <2>1 DEF BindUser, Alive, Settings
  <2> QED BY <1>8, <2>2 DEF BindUser, AfterBinding
<1>9. ASSUME NEW t \in Tasks, RequireRole(t) PROVE TypeOK'
  BY <1>9 DEF RequireRole
<1>10. ASSUME NEW t \in Tasks, Lookup(t) PROVE TypeOK'
  <2>1. Visible(Setting(t), ask[t].org, ask[t].user) \in Roles \cup {NoRole}
    BY <1>10 DEF Lookup, Shape, FitsAsk, Visible, Memberships
  <2> QED BY <1>10, <2>1 DEF Lookup
<1>11. ASSUME NEW t \in Tasks, ReadTenantRows(t) PROVE TypeOK'
  <2>1. \A o \in Orgs : <<"tenant", o>> \in SeenType
    BY DEF SeenType
  <2>2. seen' \in [Tasks -> SUBSET SeenType]
    BY <1>11, <2>1 DEF ReadTenantRows
  <2> QED BY <1>11, <2>2 DEF ReadTenantRows
<1>12. ASSUME NEW t \in Tasks, ReadMemberships(t) PROVE TypeOK'
  <2>1. \A p \in Pairs(View(t)) : <<"memberships", p[1]>> \in SeenType
    BY DEF SeenType, Pairs
  <2>2. seen' \in [Tasks -> SUBSET SeenType]
    BY <1>12, <2>1 DEF ReadMemberships
  <2> QED BY <1>12, <2>2 DEF ReadMemberships
<1>13. ASSUME NEW t \in Tasks, NEW o \in Orgs, NEW i \in Items, InsertRow(t, o, i)
       PROVE TypeOK'
  <2>1. [org |-> o, by |-> t, item |-> i] \in RowType
    BY DEF RowType
  <2>2. draft' \in [Tasks -> SUBSET RowType]
    BY <1>13, <2>1 DEF InsertRow
  <2> QED BY <1>13, <2>2 DEF InsertRow
<1>14. ASSUME NEW t \in Tasks, NEW p \in Orgs \X Users, NEW x \in Offered,
              EditMembership(t, p, x)
       PROVE TypeOK'
  <2>1. [org |-> p[1], user |-> p[2], role |-> x] \in EditType
    BY DEF EditType
  <2>2. edit' \in [Tasks -> EditType]
    BY <1>14, <2>1 DEF EditMembership
  <2> QED BY <1>14, <2>2 DEF EditMembership
<1>15. ASSUME NEW t \in Tasks, Return(t) PROVE TypeOK'
  BY <1>15 DEF Return
<1>16. ASSUME NEW t \in Tasks, Raise(t) PROVE TypeOK'
  BY <1>16 DEF Raise
<1>17. ASSUME NEW t \in Tasks, Ping(t) PROVE TypeOK'
  BY <1>17 DEF Ping
<1>18. ASSUME NEW t \in Tasks, ConnectionLost(t) PROVE TypeOK'
  BY <1>18 DEF ConnectionLost, Unavailable
<1>19. ASSUME NEW t \in Tasks, Commit(t) PROVE TypeOK'
  <2>1. conn[t] \in Conns
    BY <1>19 DEF Commit, Alive
  <2> QED BY <1>19, <2>1, EndTransactionType, PublishType DEF Commit, AfterIdentity
<1>20. ASSUME NEW t \in Tasks, CommitUnacknowledged(t) PROVE TypeOK'
  BY <1>20, PublishType DEF CommitUnacknowledged, Alive
<1>21. ASSUME NEW t \in Tasks, Rollback(t) PROVE TypeOK'
  <2>1. conn[t] \in Conns
    BY <1>21 DEF Rollback, Shape, FitsSession
  <2> QED BY <1>21, <2>1, EndTransactionType DEF Rollback
<1>22. CASE Failover
  BY <1>22 DEF Failover
<1>23. CASE Terminated \/ UNCHANGED vars
  BY <1>23 DEF Terminated, vars
<1> QED
  BY <1>1, <1>2, <1>3, <1>4, <1>5, <1>6, <1>7, <1>8, <1>9, <1>10, <1>11, <1>12,
     <1>13, <1>14, <1>15, <1>16, <1>17, <1>18, <1>19, <1>20, <1>21, <1>22, <1>23
  DEF Next, Step, CheckOut, Bind, Work, FinishBody, Leave

LEMMA ShapeStep == TypeOK /\ Shape /\ [Next]_vars => Shape'
<1> SUFFICES ASSUME TypeOK, Shape, [Next]_vars, NEW s \in Tasks
             PROVE  FitsAsk(s)' /\ FitsSession(s)'
  BY DEF Shape
<1> USE DEF TypeOK, Fail, Finish, Holding, FitsAsk, FitsSession,
            taskVars, workVars, poolVars, dbVars
<1>0. FitsAsk(s) /\ FitsSession(s)
  BY DEF Shape
<1>1. ASSUME NEW t \in Tasks, NEW a \in Asks, Arrive(t, a)
      PROVE  FitsAsk(s)' /\ FitsSession(s)'
  <2>1. a \in AskType
    OBVIOUS
  <2>2. CASE s = t
    BY <1>0, <1>1, <2>1, <2>2 DEF Arrive, Refusal, FirstSession, NoReply, AskType
  <2>3. CASE s # t
    BY <1>0, <1>1, <2>3 DEF Arrive
  <2> QED BY <2>2, <2>3
<1>2. ASSUME NEW t \in Tasks, Reuse(t) \/ Refresh(t) \/ Connect(t)
      PROVE  FitsAsk(s)' /\ FitsSession(s)'
  BY <1>0, <1>2 DEF Reuse, Refresh, Connect, AfterCheckout
<1>3. ASSUME NEW t \in Tasks, PoolTimeout(t) \/ ConnectFails(t)
      PROVE  FitsAsk(s)' /\ FitsSession(s)'
  BY <1>0, <1>3 DEF PoolTimeout, ConnectFails
<1>4. ASSUME NEW t \in Tasks, Bind(t)
      PROVE  FitsAsk(s)' /\ FitsSession(s)'
  BY <1>0, <1>4 DEF Bind, BindOrg, BindUser, RequireRole, AfterBinding, Alive
<1>5. ASSUME NEW t \in Tasks, Work(t)
      PROVE  FitsAsk(s)' /\ FitsSession(s)'
  BY <1>0, <1>5 DEF Work, ReadTenantRows, ReadMemberships, InsertRow,
                    EditMembership, InBody
<1>6. ASSUME NEW t \in Tasks, FinishBody(t)
      PROVE  FitsAsk(s)' /\ FitsSession(s)'
  BY <1>0, <1>6 DEF FinishBody, Return, Raise, Lookup, Ping, ConnectionLost, InBody
<1>7. ASSUME NEW t \in Tasks, Commit(t)
      PROVE  FitsAsk(s)' /\ FitsSession(s)'
  BY <1>0, <1>7 DEF Commit, EndTransaction, AfterIdentity
<1>8. ASSUME NEW t \in Tasks, Rollback(t)
      PROVE  FitsAsk(s)' /\ FitsSession(s)'
  BY <1>0, <1>8 DEF Rollback, EndTransaction
<1>9. ASSUME NEW t \in Tasks, CommitUnacknowledged(t)
      PROVE  FitsAsk(s)' /\ FitsSession(s)'
  BY <1>0, <1>9 DEF CommitUnacknowledged
<1>10. CASE Failover \/ Terminated \/ UNCHANGED vars
  BY <1>0, <1>10 DEF Failover, Terminated, vars
<1> QED
  BY <1>1, <1>2, <1>3, <1>4, <1>5, <1>6, <1>7, <1>8, <1>9, <1>10
  DEF Next, Step, CheckOut, Leave

-----------------------------------------------------------------------------
(* The pool *)

\* A connection that comes back leaves the pool consistent.
LEMMA EndTransactionPool ==
  ASSUME TypeOK, Accounted, NEW t \in Tasks, conn[t] \in Conns,
         EndTransaction(t)
  PROVE  Accounted'
<1>1. /\ conn[t] \in open \ idle
      /\ IsFiniteSet(idle)
  BY FS_Subset DEF Accounted, TypeOK
<1>2. conn' = [conn EXCEPT ![t] = NoConn]
  BY DEF EndTransaction
<1>3. {conn'[x] : x \in Tasks} \ {NoConn} = ({conn[x] : x \in Tasks} \ {NoConn}) \ {conn[t]}
  BY <1>2 DEF Accounted, TypeOK
<1>4. open' \ idle' = (open \ idle) \ {conn[t]}
  BY <1>1 DEF EndTransaction
<1>5. Cardinality(idle') <= PoolSize
  <2>1. CASE Cardinality(idle) < PoolSize
    <3>1. idle' = idle \cup {conn[t]}
      BY <2>1 DEF EndTransaction
    <3>2. Cardinality(idle') = Cardinality(idle) + 1
      BY <1>1, <3>1, FS_AddElement
    <3> QED BY <1>1, <2>1, <3>2, FS_CardinalityType
  <2>2. CASE ~(Cardinality(idle) < PoolSize)
    BY <2>2 DEF EndTransaction, Accounted
  <2> QED BY <2>1, <2>2
<1>6. idle' \subseteq open' /\ dead' \subseteq open'
  BY <1>1 DEF EndTransaction, Accounted
<1>7. \A t1, t2 \in Tasks : conn'[t1] = conn'[t2] => t1 = t2 \/ conn'[t1] = NoConn
  BY <1>2 DEF Accounted, TypeOK
<1> QED
  BY <1>3, <1>4, <1>5, <1>6, <1>7 DEF Accounted

\* So does one that is handed out, whether it was idle or is new.
LEMMA CheckOutPool ==
  ASSUME TypeOK, Shape, Accounted, NEW t \in Tasks, CheckOut(t)
  PROVE  Accounted'
<1>0. conn[t] = NoConn
  BY DEF CheckOut, Reuse, Refresh, Connect, Shape, FitsSession, Holding
<1>1. PICK c \in Conns \ (open \ idle) :
        /\ conn' = [conn EXCEPT ![t] = c]
        /\ idle' = idle \ {c}
        /\ open' = open \cup {c}
        /\ dead' \subseteq dead
  BY DEF CheckOut, Reuse, Refresh, Connect, TypeOK, Accounted
<1>2. \A x \in Tasks : conn[x] # c
  BY <1>1 DEF Accounted
<1>3. {conn'[x] : x \in Tasks} \ {NoConn} = ({conn[x] : x \in Tasks} \ {NoConn}) \cup {c}
  BY <1>0, <1>1 DEF TypeOK
<1>4. open' \ idle' = (open \ idle) \cup {c}
  BY <1>1
<1>5. Cardinality(idle') <= PoolSize
  <2>1. IsFiniteSet(idle)
    BY FS_Subset DEF TypeOK
  <2>2. Cardinality(idle') <= Cardinality(idle)
    BY <1>1, <2>1, FS_Subset
  <2> QED BY <1>1, <2>1, <2>2, FS_CardinalityType, FS_Subset DEF Accounted
<1>6. \A t1, t2 \in Tasks : conn'[t1] = conn'[t2] => t1 = t2 \/ conn'[t1] = NoConn
  BY <1>1, <1>2 DEF Accounted, TypeOK
<1> QED
  BY <1>1, <1>3, <1>4, <1>5, <1>6 DEF Accounted

LEMMA PoolStep == TypeOK /\ Shape /\ Accounted /\ [Next]_vars => Accounted'
<1> SUFFICES ASSUME TypeOK, Shape, Accounted, [Next]_vars PROVE Accounted'
  OBVIOUS
<1> USE DEF taskVars, workVars, poolVars, dbVars
<1>1. ASSUME NEW t \in Tasks, CheckOut(t) PROVE Accounted'
  BY <1>1, CheckOutPool
<1>2. ASSUME NEW t \in Tasks, Leave(t) PROVE Accounted'
  <2>1. conn[t] \in Conns
    BY <1>2 DEF Leave, Commit, Rollback, Shape, FitsSession, Holding, TypeOK
  <2> QED BY <1>2, <2>1, EndTransactionPool DEF Leave, Commit, Rollback
<1>3. ASSUME NEW t \in Tasks,
             \/ \E a \in Asks : Arrive(t, a)
             \/ PoolTimeout(t) \/ Bind(t) \/ Work(t) \/ FinishBody(t)
      PROVE  Accounted'
  <2>1. UNCHANGED <<conn, open, idle, dead>>
    BY <1>3 DEF Arrive, PoolTimeout, Bind, BindOrg, BindUser, RequireRole, Work,
       ReadTenantRows, ReadMemberships, InsertRow, EditMembership, FinishBody,
       Return, Raise, Lookup, Ping, ConnectionLost
  <2> QED BY <2>1 DEF Accounted
<1>4. ASSUME NEW t \in Tasks, ConnectFails(t) \/ CommitUnacknowledged(t)
      PROVE  Accounted'
  <2>1. UNCHANGED <<conn, open, idle>> /\ dead' \subseteq open
    BY <1>4 DEF ConnectFails, CommitUnacknowledged, Alive, Accounted
  <2> QED BY <2>1 DEF Accounted
<1>5. CASE Failover \/ Terminated \/ UNCHANGED vars
  <2>1. UNCHANGED <<conn, open, idle>> /\ dead' \subseteq open
    BY <1>5 DEF Failover, Terminated, vars, Accounted
  <2> QED BY <2>1 DEF Accounted
<1> QED
  BY <1>1, <1>2, <1>3, <1>4, <1>5 DEF Next, Step

-----------------------------------------------------------------------------
(* Bindings *)

LEMMA RevertedClean ==
  ASSUME NEW s \in Settings
  PROVE  Reverted(s).org \notin Orgs /\ Reverted(s).user \notin Users
BY DEF Reverted

\* What NoBindingLeaks says of one connection.
NoLeak(c) ==
  /\ guc[c].org \in Orgs =>
       \E t \in Tasks : /\ conn[t] = c /\ session[t] = "tenant"
                        /\ guc[c].org = ask[t].org
  /\ guc[c].user \in Users =>
       \E t \in Tasks : /\ conn[t] = c /\ session[t] \in {"identity", "tenant"}
                        /\ guc[c].user = ask[t].user

\* A binding stays with its holder while that holder keeps the connection.
LEMMA NoLeakKept ==
  ASSUME TypeOK, NEW c \in Conns, NoLeak(c), guc'[c] = guc[c],
         \A t \in Tasks : conn[t] = c =>
           conn'[t] = c /\ session'[t] = session[t] /\ ask'[t] = ask[t]
  PROVE  NoLeak(c)'
BY DEF NoLeak

LEMMA BindingStep ==
  TypeOK /\ Shape /\ Accounted /\ NoBindingLeaks /\ [Next]_vars => NoBindingLeaks'
<1> SUFFICES ASSUME TypeOK, Shape, Accounted, NoBindingLeaks, [Next]_vars,
                    NEW c \in Conns
             PROVE  NoLeak(c)'
  BY DEF NoBindingLeaks, NoLeak
<1> USE DEF taskVars, workVars, poolVars, dbVars
<1>0. NoLeak(c) /\ NoConn # c
  BY DEF NoBindingLeaks, NoLeak
<1>1. ASSUME NEW t \in Tasks, NEW a \in Asks, Arrive(t, a) PROVE NoLeak(c)'
  <2>1. conn[t] = NoConn
    BY <1>1 DEF Arrive, Shape, FitsSession, Holding
  <2>2. guc' = guc /\ conn' = conn
        /\ \A x \in Tasks : x # t => session'[x] = session[x] /\ ask'[x] = ask[x]
    BY <1>1 DEF Arrive, TypeOK
  <2> QED BY <1>0, <2>1, <2>2, NoLeakKept
<1>2. ASSUME NEW t \in Tasks, CheckOut(t) PROVE NoLeak(c)'
  <2>1. conn[t] = NoConn
    BY <1>2 DEF CheckOut, Reuse, Refresh, Connect, Shape, FitsSession, Holding
  <2>2. session' = session /\ ask' = ask
        /\ \A x \in Tasks : x # t => conn'[x] = conn[x]
    BY <1>2 DEF CheckOut, Reuse, Refresh, Connect, TypeOK
  <2>3. guc'[c] = guc[c] \/ guc'[c] = Unbound
    BY <1>2 DEF CheckOut, Reuse, Refresh, Connect, TypeOK
  <2>4. CASE guc'[c] = guc[c]
    BY <1>0, <2>1, <2>2, <2>4, NoLeakKept
  <2>5. CASE guc'[c] = Unbound
    BY <2>5 DEF NoLeak, Unbound
  <2> QED BY <2>3, <2>4, <2>5
<1>3. ASSUME NEW t \in Tasks, BindOrg(t) PROVE NoLeak(c)'
  <2>1. session[t] = "tenant" /\ conn' = conn /\ session' = session /\ ask' = ask
    BY <1>3 DEF BindOrg, Shape, FitsSession
  <2>2. CASE conn[t] = c
    <3>1. guc'[c].org = ask[t].org /\ guc'[c].user = guc[c].user
      BY <1>3, <2>2 DEF BindOrg, TypeOK, Settings
    <3> QED BY <1>0, <2>1, <2>2, <3>1 DEF NoLeak
  <2>3. CASE conn[t] # c
    <3>1. guc'[c] = guc[c]
      BY <1>3, <2>3 DEF BindOrg, TypeOK
    <3> QED BY <1>0, <2>1, <3>1, NoLeakKept
  <2> QED BY <2>2, <2>3
<1>4. ASSUME NEW t \in Tasks, BindUser(t) PROVE NoLeak(c)'
  <2>1. /\ session[t] \in {"identity", "tenant"}
        /\ conn' = conn /\ session' = session /\ ask' = ask
    BY <1>4 DEF BindUser, Shape, FitsSession
  <2>2. CASE conn[t] = c
    <3>1. guc'[c].user = ask[t].user /\ guc'[c].org = guc[c].org
      BY <1>4, <2>2 DEF BindUser, TypeOK, Settings
    <3> QED BY <1>0, <2>1, <2>2, <3>1 DEF NoLeak
  <2>3. CASE conn[t] # c
    <3>1. guc'[c] = guc[c]
      BY <1>4, <2>3 DEF BindUser, TypeOK
    <3> QED BY <1>0, <2>1, <3>1, NoLeakKept
  <2> QED BY <2>2, <2>3
<1>5. ASSUME NEW t \in Tasks, Leave(t) PROVE NoLeak(c)'
  <2>1. EndTransaction(t) /\ conn[t] \in Conns
    BY <1>5 DEF Leave, Commit, Rollback, Shape, FitsSession, Holding, TypeOK
  <2>2. CASE conn[t] = c
    <3>1. guc'[c] = Reverted(guc[c])
      BY <2>1, <2>2 DEF EndTransaction, TypeOK
    <3> QED BY <3>1, RevertedClean DEF NoLeak, TypeOK
  <2>3. CASE conn[t] # c
    <3>1. guc'[c] = guc[c] /\ \A x \in Tasks : x # t => conn'[x] = conn[x]
      BY <2>1, <2>3 DEF EndTransaction, TypeOK
    <3>2. ask' = ask /\ \A x \in Tasks : x # t => session'[x] = session[x]
      BY <1>5 DEF Leave, Commit, Rollback, AfterIdentity, TypeOK
    <3> QED BY <1>0, <2>3, <3>1, <3>2, NoLeakKept
  <2> QED BY <2>2, <2>3
<1>6. ASSUME NEW t \in Tasks,
             \/ PoolTimeout(t) \/ ConnectFails(t) \/ RequireRole(t)
             \/ Work(t) \/ FinishBody(t) \/ CommitUnacknowledged(t)
      PROVE  NoLeak(c)'
  <2>1. UNCHANGED <<conn, session, ask, guc>>
    BY <1>6 DEF PoolTimeout, ConnectFails, RequireRole, Work, ReadTenantRows,
       ReadMemberships, InsertRow, EditMembership, FinishBody, Return, Raise,
       Lookup, Ping, ConnectionLost, CommitUnacknowledged
  <2> QED BY <1>0, <2>1, NoLeakKept
<1>7. CASE Failover \/ Terminated \/ UNCHANGED vars
  <2>1. UNCHANGED <<conn, session, ask, guc>>
    BY <1>7 DEF Failover, Terminated, vars
  <2> QED BY <1>0, <2>1, NoLeakKept
<1> QED
  BY <1>1, <1>2, <1>3, <1>4, <1>5, <1>6, <1>7 DEF Next, Step, Bind

\* What a task's own connection is bound to is what the task asked for.
LEMMA OwnBinding ==
  ASSUME TypeOK, Accounted, NoBindingLeaks, NEW t \in Tasks, conn[t] \in Conns
  PROVE  /\ Setting(t).org \in Orgs => session[t] = "tenant" /\ Setting(t).org = ask[t].org
         /\ Setting(t).user \in Users => Setting(t).user = ask[t].user
BY DEF NoBindingLeaks, Accounted, Setting, TypeOK

-----------------------------------------------------------------------------
(* Roles *)

(***************************************************************************)
(* A role comes from a membership that was committed for the user in the   *)
(* org the request names; a tenant session of a request has one, and its   *)
(* body starts only when require_role has accepted it.                     *)
(***************************************************************************)
RoleKept(t) ==
  /\ role[t] # NoRole => /\ <<ask[t].org, ask[t].user, role[t]>> \in held
                         /\ session[t] \in {"identity", "tenant"}
                         /\ ask[t].kind = "request"
  /\ session[t] = "tenant" /\ ask[t].kind = "request" =>
       /\ role[t] # NoRole
       /\ step[t] \in {"body", "commit"} \/ draft[t] # {} \/ seen[t] # {} =>
            RoleRank[role[t]] >= RoleRank[ask[t].need]
  /\ session[t] \notin {"tenant", "unscoped"} =>
       draft[t] = {} /\ seen[t] = {} /\ edit[t] = NoEdit

RolesKept == Holdings(memberships) \subseteq held /\ \A t \in Tasks : RoleKept(t)

LEMMA RankType == \A r \in Roles : RoleRank[r] \in Int
BY DEF RoleRank, Roles

LEMMA RolesStep ==
  TypeOK /\ Shape /\ RolesKept /\ [Next]_vars => RolesKept'
<1> SUFFICES ASSUME TypeOK, Shape, RolesKept, [Next]_vars PROVE RolesKept'
  OBVIOUS
<1> USE DEF taskVars, workVars, poolVars, dbVars, Fail, Finish
<1>0. Holdings(memberships) \subseteq held /\ \A t \in Tasks : RoleKept(t)
  BY DEF RolesKept
<1>1. ASSUME NEW t \in Tasks, NEW a \in Asks, Arrive(t, a) PROVE RolesKept'
  <2>1. UNCHANGED <<memberships, held, role, draft, seen, edit>>
    BY <1>1 DEF Arrive
  <2>2. session[t] = "none"
    BY <1>1 DEF Arrive, Shape, FitsSession
  <2>3. RoleKept(t)'
    <3>1. role[t] = NoRole /\ draft[t] = {} /\ seen[t] = {} /\ edit[t] = NoEdit
      BY <1>0, <2>2 DEF RoleKept
    <3>2. a.kind = "request" => FirstSession(a) # "tenant"
      BY DEF FirstSession, AskType
    <3>3. ask'[t] = a /\ session'[t] \in {"none", FirstSession(a)}
      BY <1>1, <2>2 DEF Arrive, TypeOK
    <3> QED BY <2>1, <3>1, <3>2, <3>3 DEF RoleKept
  <2>4. ASSUME NEW x \in Tasks, x # t PROVE RoleKept(x)'
    BY <1>0, <1>1, <2>4 DEF Arrive, RoleKept, TypeOK
  <2> QED BY <1>0, <2>1, <2>3, <2>4 DEF RolesKept
<1>2. ASSUME NEW t \in Tasks, CheckOut(t) \/ BindOrg(t) \/ BindUser(t)
      PROVE  RolesKept'
  <2>1. UNCHANGED <<ask, session, memberships, held, role, draft, seen, edit>>
    BY <1>2 DEF CheckOut, Reuse, Refresh, Connect, BindOrg, BindUser
  <2>2. \A x \in Tasks : step'[x] \in {"body", "commit"} =>
          \/ step[x] = step'[x]
          \/ ask[x].kind # "request" \/ session[x] # "tenant"
    BY <1>2 DEF CheckOut, Reuse, Refresh, Connect, AfterCheckout, BindOrg, BindUser,
       AfterBinding, TypeOK
  <2> QED BY <1>0, <2>1, <2>2 DEF RolesKept, RoleKept
<1>3. ASSUME NEW t \in Tasks, RequireRole(t) PROVE RolesKept'
  <2>1. UNCHANGED <<ask, session, memberships, held, role, draft, seen, edit>>
    BY <1>3 DEF RequireRole
  <2>2. RoleRank[role[t]] < RoleRank[ask[t].need] => step'[t] = "rollback"
    BY <1>3 DEF RequireRole, TypeOK
  <2>3. \A x \in Tasks : x # t => step'[x] = step[x]
    BY <1>3 DEF RequireRole, TypeOK
  <2>4. session[t] = "tenant" /\ ask[t].kind = "request"
    BY <1>3 DEF RequireRole, Shape, FitsSession
  <2>5. RoleRank[role[t]] \in Int /\ RoleRank[ask[t].need] \in Int
    <3>1. role[t] \in Roles /\ ask[t].need \in Roles
      BY <1>0, <2>4 DEF RoleKept, TypeOK, AskType
    <3> QED BY <3>1, RankType
  <2>6. RoleKept(t)'
    BY <1>0, <2>1, <2>2, <2>4, <2>5 DEF RoleKept
  <2> QED BY <1>0, <2>1, <2>3, <2>6 DEF RolesKept, RoleKept
<1>4. ASSUME NEW t \in Tasks, Work(t) PROVE RolesKept'
  <2>1. UNCHANGED <<ask, session, memberships, held, role>>
    BY <1>4 DEF Work, ReadTenantRows, ReadMemberships, InsertRow, EditMembership
  <2>2. session[t] \in {"tenant", "unscoped"} /\ step[t] = "body"
    BY <1>4 DEF Work, ReadTenantRows, ReadMemberships, InsertRow, EditMembership, InBody
  <2>3. step'[t] \in {"body", "rollback"}
    BY <1>4, <2>2 DEF Work, ReadTenantRows, ReadMemberships, InsertRow, EditMembership,
       TypeOK
  <2>4. \A x \in Tasks : x # t => /\ step'[x] = step[x] /\ draft'[x] = draft[x]
                                  /\ seen'[x] = seen[x] /\ edit'[x] = edit[x]
    BY <1>4 DEF Work, ReadTenantRows, ReadMemberships, InsertRow, EditMembership, TypeOK
  <2>5. RoleKept(t)'
    BY <1>0, <2>1, <2>2, <2>3 DEF RoleKept
  <2> QED BY <1>0, <2>1, <2>4, <2>5 DEF RolesKept, RoleKept
<1>5. ASSUME NEW t \in Tasks, Lookup(t) PROVE RolesKept'
  <2>1. UNCHANGED <<ask, session, memberships, held, draft, seen, edit>>
    BY <1>5 DEF Lookup
  <2>2. session[t] = "identity" /\ ask[t].kind = "request"
        /\ <<ask[t].org, ask[t].user>> \in Orgs \X Users
    BY <1>5 DEF Lookup, Shape, FitsAsk
  <2>3. role'[t] \in {role[t], NoRole, memberships[<<ask[t].org, ask[t].user>>]}
    BY <1>5 DEF Lookup, Visible, TypeOK
  <2>4. <<ask[t].org, ask[t].user, memberships[<<ask[t].org, ask[t].user>>]>> \in held
    BY <1>0, <2>2 DEF Holdings
  <2>5. RoleKept(t)'
    BY <1>0, <2>1, <2>2, <2>3, <2>4 DEF RoleKept
  <2>6. \A x \in Tasks : x # t => step'[x] = step[x] /\ role'[x] = role[x]
    BY <1>5 DEF Lookup, TypeOK
  <2> QED BY <1>0, <2>1, <2>5, <2>6 DEF RolesKept, RoleKept
<1>6. ASSUME NEW t \in Tasks,
             Return(t) \/ Raise(t) \/ Ping(t) \/ ConnectionLost(t) \/ PoolTimeout(t)
               \/ ConnectFails(t)
      PROVE  RolesKept'
  <2>1. UNCHANGED <<ask, session, memberships, held, role, draft, seen, edit>>
    BY <1>6 DEF Return, Raise, Ping, ConnectionLost, PoolTimeout, ConnectFails
  <2>2. \A x \in Tasks : step'[x] \in {"body", "commit"} => step[x] \in {"body", "commit"}
    BY <1>6 DEF Return, Raise, Ping, ConnectionLost, PoolTimeout, ConnectFails, InBody,
       TypeOK
  <2> QED BY <1>0, <2>1, <2>2 DEF RolesKept, RoleKept
<1>7. ASSUME NEW t \in Tasks, Commit(t) PROVE RolesKept'
  <2>1. UNCHANGED <<ask, role, draft, seen>> /\ edit' = [edit EXCEPT ![t] = NoEdit]
    BY <1>7 DEF Commit, EndTransaction
  <2>2. held \subseteq held' /\ Holdings(memberships') \subseteq held'
    BY <1>7 DEF Commit, Publish
  <2>3. \A x \in Tasks : x # t => step'[x] = step[x] /\ session'[x] = session[x]
    BY <1>7 DEF Commit, AfterIdentity, TypeOK
  <2>4. /\ step'[t] \in {"done", "checkout"}
        /\ session'[t] = session[t] \/ (session[t] = "identity" /\ session'[t] = "tenant")
        /\ session[t] # "tenant" /\ session'[t] = "tenant" => role[t] # NoRole
    <3>1. CASE session[t] = "identity" /\ role[t] = NoRole
      <4>1. step' = [step EXCEPT ![t] = "done"] /\ session' = session
        BY <1>7, <3>1 DEF Commit, AfterIdentity
      <4> QED BY <4>1, <3>1 DEF TypeOK
    <3>2. CASE session[t] = "identity" /\ role[t] # NoRole
      BY <1>7, <3>2 DEF Commit, AfterIdentity, TypeOK
    <3>3. CASE session[t] # "identity"
      <4>1. step' = [step EXCEPT ![t] = "done"] /\ session' = session
        BY <1>7, <3>3 DEF Commit
      <4> QED BY <4>1, <3>3 DEF TypeOK
    <3> QED BY <3>1, <3>2, <3>3
  <2>5. RoleKept(t)'
    <3>1. session[t] # "tenant" /\ session'[t] = "tenant" => draft[t] = {} /\ seen[t] = {}
      BY <1>0, <2>4 DEF RoleKept
    <3> QED BY <1>0, <2>1, <2>2, <2>4, <3>1 DEF RoleKept, TypeOK
  <2>6. \A x \in Tasks : x # t => RoleKept(x)'
    BY <1>0, <2>1, <2>2, <2>3 DEF RoleKept, TypeOK
  <2> QED BY <2>2, <2>5, <2>6 DEF RolesKept
<1>8. ASSUME NEW t \in Tasks, Rollback(t) PROVE RolesKept'
  <2>1. UNCHANGED <<ask, session, memberships, held, role, draft, seen>>
        /\ edit' = [edit EXCEPT ![t] = NoEdit]
    BY <1>8 DEF Rollback, EndTransaction
  <2>2. \A x \in Tasks : step'[x] \in {"body", "commit"} => step[x] = step'[x]
    BY <1>8 DEF Rollback, TypeOK
  <2> QED BY <1>0, <2>1, <2>2 DEF RolesKept, RoleKept, TypeOK
<1>9. ASSUME NEW t \in Tasks, CommitUnacknowledged(t) PROVE RolesKept'
  <2>1. UNCHANGED <<ask, session, role, draft, seen, edit>>
    BY <1>9 DEF CommitUnacknowledged
  <2>2. held \subseteq held' /\ Holdings(memberships') \subseteq held'
    BY <1>9 DEF CommitUnacknowledged, Publish
  <2>3. \A x \in Tasks : step'[x] \in {"body", "commit"} => step[x] = step'[x]
    BY <1>9 DEF CommitUnacknowledged, TypeOK
  <2> QED BY <1>0, <2>1, <2>2, <2>3 DEF RolesKept, RoleKept
<1>10. CASE Failover \/ Terminated \/ UNCHANGED vars
  <2>1. UNCHANGED <<ask, session, step, memberships, held, role, draft, seen, edit>>
    BY <1>10 DEF Failover, Terminated, vars
  <2> QED BY <1>0, <2>1 DEF RolesKept, RoleKept
<1> QED
  BY <1>1, <1>2, <1>3, <1>4, <1>5, <1>6, <1>7, <1>8, <1>9, <1>10
  DEF Next, Step, Bind, FinishBody, Leave

-----------------------------------------------------------------------------
(* Work *)

(***************************************************************************)
(* What a task has seen, written and edited stays in the org it named, but *)
(* for the end of a membership of its own user.                            *)
(***************************************************************************)
WorkKept(t) ==
  /\ \A r \in draft[t] : session[t] = "tenant" /\ r.by = t /\ r.org = ask[t].org
  /\ \A o \in Orgs : <<"tenant", o>> \in seen[t] =>
       session[t] = "tenant" /\ o = ask[t].org
  /\ edit[t] # NoEdit =>
       /\ session[t] = "tenant"
       /\ \/ edit[t].org = ask[t].org
          \/ edit[t].user = ask[t].user /\ edit[t].role = NoRole

RowsKept == \A r \in rows : r \in draft[r.by]

WorkInv == RowsKept /\ \A t \in Tasks : WorkKept(t)

\* The settings decide what an insert or an edit may touch.
LEMMA EditInScope ==
  ASSUME TypeOK, Accounted, NoBindingLeaks,
         NEW t \in Tasks, NEW p \in Orgs \X Users, NEW x \in Offered,
         EditMembership(t, p, x), edit' # edit
  PROVE  /\ edit' = [edit EXCEPT ![t] = [org |-> p[1], user |-> p[2], role |-> x]]
         /\ p[1] = ask[t].org \/ (p[2] = ask[t].user /\ x = NoRole)
         /\ conn[t] \in Conns
<1>1. conn[t] \in Conns
  BY DEF EditMembership, Alive
<1>2. /\ memberships[p] # NoRole => MembershipUsing(Setting(t), p[1], p[2])
      /\ x # NoRole => MembershipCheck(Setting(t), p[1], p[2])
      /\ edit' = [edit EXCEPT ![t] = [org |-> p[1], user |-> p[2], role |-> x]]
      /\ x # memberships[p]
  BY DEF EditMembership
<1>3. p[1] \in Orgs /\ p[2] \in Users
  OBVIOUS
<1>4. /\ Setting(t).org = p[1] => p[1] = ask[t].org
      /\ Setting(t).user = p[2] => p[2] = ask[t].user
  BY <1>1, <1>3, OwnBinding
<1> QED
  BY <1>1, <1>2, <1>4 DEF MembershipUsing, MembershipCheck

LEMMA WorkStep ==
  /\ TypeOK /\ Shape /\ Accounted /\ NoBindingLeaks /\ RolesKept /\ WorkInv
  /\ [Next]_vars
  => WorkInv'
<1> SUFFICES ASSUME TypeOK, Shape, Accounted, NoBindingLeaks, RolesKept,
                    WorkInv, [Next]_vars
             PROVE  WorkInv'
  OBVIOUS
<1> USE DEF taskVars, workVars, poolVars, dbVars
<1>0. RowsKept /\ \A t \in Tasks : WorkKept(t)
  BY DEF WorkInv
<1>1. ASSUME NEW t \in Tasks, NEW a \in Asks, Arrive(t, a) PROVE WorkInv'
  <2>1. UNCHANGED <<rows, draft, seen, edit>>
    BY <1>1 DEF Arrive
  <2>2. session[t] = "none"
    BY <1>1 DEF Arrive, Shape, FitsSession
  <2>3. draft[t] = {} /\ seen[t] = {} /\ edit[t] = NoEdit
    BY <2>2 DEF RolesKept, RoleKept
  <2>4. \A x \in Tasks : x # t => ask'[x] = ask[x] /\ session'[x] = session[x]
    BY <1>1 DEF Arrive, TypeOK
  <2> QED BY <1>0, <2>1, <2>3, <2>4 DEF WorkInv, RowsKept, WorkKept
<1>2. ASSUME NEW t \in Tasks, ReadTenantRows(t) PROVE WorkInv'
  <2>1. UNCHANGED <<rows, draft, edit, ask, session>> /\ conn[t] \in Conns
    BY <1>2 DEF ReadTenantRows, Alive
  <2>2. \A x \in Tasks : x # t => seen'[x] = seen[x]
    BY <1>2 DEF ReadTenantRows, TypeOK
  <2>3. ASSUME NEW o \in Orgs, <<"tenant", o>> \in seen'[t]
        PROVE  session[t] = "tenant" /\ o = ask[t].org
    <3>1. <<"tenant", o>> \in seen[t] \/ Setting(t).org = o
      BY <1>2, <2>3 DEF ReadTenantRows, TenantUsing, TypeOK
    <3> QED BY <1>0, <2>1, <3>1, OwnBinding DEF WorkKept
  <2> QED BY <1>0, <2>1, <2>2, <2>3 DEF WorkInv, RowsKept, WorkKept
<1>3. ASSUME NEW t \in Tasks, ReadMemberships(t) PROVE WorkInv'
  <2>1. UNCHANGED <<rows, draft, edit, ask, session>>
    BY <1>3 DEF ReadMemberships
  <2>2. \A x \in Tasks, o \in Orgs : <<"tenant", o>> \in seen'[x] => <<"tenant", o>> \in seen[x]
    BY <1>3 DEF ReadMemberships, TypeOK
  <2> QED BY <1>0, <2>1, <2>2 DEF WorkInv, RowsKept, WorkKept
<1>4. ASSUME NEW t \in Tasks, NEW o \in Orgs, NEW i \in Items, InsertRow(t, o, i)
      PROVE  WorkInv'
  <2>1. UNCHANGED <<rows, seen, edit, ask, session>> /\ conn[t] \in Conns
    BY <1>4 DEF InsertRow, Alive
  <2>2. \A x \in Tasks : x # t => draft'[x] = draft[x]
    BY <1>4 DEF InsertRow, TypeOK
  <2>3. \/ draft'[t] = draft[t]
        \/ /\ draft'[t] = draft[t] \cup {[org |-> o, by |-> t, item |-> i]}
           /\ Setting(t).org = o
    BY <1>4 DEF InsertRow, TenantCheck, TypeOK
  <2>4. \A r \in draft'[t] : session[t] = "tenant" /\ r.by = t /\ r.org = ask[t].org
    BY <1>0, <2>1, <2>3, OwnBinding DEF WorkKept
  <2>5. \A x \in Tasks : draft[x] \subseteq draft'[x]
    BY <2>2, <2>3
  <2>6. RowsKept'
    <3>1. \A r \in rows : r.by \in Tasks
      BY DEF TypeOK, RowType
    <3> QED BY <1>0, <2>1, <2>5, <3>1 DEF RowsKept
  <2>7. ASSUME NEW x \in Tasks PROVE WorkKept(x)'
    BY <1>0, <2>1, <2>2, <2>4 DEF WorkKept
  <2> QED BY <2>6, <2>7 DEF WorkInv
<1>5. ASSUME NEW t \in Tasks, NEW p \in Orgs \X Users, NEW x \in Offered,
             EditMembership(t, p, x)
      PROVE  WorkInv'
  <2>1. UNCHANGED <<rows, draft, seen, ask, session>>
    BY <1>5 DEF EditMembership
  <2>2. CASE edit' = edit
    BY <1>0, <2>1, <2>2 DEF WorkInv, RowsKept, WorkKept
  <2>3. CASE edit' # edit
    <3>1. /\ edit' = [edit EXCEPT ![t] = [org |-> p[1], user |-> p[2], role |-> x]]
          /\ p[1] = ask[t].org \/ (p[2] = ask[t].user /\ x = NoRole)
          /\ conn[t] \in Conns
      BY <1>5, <2>3, EditInScope
    <3>2. session[t] = "tenant"
      <4>1. Setting(t).org \in Orgs \/ Setting(t).user \in Users
        BY <1>5, <2>3 DEF EditMembership, MembershipUsing, MembershipCheck
      <4>2. session[t] \in {"identity", "tenant"}
        BY <3>1, <4>1 DEF NoBindingLeaks, Accounted, Setting, TypeOK
      <4> QED BY <1>5, <4>2 DEF EditMembership, InBody
    <3>3. WorkKept(t)'
      BY <1>0, <2>1, <3>1, <3>2 DEF WorkKept, TypeOK
    <3>4. \A y \in Tasks : y # t => edit'[y] = edit[y]
      BY <3>1 DEF TypeOK
    <3> QED BY <1>0, <2>1, <3>3, <3>4 DEF WorkInv, RowsKept, WorkKept
  <2> QED BY <2>2, <2>3
<1>6. ASSUME NEW t \in Tasks,
             \/ CheckOut(t) \/ PoolTimeout(t) \/ ConnectFails(t) \/ Bind(t) \/ FinishBody(t)
      PROVE  WorkInv'
  <2>1. UNCHANGED <<rows, draft, seen, edit, ask, session>>
    BY <1>6 DEF CheckOut, Reuse, Refresh, Connect, PoolTimeout, ConnectFails, Bind,
       BindOrg, BindUser, RequireRole, FinishBody, Return, Raise, Lookup, Ping,
       ConnectionLost
  <2> QED BY <1>0, <2>1 DEF WorkInv, RowsKept, WorkKept
<1>7. ASSUME NEW t \in Tasks, Leave(t) PROVE WorkInv'
  <2>1. /\ UNCHANGED <<draft, seen, ask>>
        /\ edit' = [edit EXCEPT ![t] = NoEdit]
        /\ rows' \subseteq rows \cup draft[t]
    BY <1>7 DEF Leave, Commit, Rollback, EndTransaction, Publish
  <2>2. \A x \in Tasks : session'[x] = session[x] \/ session[x] = "identity"
    BY <1>7 DEF Leave, Commit, Rollback, AfterIdentity, TypeOK
  <2>3. \A x \in Tasks : session[x] = "identity" =>
          draft[x] = {} /\ seen[x] = {} /\ edit[x] = NoEdit
    BY DEF RolesKept, RoleKept
  <2>4. \A x \in Tasks : edit'[x] \in {edit[x], NoEdit}
    BY <2>1 DEF TypeOK
  <2>5. RowsKept'
    BY <1>0, <2>1 DEF RowsKept, WorkKept
  <2>6. ASSUME NEW x \in Tasks PROVE WorkKept(x)'
    BY <1>0, <2>1, <2>2, <2>3, <2>4 DEF WorkKept
  <2> QED BY <2>5, <2>6 DEF WorkInv
<1>8. ASSUME NEW t \in Tasks, CommitUnacknowledged(t) PROVE WorkInv'
  <2>1. UNCHANGED <<draft, seen, edit, ask, session>> /\ rows' = rows \cup draft[t]
    BY <1>8 DEF CommitUnacknowledged, Publish
  <2> QED BY <1>0, <2>1 DEF WorkInv, RowsKept, WorkKept
<1>9. CASE Failover \/ Terminated \/ UNCHANGED vars
  <2>1. UNCHANGED <<rows, draft, seen, edit, ask, session>>
    BY <1>9 DEF Failover, Terminated, vars
  <2> QED BY <1>0, <2>1 DEF WorkInv, RowsKept, WorkKept
<1> QED
  BY <1>1, <1>2, <1>3, <1>4, <1>5, <1>6, <1>7, <1>8, <1>9 DEF Next, Step, Work

-----------------------------------------------------------------------------
(* Outcomes *)

(***************************************************************************)
(* Nothing is committed before the end of the session; a reply of 200      *)
(* precedes the rollback of a probe alone.                                 *)
(***************************************************************************)
Atomic(t) ==
  /\ step[t] \notin {"rollback", "done"} => Written(t) = {} /\ reply[t] = NoReply
  /\ step[t] = "rollback" /\ reply[t] = 200 => session[t] = "probe"
  /\ Written(t) \in {{}, draft[t]}
  /\ step[t] = "done" /\ reply[t] = 200 => Written(t) = draft[t]
  /\ reply[t] \in {401, 403, 422, 503} => Written(t) = {}

Outcomes == \A t \in Tasks : Atomic(t)

LEMMA PublishWritten ==
  ASSUME TypeOK, WorkInv, NEW t \in Tasks, Publish(t)
  PROVE  /\ Written(t)' = Written(t) \cup draft[t]
         /\ \A x \in Tasks : x # t => Written(x)' = Written(x)
BY DEF Publish, Written, WorkInv, WorkKept

LEMMA OutcomeStep ==
  TypeOK /\ Shape /\ RolesKept /\ WorkInv /\ Outcomes /\ [Next]_vars => Outcomes'
<1> SUFFICES ASSUME TypeOK, Shape, RolesKept, WorkInv, Outcomes, [Next]_vars
             PROVE  Outcomes'
  OBVIOUS
<1> USE DEF taskVars, workVars, poolVars, dbVars, Fail, Finish, NoReply
<1>0. \A t \in Tasks : Atomic(t)
  BY DEF Outcomes
<1>1. ASSUME NEW t \in Tasks,
             \/ \E a \in Asks : Arrive(t, a)
             \/ PoolTimeout(t) \/ ConnectFails(t) \/ RequireRole(t) \/ FinishBody(t)
      PROVE  Outcomes'
  <2>1. rows' = rows /\ draft' = draft
    BY <1>1 DEF Arrive, PoolTimeout, ConnectFails, RequireRole, FinishBody, Return,
       Raise, Lookup, Ping, ConnectionLost
  <2>2. step[t] \notin {"rollback", "done"}
    BY <1>1 DEF Arrive, PoolTimeout, ConnectFails, RequireRole, FinishBody, Return,
       Raise, Lookup, Ping, ConnectionLost, InBody, Holding
  <2>3. \/ reply'[t] = reply[t] /\ step'[t] \notin {"rollback", "done"}
        \/ step'[t] = "rollback" /\ (reply'[t] = 200 => session'[t] = "probe")
        \/ step'[t] = "done" /\ reply'[t] # 200
    <3>1. CASE \E a \in Asks : Arrive(t, a)
      BY <3>1 DEF Arrive, Refusal, TypeOK
    <3>2. CASE PoolTimeout(t) \/ ConnectFails(t)
      BY <3>2 DEF PoolTimeout, ConnectFails, Unavailable, TypeOK
    <3>3. CASE RequireRole(t) \/ FinishBody(t)
      BY <3>3 DEF RequireRole, FinishBody, Return, Raise, Lookup, Ping, ConnectionLost,
         Unavailable, TypeOK
    <3> QED BY <1>1, <3>1, <3>2, <3>3
  <2>4. ASSUME NEW x \in Tasks, x # t
        PROVE  step'[x] = step[x] /\ reply'[x] = reply[x] /\ session'[x] = session[x]
    BY <1>1, <2>4 DEF Arrive, PoolTimeout, ConnectFails, RequireRole, FinishBody, Return,
       Raise, Lookup, Ping, ConnectionLost, TypeOK
  <2>5. Atomic(t)'
    BY <1>0, <2>1, <2>2, <2>3 DEF Atomic, Written
  <2> QED BY <1>0, <2>1, <2>4, <2>5 DEF Outcomes, Atomic, Written
<1>2. ASSUME NEW t \in Tasks, CheckOut(t) \/ BindOrg(t) \/ BindUser(t)
      PROVE  Outcomes'
  <2>1. UNCHANGED <<rows, draft, reply, session>>
    BY <1>2 DEF CheckOut, Reuse, Refresh, Connect, BindOrg, BindUser
  <2>2. step[t] \notin {"rollback", "done"} /\ step'[t] \notin {"rollback", "done"}
    BY <1>2 DEF CheckOut, Reuse, Refresh, Connect, AfterCheckout, BindOrg, BindUser,
       AfterBinding, TypeOK
  <2>3. \A x \in Tasks : x # t => step'[x] = step[x]
    BY <1>2 DEF CheckOut, Reuse, Refresh, Connect, BindOrg, BindUser, TypeOK
  <2> QED BY <1>0, <2>1, <2>2, <2>3 DEF Outcomes, Atomic, Written
<1>3. ASSUME NEW t \in Tasks, Work(t) PROVE Outcomes'
  <2>1. UNCHANGED <<rows, session>> /\ step[t] = "body" /\ session[t] # "probe"
    BY <1>3 DEF Work, ReadTenantRows, ReadMemberships, InsertRow, EditMembership, InBody
  <2>2. \/ step' = step /\ reply' = reply
        \/ step'[t] = "rollback" /\ reply'[t] = 500
    BY <1>3 DEF Work, ReadTenantRows, ReadMemberships, InsertRow, EditMembership, TypeOK
  <2>3. \A x \in Tasks : x # t =>
          step'[x] = step[x] /\ reply'[x] = reply[x] /\ draft'[x] = draft[x]
    BY <1>3 DEF Work, ReadTenantRows, ReadMemberships, InsertRow, EditMembership, TypeOK
  <2>4. Atomic(t)'
    BY <1>0, <2>1, <2>2 DEF Atomic, Written
  <2> QED BY <1>0, <2>1, <2>3, <2>4 DEF Outcomes, Atomic, Written
<1>4. ASSUME NEW t \in Tasks, Commit(t) PROVE Outcomes'
  <2>1. /\ Written(t)' = Written(t) \cup draft[t]
        /\ \A x \in Tasks : x # t => Written(x)' = Written(x)
    BY <1>4, PublishWritten DEF Commit
  <2>2. draft' = draft /\ Written(t) = {} /\ reply[t] = NoReply /\ step[t] = "commit"
    BY <1>0, <1>4 DEF Commit, Atomic
  <2>3. \A x \in Tasks : x # t =>
          step'[x] = step[x] /\ reply'[x] = reply[x] /\ session'[x] = session[x]
    BY <1>4 DEF Commit, AfterIdentity, TypeOK
  <2>4. Atomic(t)'
    <3>1. CASE session[t] = "identity"
      <4>1. draft[t] = {}
        BY <3>1 DEF RolesKept, RoleKept
      <4>2. \/ step'[t] = "done" /\ reply'[t] = 403
            \/ step'[t] = "checkout" /\ reply'[t] = reply[t]
        BY <1>4, <3>1 DEF Commit, AfterIdentity, TypeOK
      <4> QED BY <2>1, <2>2, <4>1, <4>2 DEF Atomic
    <3>2. CASE session[t] # "identity"
      <4>1. step'[t] = "done" /\ reply'[t] = 200
        BY <1>4, <3>2 DEF Commit, TypeOK
      <4> QED BY <2>1, <2>2, <4>1 DEF Atomic
    <3> QED BY <3>1, <3>2
  <2> QED BY <1>0, <2>1, <2>2, <2>3, <2>4 DEF Outcomes, Atomic
<1>5. ASSUME NEW t \in Tasks, CommitUnacknowledged(t) PROVE Outcomes'
  <2>1. /\ Written(t)' = Written(t) \cup draft[t]
        /\ \A x \in Tasks : x # t => Written(x)' = Written(x)
    BY <1>5, PublishWritten DEF CommitUnacknowledged
  <2>2. draft' = draft /\ Written(t) = {} /\ session' = session
    BY <1>0, <1>5 DEF CommitUnacknowledged, Atomic
  <2>3. /\ step'[t] = "rollback" /\ reply'[t] = 500
        /\ \A x \in Tasks : x # t => step'[x] = step[x] /\ reply'[x] = reply[x]
    BY <1>5 DEF CommitUnacknowledged, TypeOK
  <2> QED BY <1>0, <2>1, <2>2, <2>3 DEF Outcomes, Atomic
<1>6. ASSUME NEW t \in Tasks, Rollback(t) PROVE Outcomes'
  <2>1. UNCHANGED <<rows, draft, reply, session>> /\ step' = [step EXCEPT ![t] = "done"]
        /\ step[t] = "rollback"
    BY <1>6 DEF Rollback
  <2>2. session[t] = "probe" => draft[t] = {}
    BY DEF RolesKept, RoleKept
  <2> QED BY <1>0, <2>1, <2>2 DEF Outcomes, Atomic, Written, TypeOK
<1>7. CASE Failover \/ Terminated \/ UNCHANGED vars
  <2>1. UNCHANGED <<rows, draft, reply, session, step>>
    BY <1>7 DEF Failover, Terminated, vars
  <2> QED BY <1>0, <2>1 DEF Outcomes, Atomic, Written
<1> QED
  BY <1>1, <1>2, <1>3, <1>4, <1>5, <1>6, <1>7 DEF Next, Step, Bind, Leave

(***************************************************************************)
(* A lookup runs with its user bound, so that what it does not find does   *)
(* not exist, and a 403 names a membership that was missing or too low.    *)
(***************************************************************************)
Lacking(t) ==
  \E x \in Roles \cup {NoRole} :
    /\ <<ask[t].org, ask[t].user, x>> \in held
    /\ x = NoRole \/ RoleRank[x] < RoleRank[ask[t].need]

RefusalKept(t) ==
  /\ session[t] = "identity" /\ step[t] = "body" => Setting(t).user = ask[t].user
  /\ session[t] = "identity" /\ step[t] = "commit" /\ role[t] = NoRole => Lacking(t)
  /\ ask[t].kind = "request" /\ reply[t] = 403 => Lacking(t)

RefusalInv == \A t \in Tasks : RefusalKept(t)

\* A bound user finds its own membership.
LEMMA LookupFinds ==
  ASSUME NEW s, NEW o \in Orgs, NEW u \in Users, s.user = u,
         Visible(s, o, u) = NoRole
  PROVE  memberships[<<o, u>>] = NoRole
BY DEF Visible, MembershipUsing, OrganizationUsing, Pairs

LEMMA RefusalFrame ==
  ASSUME NEW x \in Tasks, RefusalKept(x), held \subseteq held',
         ask'[x] = ask[x], session'[x] = session[x], role'[x] = role[x],
         step'[x] = step[x], reply'[x] = reply[x],
         step[x] = "body" => conn'[x] = conn[x] /\ guc'[conn[x]] = guc[conn[x]]
  PROVE  RefusalKept(x)'
<1>1. Lacking(x) => Lacking(x)'
  BY DEF Lacking
<1> QED BY <1>1 DEF RefusalKept, Setting

LEMMA RefusalStep ==
  /\ TypeOK /\ Shape /\ Accounted /\ RolesKept /\ Outcomes /\ RefusalInv
  /\ [Next]_vars
  => RefusalInv'
<1> SUFFICES ASSUME TypeOK, Shape, Accounted, RolesKept, Outcomes, RefusalInv,
                    [Next]_vars
             PROVE  RefusalInv'
  OBVIOUS
<1> USE DEF taskVars, workVars, poolVars, dbVars, Fail, Finish
<1>0. \A t \in Tasks : RefusalKept(t)
  BY DEF RefusalInv
<1>1. ASSUME NEW t \in Tasks, NEW a \in Asks, Arrive(t, a) PROVE RefusalInv'
  <2>1. UNCHANGED <<role, held, guc, conn>>
    BY <1>1 DEF Arrive
  <2>2. \A x \in Tasks : x # t => /\ ask'[x] = ask[x] /\ session'[x] = session[x]
                                  /\ step'[x] = step[x] /\ reply'[x] = reply[x]
    BY <1>1 DEF Arrive, TypeOK
  <2>3. step[t] = "start" /\ ask'[t] = a /\ step'[t] \in {"checkout", "done"}
    BY <1>1 DEF Arrive, TypeOK
  <2>4. reply[t] = NoReply
    BY <2>3 DEF Outcomes, Atomic
  <2>5. a.kind = "request" => reply'[t] # 403
    BY <1>1, <2>4 DEF Arrive, Refusal, NoReply, TypeOK
  <2>6. RefusalKept(t)'
    BY <2>3, <2>5 DEF RefusalKept
  <2>7. ASSUME NEW x \in Tasks, x # t PROVE RefusalKept(x)'
    BY <1>0, <2>1, <2>2, <2>7, RefusalFrame
  <2> QED BY <2>6, <2>7 DEF RefusalInv
<1>2. ASSUME NEW t \in Tasks, CheckOut(t) PROVE RefusalInv'
  <2>1. UNCHANGED <<ask, session, role, reply, held>> /\ conn[t] = NoConn
    BY <1>2 DEF CheckOut, Reuse, Refresh, Connect, Shape, FitsSession, Holding
  <2>2. session[t] = "identity" => step'[t] \notin {"body", "commit"}
    BY <1>2 DEF CheckOut, Reuse, Refresh, Connect, AfterCheckout, TypeOK
  <2>3. ASSUME NEW x \in Tasks, x # t
        PROVE  step'[x] = step[x] /\ conn'[x] = conn[x]
    BY <1>2, <2>3 DEF CheckOut, Reuse, Refresh, Connect, TypeOK
  <2>4. ASSUME NEW x \in Tasks, x # t, conn[x] \in Conns
        PROVE  guc'[conn[x]] = guc[conn[x]]
    <3>1. conn[x] \in open \ idle
      BY <2>4 DEF Accounted
    <3> QED BY <1>2, <2>4, <3>1 DEF CheckOut, Reuse, Refresh, Connect, TypeOK
  <2>5. \A x \in Tasks : step[x] = "body" => conn[x] \in Conns
    BY DEF Shape, FitsSession, Holding, TypeOK
  <2>6. RefusalKept(t)'
    BY <1>0, <2>1, <2>2 DEF RefusalKept, Lacking
  <2>7. ASSUME NEW x \in Tasks, x # t PROVE RefusalKept(x)'
    BY <1>0, <2>1, <2>3, <2>4, <2>5, <2>7, RefusalFrame
  <2> QED BY <2>6, <2>7 DEF RefusalInv
<1>3. ASSUME NEW t \in Tasks, BindOrg(t) \/ BindUser(t) PROVE RefusalInv'
  <2>1. UNCHANGED <<ask, session, role, reply, held, conn>> /\ conn[t] \in Conns
    BY <1>3 DEF BindOrg, BindUser, Alive
  <2>2. \A x \in Tasks : x # t => step'[x] = step[x]
    BY <1>3 DEF BindOrg, BindUser, TypeOK
  <2>3. ASSUME NEW x \in Tasks, x # t, conn[x] \in Conns
        PROVE  guc'[conn[x]] = guc[conn[x]]
    <3>1. conn[x] # conn[t]
      BY <2>1, <2>3 DEF Accounted
    <3> QED BY <1>3, <2>1, <2>3, <3>1 DEF BindOrg, BindUser, TypeOK
  <2>4. \A x \in Tasks : step[x] = "body" => conn[x] \in Conns
    BY DEF Shape, FitsSession, Holding, TypeOK
  <2>5. /\ step'[t] # "commit"
        /\ session[t] = "identity" => guc'[conn[t]].user = ask[t].user
    <3>1. session[t] = "identity" => BindUser(t)
      BY <1>3 DEF BindOrg, Shape, FitsSession
    <3>2. step'[t] # "commit"
      BY <1>3 DEF BindOrg, BindUser, AfterBinding, TypeOK
    <3>3. BindUser(t) => guc'[conn[t]].user = ask[t].user
      BY <2>1 DEF BindUser, TypeOK, Settings
    <3> QED BY <3>1, <3>2, <3>3
  <2>6. RefusalKept(t)'
    BY <1>0, <2>1, <2>5 DEF RefusalKept, Lacking, Setting
  <2>7. ASSUME NEW x \in Tasks, x # t PROVE RefusalKept(x)'
    BY <1>0, <2>1, <2>2, <2>3, <2>4, <2>7, RefusalFrame
  <2> QED BY <2>6, <2>7 DEF RefusalInv
<1>4. ASSUME NEW t \in Tasks, RequireRole(t) PROVE RefusalInv'
  <2>1. UNCHANGED <<ask, session, role, held, guc, conn>>
    BY <1>4 DEF RequireRole
  <2>2. session[t] = "tenant" /\ ask[t].kind = "request"
    BY <1>4 DEF RequireRole, Shape, FitsSession
  <2>3. reply'[t] = reply[t] \/ RoleRank[role[t]] < RoleRank[ask[t].need]
    BY <1>4 DEF RequireRole
  <2>4. role[t] \in Roles /\ <<ask[t].org, ask[t].user, role[t]>> \in held
    BY <2>2 DEF RolesKept, RoleKept, TypeOK
  <2>5. \A x \in Tasks : x # t => step'[x] = step[x] /\ reply'[x] = reply[x]
    BY <1>4 DEF RequireRole, TypeOK
  <2>6. RefusalKept(t)'
    BY <1>0, <2>1, <2>2, <2>3, <2>4 DEF RefusalKept, Lacking
  <2>7. ASSUME NEW x \in Tasks, x # t PROVE RefusalKept(x)'
    BY <1>0, <2>1, <2>5, <2>7, RefusalFrame
  <2> QED BY <2>6, <2>7 DEF RefusalInv
<1>5. ASSUME NEW t \in Tasks, Lookup(t) PROVE RefusalInv'
  <2>1. UNCHANGED <<ask, session, held, guc, conn>>
    BY <1>5 DEF Lookup
  <2>2. session[t] = "identity" /\ step[t] = "body"
        /\ ask[t].org \in Orgs /\ ask[t].user \in Users
    BY <1>5 DEF Lookup, Shape, FitsAsk
  <2>3. step'[t] = "commit" => role'[t] = Visible(Setting(t), ask[t].org, ask[t].user)
    BY <1>5 DEF Lookup, TypeOK
  <2>4. reply'[t] # 403 \/ reply'[t] = reply[t]
    BY <1>5 DEF Lookup, TypeOK
  <2>5. step'[t] # "body"
    BY <1>5 DEF Lookup, TypeOK
  <2>6. step'[t] = "commit" /\ role'[t] = NoRole => <<ask[t].org, ask[t].user, NoRole>> \in held
    <3>1. SUFFICES ASSUME step'[t] = "commit", role'[t] = NoRole
                   PROVE  <<ask[t].org, ask[t].user, NoRole>> \in held
      OBVIOUS
    <3>2. memberships[<<ask[t].org, ask[t].user>>] = NoRole
      BY <1>0, <2>2, <2>3, <3>1, LookupFinds DEF RefusalKept
    <3>3. <<ask[t].org, ask[t].user, memberships[<<ask[t].org, ask[t].user>>]>> \in held
      BY <2>2 DEF RolesKept, Holdings
    <3> QED BY <3>2, <3>3
  <2>7. RefusalKept(t)'
    BY <1>0, <2>1, <2>4, <2>5, <2>6 DEF RefusalKept, Lacking
  <2>8. \A x \in Tasks : x # t =>
          step'[x] = step[x] /\ reply'[x] = reply[x] /\ role'[x] = role[x]
    BY <1>5 DEF Lookup, TypeOK
  <2>9. ASSUME NEW x \in Tasks, x # t PROVE RefusalKept(x)'
    BY <1>0, <2>1, <2>8, <2>9, RefusalFrame
  <2> QED BY <2>7, <2>9 DEF RefusalInv
<1>6. ASSUME NEW t \in Tasks,
             \/ PoolTimeout(t) \/ ConnectFails(t) \/ Work(t)
             \/ Return(t) \/ Raise(t) \/ Ping(t) \/ ConnectionLost(t)
      PROVE  RefusalInv'
  <2>1. UNCHANGED <<ask, session, role, held, guc, conn>>
    BY <1>6 DEF PoolTimeout, ConnectFails, Work, ReadTenantRows, ReadMemberships,
       InsertRow, EditMembership, Return, Raise, Ping, ConnectionLost
  <2>2. reply'[t] # 403 \/ reply'[t] = reply[t]
    BY <1>6 DEF PoolTimeout, ConnectFails, Unavailable, Work, ReadTenantRows,
       ReadMemberships, InsertRow, EditMembership, Return, Raise, Ping, ConnectionLost,
       TypeOK
  <2>3. session[t] = "identity" => step'[t] \notin {"body", "commit"}
    BY <1>6 DEF PoolTimeout, ConnectFails, Work, ReadTenantRows,
       ReadMemberships, InsertRow, EditMembership, Return, Raise, Ping, ConnectionLost,
       InBody, TypeOK
  <2>4. \A x \in Tasks : x # t => step'[x] = step[x] /\ reply'[x] = reply[x]
    BY <1>6 DEF PoolTimeout, ConnectFails, Work, ReadTenantRows,
       ReadMemberships, InsertRow, EditMembership, Return, Raise, Ping, ConnectionLost,
       TypeOK
  <2>5. RefusalKept(t)'
    BY <1>0, <2>1, <2>2, <2>3 DEF RefusalKept, Lacking
  <2>6. ASSUME NEW x \in Tasks, x # t PROVE RefusalKept(x)'
    BY <1>0, <2>1, <2>4, <2>6, RefusalFrame
  <2> QED BY <2>5, <2>6 DEF RefusalInv
<1>7. ASSUME NEW t \in Tasks, Leave(t) PROVE RefusalInv'
  <2>1. UNCHANGED <<ask, role>> /\ held \subseteq held' /\ EndTransaction(t)
    BY <1>7 DEF Leave, Commit, Rollback, Publish
  <2>2. conn[t] \in Conns /\ step[t] \in {"commit", "rollback"}
    BY <1>7 DEF Leave, Commit, Rollback, Shape, FitsSession, Holding, TypeOK
  <2>3. step'[t] \in {"done", "checkout"}
    BY <1>7 DEF Leave, Commit, Rollback, AfterIdentity, TypeOK
  <2>4. \/ reply'[t] \in {reply[t], 200}
        \/ session[t] = "identity" /\ step[t] = "commit" /\ role[t] = NoRole
    BY <1>7 DEF Leave, Commit, Rollback, AfterIdentity, TypeOK
  <2>5. \A x \in Tasks : x # t =>
          step'[x] = step[x] /\ reply'[x] = reply[x] /\ session'[x] = session[x]
    BY <1>7 DEF Leave, Commit, Rollback, AfterIdentity, TypeOK
  <2>6. ASSUME NEW x \in Tasks, x # t, conn[x] \in Conns
        PROVE  conn'[x] = conn[x] /\ guc'[conn[x]] = guc[conn[x]]
    <3>1. conn[x] # conn[t]
      BY <2>2, <2>6 DEF Accounted
    <3> QED BY <2>1, <2>2, <2>6, <3>1 DEF EndTransaction, TypeOK
  <2>7. \A x \in Tasks : step[x] = "body" => conn[x] \in Conns
    BY DEF Shape, FitsSession, Holding, TypeOK
  <2>8. \A x \in Tasks : Lacking(x) => Lacking(x)'
    BY <2>1 DEF Lacking
  <2>9. RefusalKept(t)'
    BY <1>0, <2>1, <2>3, <2>4, <2>8 DEF RefusalKept
  <2>10. ASSUME NEW x \in Tasks, x # t PROVE RefusalKept(x)'
    BY <1>0, <2>1, <2>5, <2>6, <2>7, <2>8, <2>10 DEF RefusalKept, Setting
  <2> QED BY <2>9, <2>10 DEF RefusalInv
<1>8. ASSUME NEW t \in Tasks, CommitUnacknowledged(t) PROVE RefusalInv'
  <2>1. UNCHANGED <<ask, session, role, conn, guc>> /\ held \subseteq held'
    BY <1>8 DEF CommitUnacknowledged, Publish
  <2>2. /\ step'[t] = "rollback" /\ reply'[t] = 500
        /\ \A x \in Tasks : x # t => step'[x] = step[x] /\ reply'[x] = reply[x]
    BY <1>8 DEF CommitUnacknowledged, TypeOK
  <2>3. \A x \in Tasks : Lacking(x) => Lacking(x)'
    BY <2>1 DEF Lacking
  <2> QED BY <1>0, <2>1, <2>2, <2>3 DEF RefusalInv, RefusalKept, Setting
<1>9. CASE Failover \/ Terminated \/ UNCHANGED vars
  <2>1. UNCHANGED <<ask, session, step, role, reply, conn, guc, held>>
    BY <1>9 DEF Failover, Terminated, vars
  <2> QED BY <1>0, <2>1 DEF RefusalInv, RefusalKept, Lacking, Setting
<1> QED
  BY <1>1, <1>2, <1>3, <1>4, <1>5, <1>6, <1>7, <1>8, <1>9
  DEF Next, Step, Bind, FinishBody

\* Until the lookup has run, a request has no role.
FreshLookup ==
  \A t \in Tasks :
    session[t] = "identity" /\ step[t] \in {"checkout", "bindUser", "body"} =>
      role[t] = NoRole

LEMMA FreshStep ==
  TypeOK /\ Shape /\ RolesKept /\ FreshLookup /\ [Next]_vars => FreshLookup'
<1> SUFFICES ASSUME TypeOK, Shape, RolesKept, FreshLookup, [Next]_vars, NEW s \in Tasks,
                    session'[s] = "identity",
                    step'[s] \in {"checkout", "bindUser", "body"}
             PROVE  role'[s] = NoRole
  BY DEF FreshLookup
<1> USE DEF taskVars, workVars, poolVars, dbVars, Fail, Finish, TypeOK
<1>0. \/ session[s] # "identity"
      \/ step[s] \notin {"checkout", "bindUser", "body"}
      \/ role[s] = NoRole
  BY DEF FreshLookup
<1>1. ASSUME NEW t \in Tasks, NEW a \in Asks, Arrive(t, a) PROVE role'[s] = NoRole
  <2>1. CASE s = t
    <3>1. session[s] = "none"
      BY <1>1, <2>1 DEF Arrive, Shape, FitsSession
    <3>2. role[s] = NoRole
      BY <3>1 DEF RolesKept, RoleKept
    <3> QED BY <1>1, <3>2 DEF Arrive
  <2>2. CASE s # t
    BY <1>0, <1>1, <2>2 DEF Arrive
  <2> QED BY <2>1, <2>2
<1>2. ASSUME NEW t \in Tasks, CheckOut(t) \/ Bind(t) PROVE role'[s] = NoRole
  <2>1. FitsSession(s)
    BY DEF Shape
  <2>2. UNCHANGED <<session, role>>
    BY <1>2 DEF CheckOut, Reuse, Refresh, Connect, Bind, BindOrg, BindUser, RequireRole
  <2>3. step[s] \in {"checkout", "bindUser", "body"}
    BY <1>2, <2>1, <2>2 DEF CheckOut, Reuse, Refresh, Connect, AfterCheckout, Bind,
       BindOrg, BindUser, RequireRole, AfterBinding, FitsSession
  <2> QED BY <1>0, <2>2, <2>3
<1>3. ASSUME NEW t \in Tasks,
             \/ Work(t) \/ FinishBody(t) \/ PoolTimeout(t) \/ ConnectFails(t)
             \/ Rollback(t) \/ CommitUnacknowledged(t)
      PROVE  role'[s] = NoRole
  <2>1. UNCHANGED session
    BY <1>3 DEF Work, ReadTenantRows, ReadMemberships, InsertRow, EditMembership, FinishBody,
       Return, Raise, Lookup, Ping, ConnectionLost, PoolTimeout, ConnectFails, Rollback,
       CommitUnacknowledged
  <2>2. step[s] = step'[s] /\ (role'[s] = role[s] \/ s = t)
    BY <1>3 DEF Work, ReadTenantRows, ReadMemberships, InsertRow, EditMembership, FinishBody,
       Return, Raise, Lookup, Ping, ConnectionLost, PoolTimeout, ConnectFails, Rollback,
       CommitUnacknowledged
  <2>3. role'[s] = role[s]
    BY <1>3, <2>2 DEF Work, ReadTenantRows, ReadMemberships, InsertRow, EditMembership,
       FinishBody, Return, Raise, Lookup, Ping, ConnectionLost, PoolTimeout, ConnectFails,
       Rollback, CommitUnacknowledged
  <2> QED BY <1>0, <2>1, <2>2, <2>3
<1>4. ASSUME NEW t \in Tasks, Commit(t) PROVE role'[s] = NoRole
  <2>1. role' = role /\ (s # t => session'[s] = session[s] /\ step'[s] = step[s])
    BY <1>4 DEF Commit, AfterIdentity
  <2>2. s # t
    BY <1>4 DEF Commit, AfterIdentity
  <2> QED BY <1>0, <2>1, <2>2
<1>5. CASE Failover \/ Terminated \/ UNCHANGED vars
  BY <1>0, <1>5 DEF Failover, Terminated, vars
<1> QED
  BY <1>1, <1>2, <1>3, <1>4, <1>5 DEF Next, Step, Leave

-----------------------------------------------------------------------------
(* Invariance *)

(***************************************************************************)
(* None of the properties is inductive alone: what a statement returns     *)
(* depends on the settings of the connection (NoBindingLeaks), which       *)
(* belong to one task because connections do (Accounted, Shape), and  *)
(* the session of that task exists because a membership did (RolesKept).   *)
(***************************************************************************)
IInv == /\ TypeOK /\ Shape /\ Accounted /\ NoBindingLeaks
        /\ RolesKept /\ WorkInv /\ Outcomes /\ RefusalInv /\ FreshLookup

LEMMA InitInv == Init => IInv
<1> SUFFICES ASSUME Init PROVE IInv
  OBVIOUS
<1>1. TypeOK
  BY TypeInit
<1>2. Shape
  BY DEF Init, Shape, FitsAsk, FitsSession, Holding
<1>3. Accounted
  <2>1. idle = {} /\ Cardinality({}) = 0
    BY FS_EmptySet DEF Init
  <2>2. {conn[t] : t \in Tasks} \ {NoConn} = {}
    BY DEF Init
  <2> QED BY <2>1, <2>2 DEF Init, Accounted
<1>4. NoBindingLeaks
  BY DEF Init, NoBindingLeaks, Unbound
<1>5. RolesKept
  BY DEF Init, RolesKept, RoleKept
<1>6. WorkInv
  BY DEF Init, WorkInv, RowsKept, WorkKept
<1>7. Outcomes
  BY DEF Init, Outcomes, Atomic, Written, NoReply
<1>8. RefusalInv
  BY DEF Init, RefusalInv, RefusalKept, NoReply
<1>9. FreshLookup
  BY DEF Init, FreshLookup
<1> QED
  BY <1>1, <1>2, <1>3, <1>4, <1>5, <1>6, <1>7, <1>8, <1>9 DEF IInv

LEMMA StepInv == IInv /\ [Next]_vars => IInv'
BY TypeStep, ShapeStep, PoolStep, BindingStep, RolesStep, WorkStep, OutcomeStep,
   RefusalStep, FreshStep DEF IInv

LEMMA Invariance == Spec => []IInv
BY InitInv, StepInv, PTL DEF Spec

\* Every variable of the sessions, the pool and the tables keeps its type.
THEOREM TypeCorrect == Spec => []TypeOK
BY Invariance, PTL DEF IInv

\* No session constructor shares its connection or keeps it past its last step,
\* and the pool never keeps more idle than pool_size, whatever fails.
THEOREM PoolStaysConsistent == Spec => []PoolConsistent
<1>1. IInv => PoolConsistent
  BY DEF IInv, Shape, FitsSession, PoolConsistent
<1> QED BY <1>1, Invariance, PTL

\* A setting that names an org or a user belongs to the task that holds the
\* connection, in a session of the kind that binds it.
THEOREM BindingsNeverLeak == Spec => []NoBindingLeaks
BY Invariance, PTL DEF IInv

\* A request is in a tenant session only with a role some commit gave its
\* user in that org, and has read or written only past require_role.
THEOREM OnlyMembersEnter == Spec => []RequestsAreMembers
<1>1. IInv => RequestsAreMembers
  BY DEF IInv, RolesKept, RoleKept, Shape, FitsAsk, RequestsAreMembers, Authorised
<1> QED BY <1>1, Invariance, PTL

\* A 403 is never an artefact of how the lookup ran.
THEOREM RefusalsNameALack == Spec => []RefusalsAreTrue
<1>1. IInv => RefusalsAreTrue
  BY DEF IInv, RefusalInv, RefusalKept, Lacking, RefusalsAreTrue
<1> QED BY <1>1, Invariance, PTL

\* Rows of a tenant table are seen in a tenant session of their org alone.
THEOREM TenantRowsIsolated == Spec => []OnlyOwnTenantRows
<1>1. IInv => OnlyOwnTenantRows
  BY DEF IInv, WorkInv, WorkKept, OnlyOwnTenantRows
<1> QED BY <1>1, Invariance, PTL

\* A committed row belongs to the org its author's session was bound to.
THEOREM WritesIsolated == Spec => []RowsStayInOrg
<1>1. IInv => RowsStayInOrg
  <2> SUFFICES ASSUME IInv, NEW r \in rows
               PROVE  session[r.by] = "tenant" /\ r.org = ask[r.by].org
    BY DEF RowsStayInOrg
  <2>1. r.by \in Tasks
    BY DEF IInv, TypeOK, RowType
  <2>2. r \in draft[r.by]
    BY DEF IInv, WorkInv, RowsKept
  <2> QED BY <2>1, <2>2 DEF IInv, WorkInv, WorkKept
<1> QED BY <1>1, Invariance, PTL

\* A task's rows are committed together or not at all, and its outcome says
\* which unless the outcome is a 500.
THEOREM TransactionsAreAtomic == Spec => []AllOrNothing
<1>1. IInv => AllOrNothing
  BY DEF IInv, Outcomes, Atomic, AllOrNothing
<1> QED BY <1>1, Invariance, PTL

-----------------------------------------------------------------------------
(* Steps *)

\* What a committing task does to the memberships is its one edit.
LEMMA PublishScope ==
  ASSUME IInv, NEW t \in Tasks, Publish(t), NEW p \in Orgs \X Users,
         memberships'[p] # memberships[p]
  PROVE  /\ p = <<edit[t].org, edit[t].user>> /\ memberships'[p] = edit[t].role
         /\ session[t] = "tenant"
         /\ p[1] = ask[t].org \/ (p[2] = ask[t].user /\ memberships'[p] = NoRole)
<1>1. p = <<edit[t].org, edit[t].user>> /\ memberships'[p] = edit[t].role
  BY DEF Publish, View
<1>2. edit[t] # NoEdit
  BY <1>1 DEF NoEdit
<1> QED
  BY <1>1, <1>2 DEF IInv, WorkInv, WorkKept

\* Memberships are left alone by everything but a commit.
LEMMA MembershipsChange ==
  ASSUME IInv, Next, memberships' # memberships
  PROVE  \E t \in Tasks : step[t] = "commit" /\ Publish(t)
<1> USE DEF taskVars, workVars, poolVars, dbVars
<1>1. ASSUME NEW t \in Tasks, Step(t) PROVE step[t] = "commit" /\ Publish(t)
  BY <1>1 DEF Step, Arrive, CheckOut, Reuse, Refresh, Connect, PoolTimeout, ConnectFails,
     Bind, BindOrg, BindUser, RequireRole, Work, ReadTenantRows, ReadMemberships,
     InsertRow, EditMembership, FinishBody, Return, Raise, Lookup, Ping,
     ConnectionLost, Leave, Commit, Rollback, CommitUnacknowledged
<1> QED BY <1>1 DEF Next, Failover, Terminated, vars

\* A membership changes only through a tenant session of its org, or when a
\* user ends its own.
THEOREM MembershipChangesScoped == Spec => MembershipsScoped
<1>1. IInv /\ [Next]_vars =>
        [\A p \in Orgs \X Users : memberships'[p] # memberships[p] =>
           \E t \in Tasks : InScope(t, p, memberships'[p])]_vars
  <2> SUFFICES ASSUME IInv, Next, NEW p \in Orgs \X Users,
                      memberships'[p] # memberships[p]
               PROVE  \E t \in Tasks : InScope(t, p, memberships'[p])
    OBVIOUS
  <2>1. PICK t \in Tasks : step[t] = "commit" /\ Publish(t)
    BY MembershipsChange
  <2> QED BY <2>1, PublishScope DEF InScope
<1> QED BY <1>1, Invariance, PTL DEF Spec, MembershipsScoped

-----------------------------------------------------------------------------
(* The sessions implement TenantIsolation *)

\* Everything Isolation sees of the tasks other than t stays.
OthersStay(t) ==
  \A x \in Tasks : x # t =>
    /\ ask'[x] = ask[x] /\ session'[x] = session[x] /\ role'[x] = role[x]
    /\ step'[x] = step[x] /\ seen'[x] = seen[x]

TenantSeen(t) == {o \in Orgs : <<"tenant", o>> \in seen[t]}

LEMMA OthersAccess ==
  ASSUME NEW t \in Tasks, OthersStay(t)
  PROVE  \A x \in Tasks : x # t => Access(x)' = Access(x) /\ TenantSeen(x)' = TenantSeen(x)
BY DEF OthersStay, Access, TenantSeen

LEMMA AbstractStutter ==
  ASSUME NEW t \in Tasks, OthersStay(t), Access(t)' = Access(t),
         TenantSeen(t)' = TenantSeen(t), UNCHANGED <<memberships, rows>>
  PROVE  UNCHANGED Isolation!avars
<1>1. \A x \in Tasks : Access(x)' = Access(x) /\ TenantSeen(x)' = TenantSeen(x)
  BY OthersAccess
<1> QED BY <1>1 DEF Isolation!avars, TenantSeen

\* A task that ends without committing anything departs.
LEMMA AbstractDepart ==
  ASSUME NEW t \in Tasks, OthersStay(t), step[t] \notin {"rollback", "done"},
         step'[t] \in {"rollback", "done"}, TenantSeen(t)' = TenantSeen(t),
         UNCHANGED <<memberships, rows>>
  PROVE  Isolation!Depart(t)
<1> DEFINE access == [x \in Tasks |-> Access(x)]
<1>1. Access(t) # Isolation!Over /\ Access(t)' = Isolation!Over
  BY DEF Access, Isolation!Over
<1>2. \A x \in Tasks : x # t => Access(x)' = Access(x)
  BY OthersAccess
<1>3. \A x \in Tasks : TenantSeen(x)' = TenantSeen(x)
  BY OthersAccess
<1>4. access' = [access EXCEPT ![t] = Isolation!Over]
  BY <1>1, <1>2
<1> QED BY <1>1, <1>3, <1>4 DEF Isolation!Depart, TenantSeen

\* One that commits from a tenant session publishes, and that is its last act.
LEMMA AbstractPublish ==
  ASSUME IInv, NEW t \in Tasks, OthersStay(t), Publish(t), session[t] = "tenant",
         step[t] = "commit", step'[t] \in {"rollback", "done"}, UNCHANGED seen
  PROVE  Isolation!Publish(t)
<1> DEFINE access == [x \in Tasks |-> Access(x)]
<1>1. /\ Access(t).phase = "inside" /\ Access(t).org = ask[t].org
      /\ Access(t).user = ask[t].user
      /\ Access(t)' = Isolation!Over
  BY DEF Access, Isolation!Over
<1>2. access' = [access EXCEPT ![t] = Isolation!Over]
  BY <1>1, OthersAccess
<1>3. draft[t] \in SUBSET [org : {ask[t].org}, by : {t}, item : Items]
  BY DEF IInv, WorkInv, WorkKept, TypeOK, RowType
<1>4. Isolation!Edited(Access(t), memberships')
  <2>1. memberships' \in Memberships /\ memberships \in Memberships
    BY PublishType DEF IInv, TypeOK
  <2>2. CASE memberships' = memberships
    BY <2>2 DEF Isolation!Edited
  <2>3. CASE memberships' # memberships
    <3>1. PICK p \in Orgs \X Users : memberships'[p] # memberships[p]
      BY <2>1, <2>3 DEF Memberships
    <3>2. /\ p = <<edit[t].org, edit[t].user>> /\ memberships'[p] = edit[t].role
          /\ p[1] = ask[t].org \/ (p[2] = ask[t].user /\ memberships'[p] = NoRole)
      BY <3>1, PublishScope
    <3>3. memberships' = [memberships EXCEPT ![p] = memberships'[p]]
      BY <2>1, <3>2 DEF Publish, View, Memberships
    <3>4. memberships'[p] \in Roles \cup {NoRole}
      BY <2>1 DEF Memberships
    <3> QED BY <1>1, <3>2, <3>3, <3>4 DEF Isolation!Edited
  <2> QED BY <2>2, <2>3
<1> QED
  BY <1>1, <1>2, <1>3, <1>4 DEF Isolation!Publish, Publish

\* Any other session has nothing to publish.
LEMMA PublishNothing ==
  ASSUME IInv, NEW t \in Tasks, Publish(t), session[t] # "tenant"
  PROVE  UNCHANGED <<memberships, rows>>
<1>1. draft[t] = {} /\ edit[t] = NoEdit
  BY DEF IInv, WorkInv, WorkKept
<1>2. View(t) = memberships
  BY <1>1 DEF View, NoEdit, IInv, TypeOK, Memberships
<1> QED BY <1>1, <1>2 DEF Publish

LEMMA AbstractInit == Init => Isolation!AInit
BY DEF Init, Isolation!AInit, Isolation!Outside, Access

LEMMA AbstractStep == IInv /\ [Next]_vars => [Isolation!ANext]_(Isolation!avars)
<1> SUFFICES ASSUME IInv, [Next]_vars
             PROVE  Isolation!ANext \/ UNCHANGED Isolation!avars
  OBVIOUS
<1> USE DEF taskVars, workVars, poolVars, dbVars, Fail, Finish, IInv
<1> DEFINE access == [x \in Tasks |-> Access(x)]
<1>1. ASSUME NEW t \in Tasks, NEW a \in Asks, Arrive(t, a)
      PROVE  Isolation!ANext \/ UNCHANGED Isolation!avars
  <2>1. OthersStay(t) /\ TenantSeen(t)' = TenantSeen(t) /\ UNCHANGED <<memberships, rows>>
    BY <1>1 DEF Arrive, OthersStay, TypeOK, TenantSeen
  <2>2. step[t] = "start" /\ session[t] = "none" /\ role[t] = NoRole /\ role' = role
    BY <1>1 DEF Arrive, Shape, FitsSession, RolesKept, RoleKept
  <2>3. CASE Refusal(a) # NoReply
    <3>1. step'[t] = "done"
      BY <1>1, <2>3 DEF Arrive, TypeOK
    <3> QED BY <2>1, <2>2, <3>1, AbstractDepart DEF Isolation!ANext
  <2>4. CASE Refusal(a) = NoReply /\ a.kind = "job"
    <3>1. /\ step'[t] = "checkout" /\ session'[t] = "tenant" /\ ask'[t] = a
          /\ a.org \in Orgs /\ a.user \in Users \cup {Unset}
      BY <1>1, <2>4 DEF Arrive, Refusal, FirstSession, NoReply, TypeOK, AskType
    <3>2. /\ Access(t) = Isolation!Outside
          /\ Access(t)' = Isolation!Inside(a.org, a.user, NoRole)
      BY <2>2, <3>1 DEF Access, Isolation!Outside, Isolation!Inside
    <3>3. access' = [access EXCEPT ![t] = Isolation!Inside(a.org, a.user, NoRole)]
      BY <2>1, <3>2, OthersAccess
    <3>4. \A x \in Tasks : TenantSeen(x)' = TenantSeen(x)
      BY <2>1, OthersAccess
    <3>5. Isolation!Entrust(t)
      BY <2>1, <3>1, <3>2, <3>3, <3>4 DEF Isolation!Entrust, TenantSeen
    <3> QED BY <3>5 DEF Isolation!ANext
  <2>5. CASE Refusal(a) = NoReply /\ a.kind # "job"
    <3>1. step'[t] = "checkout" /\ session'[t] # "tenant"
      BY <1>1, <2>5 DEF Arrive, FirstSession, TypeOK, AskType
    <3>2. Access(t)' = Access(t)
      BY <2>2, <3>1 DEF Access
    <3> QED BY <2>1, <3>2, AbstractStutter
  <2> QED BY <2>3, <2>4, <2>5
<1>2. ASSUME NEW t \in Tasks, CheckOut(t) \/ BindOrg(t) \/ BindUser(t) \/ Return(t)
      PROVE  Isolation!ANext \/ UNCHANGED Isolation!avars
  <2>1. UNCHANGED <<ask, session, role, seen, memberships, rows>>
    BY <1>2 DEF CheckOut, Reuse, Refresh, Connect, BindOrg, BindUser, Return
  <2>2. \A x \in Tasks : x # t => step'[x] = step[x]
    BY <1>2 DEF CheckOut, Reuse, Refresh, Connect, BindOrg, BindUser, Return, TypeOK
  <2>3. step[t] \notin {"rollback", "done"} /\ step'[t] \notin {"rollback", "done"}
    BY <1>2 DEF CheckOut, Reuse, Refresh, Connect, AfterCheckout, BindOrg, BindUser,
       AfterBinding, Return, InBody, TypeOK
  <2>4. Access(t)' = Access(t) /\ OthersStay(t) /\ TenantSeen(t)' = TenantSeen(t)
    BY <2>1, <2>2, <2>3 DEF Access, OthersStay, TenantSeen
  <2> QED BY <2>1, <2>4, AbstractStutter
<1>3. ASSUME NEW t \in Tasks,
             \/ PoolTimeout(t) \/ ConnectFails(t) \/ Raise(t) \/ Ping(t) \/ ConnectionLost(t)
      PROVE  Isolation!ANext \/ UNCHANGED Isolation!avars
  <2>1. UNCHANGED <<ask, session, role, seen, memberships, rows>>
    BY <1>3 DEF PoolTimeout, ConnectFails, Raise, Ping, ConnectionLost
  <2>2. step[t] \notin {"rollback", "done"} /\ step'[t] \in {"rollback", "done"}
        /\ \A x \in Tasks : x # t => step'[x] = step[x]
    BY <1>3 DEF PoolTimeout, ConnectFails, Raise, Ping, ConnectionLost, InBody, Holding,
       TypeOK
  <2>3. OthersStay(t) /\ TenantSeen(t)' = TenantSeen(t)
    BY <2>1, <2>2 DEF OthersStay, TenantSeen
  <2> QED BY <2>1, <2>2, <2>3, AbstractDepart DEF Isolation!ANext
<1>4. ASSUME NEW t \in Tasks, RequireRole(t)
      PROVE  Isolation!ANext \/ UNCHANGED Isolation!avars
  <2>1. UNCHANGED <<ask, session, role, seen, memberships, rows>>
    BY <1>4 DEF RequireRole
  <2>2. step[t] = "authorise" /\ step'[t] \in {"body", "rollback"}
        /\ \A x \in Tasks : x # t => step'[x] = step[x]
    BY <1>4 DEF RequireRole, TypeOK
  <2>3. OthersStay(t) /\ TenantSeen(t)' = TenantSeen(t)
    BY <2>1, <2>2 DEF OthersStay, TenantSeen
  <2>4. CASE step'[t] = "rollback"
    BY <2>1, <2>2, <2>3, <2>4, AbstractDepart DEF Isolation!ANext
  <2>5. CASE step'[t] = "body"
    <3>1. Access(t)' = Access(t)
      BY <2>1, <2>2, <2>5 DEF Access
    <3> QED BY <2>1, <2>3, <3>1, AbstractStutter
  <2> QED BY <2>2, <2>4, <2>5
<1>5. ASSUME NEW t \in Tasks, Lookup(t)
      PROVE  Isolation!ANext \/ UNCHANGED Isolation!avars
  <2>1. UNCHANGED <<ask, session, seen, memberships, rows>>
    BY <1>5 DEF Lookup
  <2>2. /\ session[t] = "identity" /\ step[t] = "body"
        /\ ask[t].org \in Orgs /\ ask[t].user \in Users
    BY <1>5 DEF Lookup, Shape, FitsAsk
  <2>3. OthersStay(t) /\ TenantSeen(t)' = TenantSeen(t)
    BY <1>5, <2>1 DEF Lookup, OthersStay, TenantSeen, TypeOK
  <2>4. \/ step'[t] = "rollback"
        \/ /\ step'[t] = "commit"
           /\ role'[t] \in {NoRole, memberships[<<ask[t].org, ask[t].user>>]}
    BY <1>5 DEF Lookup, Visible, TypeOK
  <2>5. CASE step'[t] = "rollback"
    BY <2>1, <2>2, <2>3, <2>5, AbstractDepart DEF Isolation!ANext
  <2>6. CASE step'[t] = "commit" /\ role'[t] = role[t]
    <3>1. Access(t)' = Access(t)
      BY <2>1, <2>2, <2>6 DEF Access
    <3> QED BY <2>1, <2>3, <3>1, AbstractStutter
  <2>7. CASE step'[t] = "commit" /\ role'[t] # role[t] /\ role[t] = NoRole
    <3>1. role'[t] = memberships[<<ask[t].org, ask[t].user>>] /\ role'[t] # NoRole
      BY <2>4, <2>7
    <3>2. /\ Access(t) = Isolation!Outside
          /\ Access(t)' = Isolation!Inside(ask[t].org, ask[t].user, role'[t])
      BY <2>1, <2>2, <2>7, <3>1 DEF Access, Isolation!Outside, Isolation!Inside
    <3>3. access' = [access EXCEPT ![t] = Isolation!Inside(ask[t].org, ask[t].user, role'[t])]
      BY <2>3, <3>2, OthersAccess
    <3>4. \A x \in Tasks : TenantSeen(x)' = TenantSeen(x)
      BY <2>3, OthersAccess
    <3>5. Isolation!Admit(t)
      BY <2>1, <2>2, <3>1, <3>2, <3>3, <3>4 DEF Isolation!Admit, TenantSeen
    <3> QED BY <3>5 DEF Isolation!ANext
  <2>8. role[t] = NoRole
    BY <2>2 DEF FreshLookup
  <2> QED BY <2>4, <2>5, <2>6, <2>7, <2>8
<1>6. ASSUME NEW t \in Tasks, ReadTenantRows(t)
      PROVE  Isolation!ANext \/ UNCHANGED Isolation!avars
  <2>1. UNCHANGED <<ask, session, role, memberships, rows>>
    BY <1>6 DEF ReadTenantRows
  <2>2. step[t] = "body" /\ OthersStay(t)
    BY <1>6, <2>1 DEF ReadTenantRows, InBody, OthersStay, TypeOK
  <2>3. CASE TenantRaises(Setting(t))
    <3>1. step'[t] = "rollback" /\ UNCHANGED seen
      BY <1>6, <2>3 DEF ReadTenantRows, TypeOK
    <3>2. TenantSeen(t)' = TenantSeen(t)
      BY <3>1 DEF TenantSeen
    <3> QED BY <2>1, <2>2, <3>1, <3>2, AbstractDepart DEF Isolation!ANext
  <2>4. CASE ~TenantRaises(Setting(t))
    <3> DEFINE visible == {x \in Orgs : TenantUsing(Setting(t), x)}
    <3>1. UNCHANGED step
          /\ TenantSeen(t)' = TenantSeen(t) \cup visible
      BY <1>6, <2>4 DEF ReadTenantRows, TypeOK, TenantSeen
    <3>2. Access(t)' = Access(t)
      BY <2>1, <3>1 DEF Access
    <3>3. conn[t] \in Conns
      BY <1>6 DEF ReadTenantRows, Alive
    <3>4. visible = {} \/ (visible = {ask[t].org} /\ session[t] = "tenant")
      BY <3>3, OwnBinding DEF TenantUsing
    <3>5. CASE visible = {}
      BY <2>1, <2>2, <3>1, <3>2, <3>5, AbstractStutter
    <3>6. CASE visible = {ask[t].org} /\ session[t] = "tenant"
      <4>1. Access(t).phase = "inside" /\ Access(t).org = ask[t].org
        BY <2>2, <3>6 DEF Access
      <4>2. \A x \in Tasks : Access(x)' = Access(x)
        BY <2>2, <3>2, OthersAccess
      <4>3. TenantSeen(t)' = TenantSeen(t) \cup {ask[t].org}
        BY <3>1, <3>6
      <4>4. Isolation!Observe(t)
        <5>1. \A x \in Tasks : x # t => TenantSeen(x)' = TenantSeen(x)
          BY <2>2, OthersAccess
        <5> QED BY <2>1, <4>1, <4>2, <4>3, <5>1 DEF Isolation!Observe, TenantSeen
      <4> QED BY <4>4 DEF Isolation!ANext
    <3> QED BY <3>4, <3>5, <3>6
  <2> QED BY <2>3, <2>4
<1>7. ASSUME NEW t \in Tasks,
             \/ ReadMemberships(t)
             \/ \E o \in Orgs, i \in Items : InsertRow(t, o, i)
             \/ \E p \in Orgs \X Users, x \in Offered : EditMembership(t, p, x)
      PROVE  Isolation!ANext \/ UNCHANGED Isolation!avars
  <2>1. UNCHANGED <<ask, session, role, memberships, rows>>
    BY <1>7 DEF ReadMemberships, InsertRow, EditMembership
  <2>2. step[t] = "body" /\ OthersStay(t)
    BY <1>7, <2>1 DEF ReadMemberships, InsertRow, EditMembership, InBody, OthersStay, TypeOK
  <2>3. TenantSeen(t)' = TenantSeen(t)
    <3>1. CASE ReadMemberships(t)
      BY <3>1 DEF ReadMemberships, TypeOK, TenantSeen
    <3>2. CASE UNCHANGED seen
      BY <3>2 DEF TenantSeen
    <3> QED BY <1>7, <3>1, <3>2 DEF InsertRow, EditMembership
  <2>4. step'[t] \in {"body", "rollback"}
    BY <1>7, <2>2 DEF ReadMemberships, InsertRow, EditMembership, TypeOK
  <2>5. CASE step'[t] = "rollback"
    BY <2>1, <2>2, <2>3, <2>5, AbstractDepart DEF Isolation!ANext
  <2>6. CASE step'[t] = "body"
    <3>1. Access(t)' = Access(t)
      BY <2>1, <2>2, <2>6 DEF Access
    <3> QED BY <2>1, <2>2, <2>3, <3>1, AbstractStutter
  <2> QED BY <2>4, <2>5, <2>6
<1>8. ASSUME NEW t \in Tasks, Commit(t)
      PROVE  Isolation!ANext \/ UNCHANGED Isolation!avars
  <2>1. UNCHANGED <<ask, role, seen>> /\ step[t] = "commit" /\ Publish(t)
    BY <1>8 DEF Commit
  <2>2. OthersStay(t) /\ TenantSeen(t)' = TenantSeen(t)
    BY <1>8, <2>1 DEF Commit, AfterIdentity, OthersStay, TenantSeen, TypeOK
  <2>3. CASE session[t] = "tenant"
    <3>1. step'[t] = "done"
      BY <1>8, <2>3 DEF Commit, TypeOK
    <3> QED BY <2>1, <2>2, <2>3, <3>1, AbstractPublish DEF Isolation!ANext
  <2>4. CASE session[t] = "identity" /\ role[t] # NoRole
    <3>1. UNCHANGED <<memberships, rows>>
      BY <2>1, <2>4, PublishNothing
    <3>2. step'[t] = "checkout" /\ session'[t] = "tenant"
      BY <1>8, <2>4 DEF Commit, AfterIdentity, TypeOK
    <3>3. Access(t)' = Access(t)
      BY <2>1, <2>4, <3>2 DEF Access
    <3> QED BY <2>2, <3>1, <3>3, AbstractStutter
  <2>5. CASE session[t] # "tenant" /\ (session[t] = "identity" => role[t] = NoRole)
    <3>1. UNCHANGED <<memberships, rows>>
      BY <2>1, <2>5, PublishNothing
    <3>2. step'[t] = "done"
      BY <1>8, <2>5 DEF Commit, AfterIdentity, TypeOK
    <3> QED BY <2>1, <2>2, <3>1, <3>2, AbstractDepart DEF Isolation!ANext
  <2> QED BY <2>3, <2>4, <2>5
<1>9. ASSUME NEW t \in Tasks, CommitUnacknowledged(t)
      PROVE  Isolation!ANext \/ UNCHANGED Isolation!avars
  <2>1. UNCHANGED <<ask, session, role, seen>> /\ step[t] = "commit" /\ Publish(t)
    BY <1>9 DEF CommitUnacknowledged
  <2>2. step'[t] = "rollback" /\ OthersStay(t) /\ TenantSeen(t)' = TenantSeen(t)
    BY <1>9, <2>1 DEF CommitUnacknowledged, OthersStay, TenantSeen, TypeOK
  <2>3. CASE session[t] = "tenant"
    BY <2>1, <2>2, <2>3, AbstractPublish DEF Isolation!ANext
  <2>4. CASE session[t] # "tenant"
    <3>1. UNCHANGED <<memberships, rows>>
      BY <2>1, <2>4, PublishNothing
    <3> QED BY <2>1, <2>2, <3>1, AbstractDepart DEF Isolation!ANext
  <2> QED BY <2>3, <2>4
<1>10. ASSUME NEW t \in Tasks, Rollback(t)
       PROVE  Isolation!ANext \/ UNCHANGED Isolation!avars
  <2>1. /\ UNCHANGED <<ask, session, role, seen, memberships, rows>>
        /\ step[t] = "rollback" /\ step'[t] = "done"
        /\ \A x \in Tasks : x # t => step'[x] = step[x]
    BY <1>10 DEF Rollback, TypeOK
  <2>2. OthersStay(t) /\ TenantSeen(t)' = TenantSeen(t) /\ Access(t)' = Access(t)
    BY <2>1 DEF OthersStay, TenantSeen, Access
  <2> QED BY <2>1, <2>2, AbstractStutter
<1>11. CASE Failover \/ Terminated \/ UNCHANGED vars
  <2>1. UNCHANGED <<ask, session, step, role, seen, memberships, rows>>
    BY <1>11 DEF Failover, Terminated, vars
  <2> QED BY <2>1 DEF Isolation!avars, Access
<1> QED
  BY <1>1, <1>2, <1>3, <1>4, <1>5, <1>6, <1>7, <1>8, <1>9, <1>10, <1>11
  DEF Next, Step, Bind, Work, FinishBody, Leave

\* The sessions implement the promise of TenantIsolation: each step admits,
\* entrusts, observes, publishes or departs as it allows, or is invisible.
THEOREM ImplementsIsolation == Spec => KeepsIsolation
BY AbstractInit, AbstractStep, Invariance, PTL
DEF Spec, KeepsIsolation, Isolation!ASpec
=============================================================================
