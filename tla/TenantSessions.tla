--------------------------- MODULE TenantSessions ---------------------------
(***************************************************************************)
(* Sessions of neptiq_db.session over one connection pool, as the API      *)
(* dependencies of neptiq_api.deps.tenancy and the workers open them.      *)
(*                                                                         *)
(* A task is one API request, one worker job, one reader of global tables  *)
(* or one readiness probe.  A request first looks its membership up in an  *)
(* identity session, gives the connection back, and only then opens a      *)
(* tenant session bound to the org it asked for; a job opens the tenant    *)
(* session directly.  Each step of the model is one statement, or one      *)
(* pool operation, of one task.                                            *)
(*                                                                         *)
(* No route uses the database yet (only the health routes exist), so the   *)
(* body of a session is any sequence of the statements the session lets    *)
(* through: reads, inserts and one membership edit.                        *)
(***************************************************************************)
EXTENDS RowPolicies, Integers, FiniteSets

CONSTANTS
  Tasks,         \* concurrent users of the pool
  Asks,          \* what a task may ask for, a set of AskType records
  Items,         \* rows one transaction may write, as work and its cost record
  Offered,       \* roles an edit may set, NoRole to end the membership
  Conns,         \* pool slots: pool_size + max_overflow of them
  NoConn,
  PoolSize,      \* connections kept when idle (pool_size)
  AfterLocal,    \* what a transaction-local setting reads as afterwards
  Seeds,         \* memberships before the first task
  MaxFailovers   \* bound on failovers and lost acknowledgements

Roles == {"viewer", "member", "admin", "owner"}

NoRole == "no role"

RoleRank == [r \in Roles |-> CASE r = "viewer" -> 0
                               [] r = "member" -> 1
                               [] r = "admin"  -> 2
                               [] r = "owner"  -> 3]

Memberships == [Orgs \X Users -> Roles \cup {NoRole}]

AskType == [kind : {"request", "job", "global", "probe"},
            user : Users \cup {Unset},
            org  : Orgs \cup {Unset},
            need : Roles,          \* what the route passes to require_role
            reasoned : BOOLEAN]    \* the reason string is long enough

ASSUME SessionAssumption ==
  /\ Asks \subseteq AskType
  /\ \A a \in Asks : a.kind = "request" => a.org # Unset
  /\ NoConn \notin Conns
  /\ IsFiniteSet(Conns)
  /\ PoolSize \in Nat /\ PoolSize > 0
  /\ AfterLocal \in {Unset, Empty}
  /\ Seeds \subseteq Memberships
  /\ Offered \subseteq Roles \cup {NoRole}
  /\ MaxFailovers \in Nat

VARIABLES
  ask,          \* what the task asks for
  session,      \* the session it is in
  step,         \* where it is in that session
  conn,         \* the connection it holds
  role,         \* the role its lookup returned (TenantContext.role)
  reply,        \* the outcome: an HTTP status, 200 also for a worker's success
  seen,         \* <<table, org>> for the rows its statements returned
  draft,        \* rows it inserted; they exist for others once in rows
  edit,         \* the membership change it made and has not committed
  guc,          \* the settings of each connection
  open, idle,   \* connections the pool counts; those checked in
  dead,         \* connections whose server side is gone
  memberships,  \* committed memberships
  held,         \* every <<org, user, role>> ever committed (history)
  rows,         \* committed tenant rows
  failovers

taskVars == <<ask, session, step, role, reply>>
workVars == <<seen, draft, edit>>
poolVars == <<conn, guc, open, idle, dead>>
dbVars   == <<memberships, held, rows>>
vars     == <<taskVars, workVars, poolVars, dbVars, failovers>>

NoAsk  == [kind |-> "probe", user |-> Unset, org |-> Unset,
           need |-> "viewer", reasoned |-> FALSE]
NoEdit == [org |-> Unset, user |-> Unset, role |-> NoRole]

RowType  == [org : Orgs, by : Tasks, item : Items]
SeenType == {"tenant", "memberships"} \X Orgs
EditType == [org : Orgs \cup {Unset}, user : Users \cup {Unset},
             role : Roles \cup {NoRole}]
HeldType == Orgs \X Users \X (Roles \cup {NoRole})

NoReply == 0
Replies == {NoReply, 200, 401, 403, 422, 500, 503}

\* The steps during which a task holds a connection.
Holding == {"bindOrg", "bindUser", "authorise", "body", "commit", "rollback"}

Holdings(m) == {<<p[1], p[2], m[p]>> : p \in Orgs \X Users}

Pairs(m) == {p \in Orgs \X Users : m[p] # NoRole}

Init ==
  /\ ask = [t \in Tasks |-> NoAsk]
  /\ session = [t \in Tasks |-> "none"]
  /\ step = [t \in Tasks |-> "start"]
  /\ conn = [t \in Tasks |-> NoConn]
  /\ role = [t \in Tasks |-> NoRole]
  /\ reply = [t \in Tasks |-> NoReply]
  /\ seen = [t \in Tasks |-> {}]
  /\ draft = [t \in Tasks |-> {}]
  /\ edit = [t \in Tasks |-> NoEdit]
  /\ guc = [c \in Conns |-> Unbound]
  /\ open = {} /\ idle = {} /\ dead = {}
  /\ memberships \in Seeds
  /\ held = Holdings(memberships)
  /\ rows = {}
  /\ failovers = 0

-----------------------------------------------------------------------------
(* Helpers *)

Alive(t) == conn[t] \in Conns \ dead

Setting(t) == guc[conn[t]]

\* The status of a task that could not use the database: readyz catches
\* every exception and answers 503, every other caller ends in a 500.
Unavailable(t) == IF session[t] = "probe" THEN 503 ELSE 500

\* An exception inside the session: it is rolled back, then reported.
Fail(t, status) ==
  /\ step' = [step EXCEPT ![t] = "rollback"]
  /\ reply' = [reply EXCEPT ![t] = status]

Finish(t, status) ==
  /\ step' = [step EXCEPT ![t] = "done"]
  /\ reply' = [reply EXCEPT ![t] = status]

(***************************************************************************)
(* set_config(name, value, true) ends with the transaction, committed or   *)
(* not.  What the setting reads as afterwards is PostgreSQL's choice, not  *)
(* this code's: see AfterLocal in the README.                              *)
(***************************************************************************)
RevertedNever(s) == s

Reverted(s) ==
  [org  |-> IF s.org  = Unset THEN Unset ELSE AfterLocal,
   user |-> IF s.user = Unset THEN Unset ELSE AfterLocal]

\* Mutants: the pool keeps whatever comes back; the lookup keeps its connection.
EndTransactionKeepsAll(t) ==
  /\ guc' = [guc EXCEPT ![conn[t]] = Reverted(@)]
  /\ idle' = idle \cup {conn[t]}
  /\ UNCHANGED <<open, dead>>
  /\ conn' = [conn EXCEPT ![t] = NoConn]
  /\ edit' = [edit EXCEPT ![t] = NoEdit]

EndTransactionAfterLookup(t) ==
  IF session[t] = "identity"
  THEN UNCHANGED <<guc, idle, open, dead, conn, edit>>
  ELSE EndTransactionKeepsAll(t)

\* The pool gets t's connection back, keeping at most PoolSize checked in.
EndTransaction(t) ==
  /\ guc' = [guc EXCEPT ![conn[t]] = Reverted(@)]
  /\ IF Cardinality(idle) < PoolSize
     THEN /\ idle' = idle \cup {conn[t]}
          /\ UNCHANGED <<open, dead>>
     ELSE /\ open' = open \ {conn[t]}
          /\ dead' = dead \ {conn[t]}
          /\ UNCHANGED idle
  /\ conn' = [conn EXCEPT ![t] = NoConn]
  /\ edit' = [edit EXCEPT ![t] = NoEdit]

-----------------------------------------------------------------------------
(* Entering *)

\* What is refused before any session is opened.
Refusal(a) ==
  CASE a.kind = "request" /\ a.user = Unset -> 401
    [] a.kind = "job" /\ a.org = Unset      -> 403
    [] a.kind = "global" /\ ~a.reasoned     -> 403
    [] OTHER                                -> NoReply

FirstSession(a) ==
  CASE a.kind = "request" -> "identity"
    [] a.kind = "job"     -> "tenant"
    [] a.kind = "global"  -> "unscoped"
    [] a.kind = "probe"   -> "probe"

Arrive(t, a) ==
  /\ step[t] = "start"
  /\ ask' = [ask EXCEPT ![t] = a]
  /\ \/ /\ Refusal(a) # NoReply
        /\ Finish(t, Refusal(a))
        /\ UNCHANGED session
     \/ /\ Refusal(a) = NoReply
        /\ session' = [session EXCEPT ![t] = FirstSession(a)]
        /\ step' = [step EXCEPT ![t] = "checkout"]
        /\ UNCHANGED reply
  /\ UNCHANGED <<role, workVars, poolVars, dbVars, failovers>>

AfterCheckoutUnscopedLookup(t) ==
  IF session[t] = "tenant" THEN "bindOrg" ELSE "body"

AfterCheckout(t) ==
  CASE session[t] = "tenant"   -> "bindOrg"
    [] session[t] = "identity" -> "bindUser"
    [] OTHER                   -> "body"

\* An idle connection that answers the pre-ping is handed out as it is.
Reuse(t) ==
  /\ step[t] = "checkout"
  /\ \E c \in idle \ dead :
       /\ conn' = [conn EXCEPT ![t] = c]
       /\ idle' = idle \ {c}
  /\ step' = [step EXCEPT ![t] = AfterCheckout(t)]
  /\ UNCHANGED <<ask, session, role, reply, workVars, guc, open, dead,
                 dbVars, failovers>>

\* One that does not, or that is older than pool_recycle, is replaced.
Refresh(t) ==
  /\ step[t] = "checkout"
  /\ \E c \in idle :
       /\ conn' = [conn EXCEPT ![t] = c]
       /\ idle' = idle \ {c}
       /\ dead' = dead \ {c}
       /\ guc' = [guc EXCEPT ![c] = Unbound]
  /\ step' = [step EXCEPT ![t] = AfterCheckout(t)]
  /\ UNCHANGED <<ask, session, role, reply, workVars, open, dbVars, failovers>>

\* With nothing idle the pool opens another, up to its overflow.
Connect(t) ==
  /\ step[t] = "checkout"
  /\ idle = {}
  /\ \E c \in Conns \ open :
       /\ conn' = [conn EXCEPT ![t] = c]
       /\ open' = open \cup {c}
       /\ guc' = [guc EXCEPT ![c] = Unbound]
  /\ step' = [step EXCEPT ![t] = AfterCheckout(t)]
  /\ UNCHANGED <<ask, session, role, reply, workVars, idle, dead, dbVars,
                 failovers>>

Exhausted == idle = {} /\ open = Conns

PoolTimeout(t) ==
  /\ step[t] = "checkout"
  /\ Exhausted
  /\ Finish(t, Unavailable(t))
  /\ UNCHANGED <<ask, session, role, workVars, poolVars, dbVars, failovers>>

\* A replacement or an additional connection cannot be opened.  The slot of
\* the one that was to be replaced stays in the pool, without a connection.
ConnectFails(t) ==
  /\ step[t] = "checkout"
  /\ ~Exhausted
  /\ \/ \E c \in idle : dead' = dead \cup {c}
     \/ idle = {} /\ UNCHANGED dead
  /\ Finish(t, Unavailable(t))
  /\ UNCHANGED <<ask, session, role, workVars, conn, guc, open, idle, dbVars,
                 failovers>>

-----------------------------------------------------------------------------
(* Binding *)

AfterBinding(t) ==
  IF session[t] = "tenant" /\ ask[t].kind = "request" THEN "authorise"
                                                      ELSE "body"

BindOrg(t) ==
  /\ step[t] = "bindOrg"
  /\ Alive(t)
  /\ guc' = [guc EXCEPT ![conn[t]].org = ask[t].org]
  /\ step' = [step EXCEPT ![t] = IF ask[t].user # Unset THEN "bindUser"
                                                        ELSE AfterBinding(t)]
  /\ UNCHANGED <<ask, session, role, reply, workVars, conn, open, idle, dead,
                 dbVars, failovers>>

BindUser(t) ==
  /\ step[t] = "bindUser"
  /\ Alive(t)
  /\ guc' = [guc EXCEPT ![conn[t]].user = ask[t].user]
  /\ step' = [step EXCEPT ![t] = AfterBinding(t)]
  /\ UNCHANGED <<ask, session, role, reply, workVars, conn, open, idle, dead,
                 dbVars, failovers>>

\* require_role, called by the route before it does anything else.
RequireRole(t) ==
  /\ step[t] = "authorise"
  /\ IF RoleRank[role[t]] < RoleRank[ask[t].need]
     THEN Fail(t, 403)
     ELSE /\ step' = [step EXCEPT ![t] = "body"]
          /\ UNCHANGED reply
  /\ UNCHANGED <<ask, session, role, workVars, poolVars, dbVars, failovers>>

-----------------------------------------------------------------------------
(* The membership lookup of get_tenant_context *)

VisibleUnchecked(s, o, u) ==
  IF MembershipUsing(s, o, u) /\ <<o, u>> \in Pairs(memberships)
  THEN memberships[<<o, u>>]
  ELSE Unset

VisibleOfAnyone(s, o, u) ==
  LET others == {p \in Pairs(memberships) : p[1] = o}
  IN  IF others = {} THEN NoRole ELSE memberships[CHOOSE p \in others : TRUE]

Visible(s, o, u) ==
  IF MembershipUsing(s, o, u) /\ OrganizationUsing(s, o, Pairs(memberships))
  THEN memberships[<<o, u>>]
  ELSE NoRole

Lookup(t) ==
  /\ session[t] = "identity" /\ step[t] = "body"
  /\ Alive(t)
  /\ \/ /\ MembershipRaises(Setting(t))
        /\ Fail(t, 500)
        /\ UNCHANGED role
     \/ /\ ~MembershipRaises(Setting(t))
        /\ role' = [role EXCEPT ![t] =
                      Visible(Setting(t), ask[t].org, ask[t].user)]
        /\ step' = [step EXCEPT ![t] = "commit"]
        /\ UNCHANGED reply
  /\ UNCHANGED <<ask, session, workVars, poolVars, dbVars, failovers>>

-----------------------------------------------------------------------------
(* Statements of a session's body *)

InBody(t) ==
  /\ session[t] \in {"tenant", "unscoped"}
  /\ step[t] = "body"

\* The rows of a tenant table; every org is taken to have some.
ReadTenantRows(t) ==
  /\ InBody(t) /\ Alive(t)
  /\ IF TenantRaises(Setting(t))
     THEN Fail(t, 500) /\ UNCHANGED seen
     ELSE /\ seen' = [seen EXCEPT ![t] = @ \cup
                {<<"tenant", o>> : o \in {x \in Orgs : TenantUsing(Setting(t), x)}}]
          /\ UNCHANGED <<step, reply>>
  /\ UNCHANGED <<ask, session, role, draft, edit, poolVars, dbVars, failovers>>

\* The memberships as t's own transaction sees them.
View(t) ==
  [p \in Orgs \X Users |->
     IF p = <<edit[t].org, edit[t].user>> THEN edit[t].role ELSE memberships[p]]

ReadMemberships(t) ==
  /\ InBody(t) /\ Alive(t)
  /\ IF MembershipRaises(Setting(t))
     THEN Fail(t, 500) /\ UNCHANGED seen
     ELSE /\ seen' = [seen EXCEPT ![t] = @ \cup
                {<<"memberships", p[1]>> :
                   p \in {x \in Pairs(View(t)) :
                            MembershipUsing(Setting(t), x[1], x[2])}}]
          /\ UNCHANGED <<step, reply>>
  /\ UNCHANGED <<ask, session, role, draft, edit, poolVars, dbVars, failovers>>

\* INSERT into a tenant table evaluates WITH CHECK alone.
InsertRow(t, o, i) ==
  LET row == [org |-> o, by |-> t, item |-> i] IN
  /\ InBody(t) /\ Alive(t)
  /\ \A r \in draft[t] : r.item # i
  /\ IF TenantCheck(Setting(t), o)
     THEN /\ draft' = [draft EXCEPT ![t] = @ \cup {row}]
          /\ UNCHANGED <<step, reply>>
     ELSE Fail(t, 500) /\ UNCHANGED draft
  /\ UNCHANGED <<ask, session, role, seen, edit, poolVars, dbVars, failovers>>

\* An uncommitted change of one membership row excludes any other.
RowLocked(p) ==
  \E t \in Tasks : /\ p = <<edit[t].org, edit[t].user>>
                   /\ Alive(t)

(***************************************************************************)
(* INSERT, UPDATE of the role, or DELETE (x = NoRole) of one membership.   *)
(* UPDATE and DELETE reach only the rows USING grants and leave the others *)
(* alone; INSERT and UPDATE must pass WITH CHECK.  One edit per session.   *)
(***************************************************************************)
EditMembership(t, p, x) ==
  LET exists == memberships[p] # NoRole
      raises == exists /\ MembershipRaises(Setting(t))
      hit    == exists => MembershipUsing(Setting(t), p[1], p[2])
      passes == x # NoRole => MembershipCheck(Setting(t), p[1], p[2])
  IN
  /\ InBody(t) /\ Alive(t)
  /\ edit[t] = NoEdit /\ ~RowLocked(p)
  /\ x # memberships[p]
  /\ IF raises \/ (hit /\ ~passes)
     THEN Fail(t, 500) /\ UNCHANGED edit
     ELSE /\ hit
          /\ edit' = [edit EXCEPT ![t] = [org |-> p[1], user |-> p[2], role |-> x]]
          /\ UNCHANGED <<step, reply>>
  /\ UNCHANGED <<ask, session, role, seen, draft, poolVars, dbVars, failovers>>

Return(t) ==
  /\ InBody(t)
  /\ step' = [step EXCEPT ![t] = "commit"]
  /\ UNCHANGED <<ask, session, role, reply, workVars, poolVars, dbVars, failovers>>

\* The body raises: an error of the application (a 4xx) or any other.
Raise(t) ==
  /\ InBody(t)
  /\ \E status \in {422, 500} : Fail(t, status)
  /\ UNCHANGED <<ask, session, role, workVars, poolVars, dbVars, failovers>>

\* readyz: SELECT 1, then the session is closed, which rolls back.
Ping(t) ==
  /\ session[t] = "probe" /\ step[t] = "body"
  /\ Alive(t)
  /\ Fail(t, 200)
  /\ UNCHANGED <<ask, session, role, workVars, poolVars, dbVars, failovers>>

\* A statement, or the COMMIT, meets a connection whose server is gone.
ConnectionLost(t) ==
  /\ step[t] \in Holding \ {"authorise", "rollback"}
  /\ ~Alive(t)
  /\ Fail(t, Unavailable(t))
  /\ UNCHANGED <<ask, session, role, workVars, poolVars, dbVars, failovers>>

-----------------------------------------------------------------------------
(* Leaving *)

Publish(t) ==
  /\ rows' = rows \cup draft[t]
  /\ memberships' = View(t)
  /\ held' = held \cup Holdings(View(t))

(***************************************************************************)
(* The identity session commits, its connection goes back, and the request *)
(* is refused or goes on to get_db.  Every other commit ends the task.     *)
(***************************************************************************)
AfterIdentity(t) ==
  IF role[t] = NoRole
  THEN Finish(t, 403) /\ UNCHANGED session
  ELSE /\ session' = [session EXCEPT ![t] = "tenant"]
       /\ step' = [step EXCEPT ![t] = "checkout"]
       /\ UNCHANGED reply

Commit(t) ==
  /\ step[t] = "commit"
  /\ Alive(t)
  /\ Publish(t)
  /\ EndTransaction(t)
  /\ IF session[t] = "identity"
     THEN AfterIdentity(t)
     ELSE Finish(t, 200) /\ UNCHANGED session
  /\ UNCHANGED <<ask, role, seen, draft, failovers>>

\* The server commits and the connection is lost before it says so.
CommitUnacknowledged(t) ==
  /\ step[t] = "commit"
  /\ Alive(t)
  /\ failovers < MaxFailovers
  /\ failovers' = failovers + 1
  /\ dead' = dead \cup {conn[t]}
  /\ Publish(t)
  /\ Fail(t, 500)
  /\ UNCHANGED <<ask, session, role, workVars, conn, guc, open, idle>>

RollbackPublishes(t) ==
  /\ step[t] = "rollback"
  /\ Publish(t)
  /\ EndTransaction(t)
  /\ step' = [step EXCEPT ![t] = "done"]
  /\ UNCHANGED <<ask, session, role, reply, seen, draft, failovers>>

\* Mutant: a task that fails ends without giving its connection back.
RollbackWithoutCheckIn(t) ==
  /\ step[t] = "rollback"
  /\ step' = [step EXCEPT ![t] = "done"]
  /\ edit' = [edit EXCEPT ![t] = NoEdit]
  /\ UNCHANGED <<ask, session, role, reply, seen, draft, poolVars, dbVars,
                 failovers>>

Rollback(t) ==
  /\ step[t] = "rollback"
  /\ EndTransaction(t)
  /\ step' = [step EXCEPT ![t] = "done"]
  /\ UNCHANGED <<ask, session, role, reply, seen, draft, dbVars, failovers>>

\* Every established connection loses its server (failover, rolling deploy).
Failover ==
  /\ failovers < MaxFailovers
  /\ open # {}
  /\ failovers' = failovers + 1
  /\ dead' = open
  /\ UNCHANGED <<taskVars, workVars, conn, guc, open, idle, dbVars>>

Terminated ==
  /\ \A t \in Tasks : step[t] = "done"
  /\ UNCHANGED vars

-----------------------------------------------------------------------------
CheckOut(t) == Reuse(t) \/ Refresh(t) \/ Connect(t)

\* What a task does in a session of its own accord; FinishBody ends the body.
Bind(t) == BindOrg(t) \/ BindUser(t) \/ RequireRole(t)

FinishBody(t) == Return(t) \/ Raise(t) \/ Lookup(t) \/ Ping(t) \/ ConnectionLost(t)

Leave(t) == Commit(t) \/ Rollback(t)

Work(t) ==
  \/ ReadTenantRows(t)
  \/ ReadMemberships(t)
  \/ \E o \in Orgs, i \in Items : InsertRow(t, o, i)
  \/ \E p \in Orgs \X Users, x \in Offered : EditMembership(t, p, x)

Step(t) ==
  \/ \E a \in Asks : Arrive(t, a)
  \/ CheckOut(t)
  \/ PoolTimeout(t)
  \/ ConnectFails(t)
  \/ Bind(t)
  \/ Work(t)
  \/ FinishBody(t)
  \/ Leave(t)
  \/ CommitUnacknowledged(t)

Next ==
  \/ \E t \in Tasks : Step(t)
  \/ Failover
  \/ Terminated

Spec == Init /\ [][Next]_vars

(***************************************************************************)
(* The event loop resumes every task whose statement has answered, and a   *)
(* body is assumed to end.  Neither the pool's timeout nor a refused       *)
(* connection is assumed to happen: progress may not depend on them.       *)
(***************************************************************************)
Fairness ==
  \A t \in Tasks : /\ WF_vars(CheckOut(t))
                   /\ WF_vars(Bind(t))
                   /\ WF_vars(FinishBody(t))
                   /\ WF_vars(Leave(t))

FairSpec == Spec /\ Fairness

-----------------------------------------------------------------------------
(* Properties *)

\* Every variable stays in its domain.
TypeOK ==
  /\ ask \in [Tasks -> AskType]
  /\ session \in [Tasks -> {"none", "identity", "tenant", "unscoped", "probe"}]
  /\ step \in [Tasks -> Holding \cup {"start", "checkout", "done"}]
  /\ conn \in [Tasks -> Conns \cup {NoConn}]
  /\ role \in [Tasks -> Roles \cup {NoRole}]
  /\ reply \in [Tasks -> Replies]
  /\ seen \in [Tasks -> SUBSET SeenType]
  /\ draft \in [Tasks -> SUBSET RowType]
  /\ edit \in [Tasks -> EditType]
  /\ guc \in [Conns -> Settings]
  /\ open \subseteq Conns /\ idle \subseteq Conns /\ dead \subseteq Conns
  /\ memberships \in Memberships
  /\ held \subseteq HeldType
  /\ rows \subseteq RowType
  /\ failovers \in 0..MaxFailovers

\* Each open connection is idle in the pool or held by one task.
Accounted ==
  /\ idle \subseteq open /\ dead \subseteq open
  /\ open \ idle = {conn[t] : t \in Tasks} \ {NoConn}
  /\ \A t1, t2 \in Tasks : conn[t1] = conn[t2] => t1 = t2 \/ conn[t1] = NoConn
  /\ Cardinality(idle) <= PoolSize

(***************************************************************************)
(* No session constructor leaks its connection, whichever way the session  *)
(* ends: the pool accounts for every connection, keeps no more than        *)
(* PoolSize idle, and a task holds one exactly during the steps of a       *)
(* session, so none before it, none between the two of a request and none  *)
(* once it is done, whether it committed, failed or lost the server.       *)
(***************************************************************************)
PoolConsistent ==
  /\ Accounted
  /\ \A t \in Tasks : conn[t] # NoConn <=> step[t] \in Holding

(***************************************************************************)
(* No binding outlives its transaction (session.py: "it cannot leak to the *)
(* next user of the pooled connection"): an identifier in a setting is     *)
(* always that of the task which holds the connection, an org is bound in  *)
(* tenant sessions alone and a user in identity and tenant sessions alone. *)
(***************************************************************************)
NoBindingLeaks ==
  \A c \in Conns :
    /\ guc[c].org \in Orgs =>
         \E t \in Tasks : /\ conn[t] = c /\ session[t] = "tenant"
                          /\ guc[c].org = ask[t].org
    /\ guc[c].user \in Users =>
         \E t \in Tasks : /\ conn[t] = c /\ session[t] \in {"identity", "tenant"}
                          /\ guc[c].user = ask[t].user

(***************************************************************************)
(* tenancy.py's order, membership before binding: a request in a tenant    *)
(* session carries a role that was once committed for that user in that    *)
(* org, and has written only if that role met the one its route requires.  *)
(***************************************************************************)
Authorised(t) ==
  /\ role[t] # NoRole
  /\ <<ask[t].org, ask[t].user, role[t]>> \in held

RequestsAreMembers ==
  \A t \in Tasks : ask[t].kind = "request" =>
    /\ session[t] = "tenant" => Authorised(t)
    /\ draft[t] # {} \/ seen[t] # {} => RoleRank[role[t]] >= RoleRank[ask[t].need]

(***************************************************************************)
(* A request is told 403 only if the membership it lacks was missing, or   *)
(* too low, at some moment of its life: a member is never turned away      *)
(* because the lookup ran with nothing bound (session.py on the lookup     *)
(* that once used unscoped_session).                                       *)
(***************************************************************************)
RefusalsAreTrue ==
  \A t \in Tasks :
    ask[t].kind = "request" /\ reply[t] = 403 =>
      \E x \in Roles \cup {NoRole} :
        /\ <<ask[t].org, ask[t].user, x>> \in held
        /\ x = NoRole \/ RoleRank[x] < RoleRank[ask[t].need]

(***************************************************************************)
(* Tenant rows are seen in a tenant session of their own org and nowhere   *)
(* else: an unscoped or an identity session returns none of them.          *)
(***************************************************************************)
OnlyOwnTenantRows ==
  \A t \in Tasks, o \in Orgs : <<"tenant", o>> \in seen[t] =>
    session[t] = "tenant" /\ o = ask[t].org

\* A committed row belongs to the org its author was let into.
RowsStayInOrg ==
  \A r \in rows : session[r.by] = "tenant" /\ r.org = ask[r.by].org

(***************************************************************************)
(* One transaction per request: what a task wrote is committed as a whole  *)
(* or not at all (the work and its cost record, invariant 8), a success is *)
(* reported only for committed work, an application error only when        *)
(* nothing was committed.  A 500 leaves either possible.                   *)
(***************************************************************************)
Written(t) == {r \in rows : r.by = t}

AllOrNothing ==
  \A t \in Tasks :
    /\ Written(t) \in {{}, draft[t]}
    /\ step[t] = "done" /\ reply[t] = 200 => Written(t) = draft[t]
    /\ reply[t] \in {401, 403, 422, 503} => Written(t) = {}

(***************************************************************************)
(* A membership changes only by the commit of a tenant session, and either *)
(* belongs to the bound org or is one of the bound user's own being        *)
(* removed: nobody grants a role in an org it is not bound to.             *)
(***************************************************************************)
InScope(t, p, x) ==
  /\ session[t] = "tenant" /\ step[t] = "commit"
  /\ p[1] = ask[t].org \/ (p[2] = ask[t].user /\ x = NoRole)

MembershipsScoped ==
  [][\A p \in Orgs \X Users : memberships'[p] # memberships[p] =>
       \E t \in Tasks : InScope(t, p, memberships'[p])]_vars

(***************************************************************************)
(* Every task that arrives is answered, with no help from a timeout: a     *)
(* request gives its identity connection back before it waits for another, *)
(* so tasks cannot wait for each other at an exhausted pool.               *)
(***************************************************************************)
Served == \A t \in Tasks : step[t] # "start" ~> step[t] = "done"

(***************************************************************************)
(* db/policies/README.md: current_setting "returns NULL when unset", so an *)
(* unbound session "sees zero rows on every tenant table".  No statement   *)
(* of a session without an org binding fails instead.                      *)
(***************************************************************************)
UnboundReadsEmpty ==
  \A t \in Tasks :
    session[t] \in {"identity", "unscoped"} /\ step[t] = "body" /\ Alive(t)
      => ~MembershipRaises(Setting(t))

-----------------------------------------------------------------------------
(* The promise, and how this module keeps it *)

Access(t) ==
  IF step[t] \in {"rollback", "done"} THEN [phase |-> "over"]
  ELSE IF session[t] = "tenant" \/ role[t] # NoRole
  THEN [phase |-> "inside", org |-> ask[t].org, user |-> ask[t].user,
        role |-> role[t]]
  ELSE [phase |-> "outside"]

Isolation == INSTANCE TenantIsolation WITH
  NoUser    <- Unset,
  access    <- [t \in Tasks |-> Access(t)],
  members   <- memberships,
  observed  <- [t \in Tasks |-> {o \in Orgs : <<"tenant", o>> \in seen[t]}],
  published <- rows

\* Sessions, pool and policies together keep the promise of TenantIsolation.
KeepsIsolation == Isolation!ASpec
=============================================================================
