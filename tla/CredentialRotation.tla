------------------------- MODULE CredentialRotation -------------------------
(***************************************************************************)
(* Stored credentials while the KEK is rotated.                            *)
(*                                                                         *)
(* Each process holds the KEK of the environment it started with and seals *)
(* reconnected credentials with it.  Operator jobs rewrap the rows of      *)
(* older generations one by one, reading and writing a row in two steps.   *)
(* The code has the operations and no caller of them yet: the calls come   *)
(* here from the most general caller that its docstrings allow.            *)
(***************************************************************************)
EXTENDS CredentialEnvelope, StartupSettings, FiniteSets

CONSTANTS
  IdOf,      \* the generation of each KEK
  Job,       \* rotation jobs
  MaxFaults  \* bound on rows restored in the wrong place and jobs that die

VARIABLES
  row,      \* the credentials table
  issued,   \* the plaintexts each credential was ever sealed with
  job,      \* what each job has read and is about to write
  retired,  \* KEKs that were destroyed
  faults

vars == <<startupVars, row, issued, job, retired, faults>>
storeVars == <<row, issued, job, retired, faults>>

ASSUME RotationAssumption ==
  /\ IdOf \in [Kek -> KekId]
  /\ \A k1, k2 \in Kek : IdOf[k1] = IdOf[k2] => k1 = k2
  /\ \A e \in Environments : e.KEK_BASE64 \in Kek \cup {Absent}
  /\ MaxFaults \in Nat

NoRow == [kek_id |-> "none"]
Idle == [at |-> "idle"]

KekNamed(id) == {k \in Kek \ retired : IdOf[k] = id}

RotationInit ==
  /\ Init
  /\ row = [c \in Cred |-> NoRow]
  /\ issued = [c \in Cred |-> {}]
  /\ job = [j \in Job |-> Idle]
  /\ retired = {} /\ faults = 0

\* Plaintexts are numbered as they come; none comes twice.
NextSecret == Cardinality(UNION {issued[c] : c \in Cred}) + 1

\* A process stores a credential that a customer connected or reconnected.
Connect(p, c, plaintext) ==
  LET kek == GetSettings(p).KEK_BASE64 IN
  /\ phase[p] = "serving"
  /\ plaintext \in {NextSecret, Empty}
  /\ \E sealed \in Seal(plaintext, kek, IdOf[kek], c, plaintext) :
       row' = [row EXCEPT ![c] = ToColumns(sealed)]
  /\ issued' = [issued EXCEPT ![c] = @ \cup {plaintext}]
  /\ UNCHANGED <<startupVars, job, retired, faults>>

\* A job reads a row of another generation and rewraps it for the KEK that is
\* deployed now, with the key its kek_id names.
Fetch(j, c) ==
  /\ job[j] = Idle /\ row[c] # NoRow
  /\ env.KEK_BASE64 \in Kek /\ row[c].kek_id # IdOf[env.KEK_BASE64]
  /\ \E old \in KekNamed(row[c].kek_id) :
     \E new \in Rewrap(FromColumns(row[c]), old, env.KEK_BASE64,
                       IdOf[env.KEK_BASE64]) :
       job' = [job EXCEPT ![j] =
                 [at |-> "write", cred |-> c, read |-> row[c], new |-> ToColumns(new)]]
  /\ UNCHANGED <<startupVars, row, issued, retired, faults>>

\* It writes the row back unless the row was changed since.
Write(j) ==
  /\ job[j] # Idle
  /\ IF row[job[j].cred] = job[j].read
     THEN row' = [row EXCEPT ![job[j].cred] = job[j].new]
     ELSE UNCHANGED row
  /\ job' = [job EXCEPT ![j] = Idle]
  /\ UNCHANGED <<startupVars, issued, retired, faults>>

JobDies(j) ==
  /\ job[j] # Idle /\ faults < MaxFaults
  /\ job' = [job EXCEPT ![j] = Idle] /\ faults' = faults + 1
  /\ UNCHANGED <<startupVars, row, issued, retired>>

\* A row ends up in the place of another tenant's or provider's.
Misplace(c, d) ==
  /\ row[c] # NoRow /\ row[d] # row[c] /\ faults < MaxFaults
  /\ row' = [row EXCEPT ![d] = row[c]] /\ faults' = faults + 1
  /\ UNCHANGED <<startupVars, issued, job, retired>>

\* What an operator must see before a KEK may be destroyed.
Unused(k) ==
  /\ env.KEK_BASE64 # k
  /\ \A p \in Process : snap[p] # NotLoaded => snap[p].KEK_BASE64 # k
  /\ \A c \in Cred : row[c].kek_id # IdOf[k]
  /\ \A j \in Job : job[j] # Idle => job[j].new.kek_id # IdOf[k]

\* It is not deployed again (see Deploy).
Retire(k) ==
  /\ k \notin retired /\ Unused(k)
  /\ retired' = retired \cup {k}
  /\ UNCHANGED <<startupVars, row, issued, job, faults>>

Deploy(e) ==
  /\ e.KEK_BASE64 \notin retired
  /\ SetEnv(e)
  /\ UNCHANGED storeVars

RotationNext ==
  \/ \E e \in Environments : Deploy(e)
  \/ \E p \in Process : (Load(p) \/ Start(p) \/ Restart(p)) /\ UNCHANGED storeVars
  \/ \E p \in Process, c \in Cred, m \in Secret \cup {Empty} : Connect(p, c, m)
  \/ \E j \in Job : (\E c \in Cred : Fetch(j, c)) \/ Write(j) \/ JobDies(j)
  \/ \E c, d \in Cred : Misplace(c, d)
  \/ \E k \in Kek : Retire(k)

\* The operator restarts what runs on an old environment and keeps the jobs
\* running until there is nothing to rotate.
Fairness ==
  /\ \A p \in Process : WF_vars(Restart(p) /\ UNCHANGED storeVars)
  /\ \A j \in Job : WF_vars((\E c \in Cred : Fetch(j, c)) \/ Write(j))

Spec == RotationInit /\ [][RotationNext]_vars /\ Fairness

-----------------------------------------------------------------------------
(* Properties *)

JobType == {Idle} \cup
  [at : {"write"}, cred : Cred, read : Columns, new : Columns]

TypeOK ==
  /\ StartupTypeOK
  /\ row \in [Cred -> Columns \cup {NoRow}]
  /\ issued \in [Cred -> SUBSET Secret]
  /\ job \in [Job -> JobType]
  /\ retired \subseteq Kek
  /\ faults \in 0..MaxFaults

Stored == {c \in Cred : row[c] # NoRow}
Opened(c, kek) == OpenSealed(FromColumns(row[c]), kek, c)

\* "a ciphertext moved to a different tenant's row fails to open": whatever was
\* misplaced, reconnected or rewrapped in between, what opens as a credential
\* was once sealed as that credential.
OwnSecretOnly ==
  \A c \in Stored, k \in Kek : Opened(c, k) \subseteq issued[c]

\* Rotation never costs a credential: while KEKs are destroyed only when nothing
\* names or holds them, the KEK that a row names is still there and unwraps it.
NothingStranded ==
  \A c \in Stored :
    \E k \in KekNamed(row[c].kek_id) : UnwrapDek(FromColumns(row[c]), k) # {}

\* A process fails to open a row that is in its place only while the KEK it
\* holds and the row are of different generations.
SameGenerationOpens ==
  \A p \in Process, c \in Stored :
    /\ phase[p] = "serving" /\ row[c].kek_id = IdOf[snap[p].KEK_BASE64]
    /\ B64Decode(row[c].ciphertext).aad = c
    => Opened(c, snap[p].KEK_BASE64) # {}

\* When an environment with a usable KEK stays, every row gets to its
\* generation, although processes with the KEK before it may still reconnect
\* credentials.
RotationCompletes ==
  \A k \in Kek \ Malformed :
    <>[](env.KEK_BASE64 = k) =>
      <>[](\A c \in Stored : row[c].kek_id = IdOf[k])
=============================================================================
