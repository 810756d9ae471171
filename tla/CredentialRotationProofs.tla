---------------------- MODULE CredentialRotationProofs ----------------------
(***************************************************************************)
(* The safety of CredentialRotation for every number of processes, jobs,   *)
(* credentials and KEKs, every environment and every bound.                *)
(***************************************************************************)
EXTENDS CredentialRotation, ScanLemmas

-----------------------------------------------------------------------------
(* The inductive invariant *)

\* A process that is up holds settings that loaded.
Loaded ==
  \A p \in Process : phase[p] # "down" => snap[p] \in Environments /\ Valid(snap[p])

\* A KEK that is deployed or held by a process is not destroyed.
InUse ==
  /\ env.KEK_BASE64 \notin retired
  /\ \A p \in Process : phase[p] # "down" => snap[p].KEK_BASE64 \notin retired

\* An envelope is what Seal or Rewrap made: its DEK is wrapped under the KEK
\* that its kek_id names, bound to that id, and is the key of its ciphertext,
\* which holds a plaintext of the credential it is bound to.
Genuine(columns, secrets, gone) ==
  LET wrapped == B64Decode(columns.wrapped_dek)
      box == B64Decode(columns.ciphertext)
  IN /\ wrapped.aad = columns.kek_id
     /\ wrapped.key \in Kek \ (Malformed \cup gone)
     /\ IdOf[wrapped.key] = columns.kek_id
     /\ wrapped.body = box.key
     /\ box.body \in secrets[box.aad]

AllGenuine ==
  /\ \A c \in Cred : row[c] # NoRow => Genuine(row[c], issued, retired)
  /\ \A j \in Job : job[j] # Idle => Genuine(job[j].new, issued, retired)

IInv == TypeOK /\ Loaded /\ InUse /\ AllGenuine

-----------------------------------------------------------------------------
(* Lemmas about the envelope *)

\* What Base64 writes, B64Decode reads.
LEMMA RoundTrip == \A bytes : B64Decode(Base64(bytes)) = bytes
BY DEF B64Decode, Base64

\* The settings a process loaded have a KEK.
LEMMA KekOfSettings ==
  ASSUME NEW s \in Environments, Valid(s)
  PROVE  s.KEK_BASE64 \in Kek
BY RotationAssumption DEF RotationAssumption, Valid, Required

\* A sealed row is well typed and genuine.
LEMMA SealedColumns ==
  ASSUME NEW kek \in Kek, NEW c \in Cred, NEW m \in Secret,
         NEW sealed \in Seal(m, kek, IdOf[kek], c, m)
  PROVE  /\ ToColumns(sealed) \in Columns
         /\ kek \notin Malformed
         /\ ToColumns(sealed).kek_id = IdOf[kek]
         /\ B64Decode(ToColumns(sealed).wrapped_dek) = Encrypt(kek, m, IdOf[kek])
         /\ B64Decode(ToColumns(sealed).ciphertext) = Encrypt(m, m, c)
<1>1. /\ sealed = [version |-> VERSION, kek_id |-> IdOf[kek],
                   wrapped_dek |-> Encrypt(kek, m, IdOf[kek]),
                   ciphertext |-> Encrypt(m, m, c)]
      /\ kek \notin Malformed
  BY DEF Seal, LoadKek
<1>2. IdOf[kek] \in KekId
  BY RotationAssumption DEF RotationAssumption
<1>3. /\ Encrypt(kek, m, IdOf[kek]) \in Wrapped
      /\ Encrypt(m, m, c) \in Ciphertext
  BY <1>2 DEF Encrypt, Wrapped, Ciphertext
<1>4. ToColumns(sealed) =
        [envelope_version |-> VERSION, kek_id |-> IdOf[kek],
         wrapped_dek |-> Base64(Encrypt(kek, m, IdOf[kek])),
         ciphertext |-> Base64(Encrypt(m, m, c))]
  BY <1>1 DEF ToColumns
<1> QED
  BY <1>1, <1>2, <1>3, <1>4, RoundTrip DEF Columns, Text

\* Rewrapping moves the DEK of a genuine row to the new KEK and leaves the
\* ciphertext as it was.
LEMMA RewrappedColumns ==
  ASSUME NEW columns \in Columns, NEW old \in Kek, NEW kek \in Kek,
         NEW new \in Rewrap(FromColumns(columns), old, kek, IdOf[kek])
  PROVE  /\ ToColumns(new) \in Columns
         /\ kek \notin Malformed
         /\ ToColumns(new).kek_id = IdOf[kek]
         /\ ToColumns(new).ciphertext = columns.ciphertext
         /\ B64Decode(ToColumns(new).wrapped_dek) =
              Encrypt(kek, B64Decode(columns.wrapped_dek).body, IdOf[kek])
<1>1. PICK w \in Wrapped : columns.wrapped_dek = Base64(w)
  BY DEF Columns, Text
<1>2. PICK x \in Ciphertext : columns.ciphertext = Base64(x)
  BY DEF Columns, Text
<1> DEFINE sealed == [version |-> VERSION, kek_id |-> columns.kek_id,
                      wrapped_dek |-> w, ciphertext |-> x]
<1>3. FromColumns(columns) = sealed
  BY <1>1, <1>2, RoundTrip DEF FromColumns, Columns, VERSION
<1>4. \A d \in UnwrapDek(sealed, old) : d = w.body
  BY DEF UnwrapDek, Decrypt
<1>5. PICK key \in LoadKek(kek), d \in UnwrapDek(sealed, old) :
        new = [version |-> VERSION, kek_id |-> IdOf[kek],
               wrapped_dek |-> Encrypt(key, d, IdOf[kek]), ciphertext |-> x]
  <2>1. new \in Rewrap(sealed, old, kek, IdOf[kek])
    BY <1>3
  <2> QED
    BY <2>1 DEF Rewrap
<1>6. key = kek /\ kek \notin Malformed
  BY <1>5 DEF LoadKek
<1>7. d = w.body
  BY <1>4, <1>5
<1>8. new = [version |-> VERSION, kek_id |-> IdOf[kek],
             wrapped_dek |-> Encrypt(kek, w.body, IdOf[kek]), ciphertext |-> x]
  BY <1>5, <1>6, <1>7
<1>9. IdOf[kek] \in KekId
  BY RotationAssumption DEF RotationAssumption
<1>10. Encrypt(kek, w.body, IdOf[kek]) \in Wrapped
  BY <1>9 DEF Encrypt, Wrapped
<1>11. ToColumns(new) =
        [envelope_version |-> VERSION, kek_id |-> IdOf[kek],
         wrapped_dek |-> Base64(Encrypt(kek, w.body, IdOf[kek])),
         ciphertext |-> Base64(x)]
  BY <1>8 DEF ToColumns
<1> QED
  BY <1>1, <1>2, <1>6, <1>9, <1>10, <1>11, RoundTrip DEF Columns, Text

-----------------------------------------------------------------------------
(* Init, and one lemma per action *)

LEMMA InitHolds == RotationInit => IInv
<1> SUFFICES ASSUME RotationInit PROVE IInv
  OBVIOUS
<1>1. TypeOK
  BY StartupAssumption, RotationAssumption
  DEF StartupAssumption, RotationAssumption, RotationInit, Init, TypeOK, StartupTypeOK, JobType
<1>2. Loaded /\ InUse /\ AllGenuine
  BY DEF RotationInit, Init, Loaded, InUse, AllGenuine
<1> QED
  BY <1>1, <1>2 DEF IInv

\* Steps that leave the table and the jobs alone, and what is issued and retired.
LEMMA StartupStep ==
  ASSUME IInv, UNCHANGED storeVars, StartupTypeOK', Loaded', InUse'
  PROVE  IInv'
<1>1. TypeOK'
  BY DEF IInv, TypeOK, storeVars
<1>2. AllGenuine'
  BY DEF IInv, AllGenuine, Genuine, storeVars
<1> QED
  BY <1>1, <1>2 DEF IInv

LEMMA DeployHolds ==
  ASSUME IInv, NEW e \in Environments, Deploy(e)
  PROVE  IInv'
<1>1. /\ UNCHANGED storeVars
      /\ UNCHANGED <<phase, snap>>
      /\ env' = e /\ e.KEK_BASE64 \notin retired
  BY DEF Deploy, SetEnv
<1>2. StartupTypeOK'
  BY <1>1, StartupAssumption
  DEF StartupAssumption, Deploy, SetEnv, IInv, TypeOK, StartupTypeOK
<1>3. Loaded' /\ InUse'
  BY <1>1 DEF IInv, Loaded, InUse, storeVars
<1> QED
  BY <1>1, <1>2, <1>3, StartupStep

LEMMA ProcessHolds ==
  ASSUME IInv, NEW p \in Process, Load(p) \/ Start(p) \/ Restart(p), UNCHANGED storeVars
  PROVE  IInv'
<1>1. CASE Load(p)
  <2>1. StartupTypeOK'
    BY <1>1 DEF Load, IInv, TypeOK, StartupTypeOK
  <2>2. Loaded' /\ InUse'
    BY <1>1 DEF Load, IInv, TypeOK, StartupTypeOK, Loaded, InUse, storeVars
  <2> QED
    BY <2>1, <2>2, StartupStep
<1>2. CASE Start(p)
  <2>1. StartupTypeOK'
    BY <1>2 DEF Start, IInv, TypeOK, StartupTypeOK
  <2>2. Loaded' /\ InUse'
    BY <1>2 DEF Start, IInv, TypeOK, StartupTypeOK, Loaded, InUse, storeVars
  <2> QED
    BY <2>1, <2>2, StartupStep
<1>3. CASE Restart(p)
  <2>1. StartupTypeOK'
    BY <1>3 DEF Restart, IInv, TypeOK, StartupTypeOK
  <2>2. Loaded' /\ InUse'
    BY <1>3 DEF Restart, IInv, TypeOK, StartupTypeOK, Loaded, InUse, storeVars
  <2> QED
    BY <2>1, <2>2, StartupStep
<1> QED
  BY <1>1, <1>2, <1>3

\* Steps of the table and the jobs.
LEMMA StoreStep ==
  ASSUME IInv, UNCHANGED <<startupVars, retired>>,
         row' \in [Cred -> Columns \cup {NoRow}], issued' \in [Cred -> SUBSET Secret],
         job' \in [Job -> JobType], faults' \in 0..MaxFaults, AllGenuine'
  PROVE  IInv'
<1>1. TypeOK'
  BY DEF IInv, TypeOK, StartupTypeOK, startupVars
<1>2. Loaded' /\ InUse'
  BY DEF IInv, Loaded, InUse, startupVars
<1> QED
  BY <1>1, <1>2 DEF IInv

\* What was genuine is, when no plaintext is forgotten and the KEK of the row
\* is not destroyed.
LEMMA GenuineStays ==
  ASSUME NEW secrets, NEW more, NEW gone, NEW goneThen, NEW x \in Columns,
         \A c \in Cred : secrets[c] \subseteq more[c],
         Genuine(x, secrets, gone), B64Decode(x.wrapped_dek).key \notin goneThen
  PROVE  Genuine(x, more, goneThen)
<1>1. PICK box \in Ciphertext : x.ciphertext = Base64(box)
  BY DEF Columns, Text
<1>2. B64Decode(x.ciphertext) = box
  BY <1>1, RoundTrip
<1>3. box.aad \in Cred /\ box.body \in secrets[box.aad]
  BY <1>2 DEF Genuine, Ciphertext
<1>4. box.body \in more[box.aad]
  BY <1>3
<1> QED
  BY <1>2, <1>4 DEF Genuine

LEMMA ConnectHolds ==
  ASSUME IInv, NEW p \in Process, NEW c \in Cred, NEW m \in Secret \cup {Empty},
         Connect(p, c, m)
  PROVE  IInv'
<1> DEFINE kek == snap[p].KEK_BASE64
<1>1. PICK sealed \in Seal(m, kek, IdOf[kek], c, m) :
        row' = [row EXCEPT ![c] = ToColumns(sealed)]
  BY DEF Connect, GetSettings
<1>2. m \in Secret
  BY <1>1 DEF Seal
<1>3. kek \in Kek /\ kek \notin retired
  BY KekOfSettings DEF Connect, IInv, Loaded, InUse
<1> DEFINE new == ToColumns(sealed)
<1>4. /\ new \in Columns /\ kek \notin Malformed /\ new.kek_id = IdOf[kek]
      /\ B64Decode(new.wrapped_dek) = Encrypt(kek, m, IdOf[kek])
      /\ B64Decode(new.ciphertext) = Encrypt(m, m, c)
  BY <1>1, <1>2, <1>3, SealedColumns
<1>5. /\ row \in [Cred -> Columns \cup {NoRow}] /\ issued \in [Cred -> SUBSET Secret]
      /\ job \in [Job -> JobType] /\ faults \in 0..MaxFaults
  BY DEF IInv, TypeOK
<1>6. /\ issued' = [issued EXCEPT ![c] = @ \cup {m}]
      /\ UNCHANGED <<startupVars, job, retired, faults>>
  BY DEF Connect
<1>7. /\ row' \in [Cred -> Columns \cup {NoRow}] /\ issued' \in [Cred -> SUBSET Secret]
  <2> HIDE DEF new
  <2> QED BY <1>1, <1>2, <1>4, <1>5, <1>6 DEF new
<1>8. Genuine(new, issued', retired)
  <2>1. m \in issued'[c]
    BY <1>5, <1>6
  <2>2. Encrypt(kek, m, IdOf[kek]) = [key |-> kek, body |-> m, aad |-> IdOf[kek]]
        /\ Encrypt(m, m, c) = [key |-> m, body |-> m, aad |-> c]
    BY DEF Encrypt
  <2> HIDE DEF new, kek
  <2> QED
    BY <1>3, <1>4, <2>1, <2>2 DEF Genuine
<1>9. \A d \in Cred : issued[d] \subseteq issued'[d]
  BY <1>5, <1>6
<1>10. ASSUME NEW x \in Columns, Genuine(x, issued, retired)
       PROVE  Genuine(x, issued', retired)
  BY <1>9, <1>10, GenuineStays DEF Genuine
<1>11. ASSUME NEW d \in Cred, row'[d] # NoRow
       PROVE  Genuine(row'[d], issued', retired)
  <2>1. CASE d = c
    BY <1>1, <1>5, <1>8, <2>1
  <2>2. CASE d # c
    <3>1. row'[d] = row[d] /\ row[d] \in Columns /\ Genuine(row[d], issued, retired)
      BY <1>1, <1>5, <1>11, <2>2 DEF IInv, AllGenuine
    <3> QED
      BY <1>10, <3>1
  <2> QED
    BY <2>1, <2>2
<1>12. ASSUME NEW j \in Job, job'[j] # Idle
       PROVE  Genuine(job'[j].new, issued', retired)
  <2>1. job'[j] = job[j] /\ job[j].new \in Columns
        /\ Genuine(job[j].new, issued, retired)
    BY <1>5, <1>6, <1>12 DEF IInv, AllGenuine, JobType
  <2> QED
    BY <1>10, <2>1
<1>13. AllGenuine'
  BY <1>6, <1>11, <1>12 DEF AllGenuine
<1> QED
  BY <1>5, <1>6, <1>7, <1>13, StoreStep

LEMMA FetchHolds ==
  ASSUME IInv, NEW j \in Job, NEW c \in Cred, Fetch(j, c)
  PROVE  IInv'
<1> DEFINE kek == env.KEK_BASE64
<1>1. /\ row \in [Cred -> Columns \cup {NoRow}] /\ issued \in [Cred -> SUBSET Secret]
      /\ job \in [Job -> JobType] /\ faults \in 0..MaxFaults
  BY DEF IInv, TypeOK
<1>2. /\ row[c] \in Columns /\ kek \in Kek /\ kek \notin retired
      /\ Genuine(row[c], issued, retired)
  BY <1>1 DEF Fetch, IInv, InUse, AllGenuine
<1>3. PICK old \in KekNamed(row[c].kek_id) :
        \E new \in Rewrap(FromColumns(row[c]), old, kek, IdOf[kek]) :
           job' = [job EXCEPT ![j] =
                     [at |-> "write", cred |-> c, read |-> row[c], new |-> ToColumns(new)]]
  BY DEF Fetch
<1>4. PICK new \in Rewrap(FromColumns(row[c]), old, kek, IdOf[kek]) :
        job' = [job EXCEPT ![j] =
                  [at |-> "write", cred |-> c, read |-> row[c], new |-> ToColumns(new)]]
  BY <1>3
<1> DEFINE then == ToColumns(new)
<1>5. /\ then \in Columns /\ kek \notin Malformed /\ then.kek_id = IdOf[kek]
      /\ then.ciphertext = row[c].ciphertext
      /\ B64Decode(then.wrapped_dek) =
           Encrypt(kek, B64Decode(row[c].wrapped_dek).body, IdOf[kek])
  BY <1>2, RewrappedColumns DEF KekNamed
<1>6. Genuine(then, issued, retired)
  <2>1. Encrypt(kek, B64Decode(row[c].wrapped_dek).body, IdOf[kek]) =
          [key |-> kek, body |-> B64Decode(row[c].wrapped_dek).body, aad |-> IdOf[kek]]
    BY DEF Encrypt
  <2> HIDE DEF then, kek
  <2> QED
    BY <1>2, <1>5, <2>1 DEF Genuine
<1>7. UNCHANGED <<startupVars, row, issued, retired, faults>>
  BY DEF Fetch
<1>8. job' \in [Job -> JobType]
  <2> HIDE DEF then
  <2>1. [at |-> "write", cred |-> c, read |-> row[c], new |-> then] \in JobType
    BY <1>2, <1>5 DEF JobType
  <2> QED
    BY <1>1, <1>4, <2>1 DEF then
<1>9. ASSUME NEW i \in Job, job'[i] # Idle
      PROVE  Genuine(job'[i].new, issued, retired)
  <2> HIDE DEF then
  <2>1. CASE i = j
    BY <1>1, <1>4, <1>6, <2>1 DEF then
  <2>2. CASE i # j
    BY <1>1, <1>4, <1>9, <2>2 DEF IInv, AllGenuine
  <2> QED
    BY <2>1, <2>2
<1>10. AllGenuine'
  BY <1>7, <1>9 DEF IInv, AllGenuine
<1> QED
  BY <1>1, <1>7, <1>8, <1>10, StoreStep

LEMMA WriteHolds ==
  ASSUME IInv, NEW j \in Job, Write(j)
  PROVE  IInv'
<1>1. /\ row \in [Cred -> Columns \cup {NoRow}] /\ issued \in [Cred -> SUBSET Secret]
      /\ job \in [Job -> JobType] /\ faults \in 0..MaxFaults
  BY DEF IInv, TypeOK
<1>2. /\ job[j].cred \in Cred /\ job[j].new \in Columns
      /\ Genuine(job[j].new, issued, retired)
  BY <1>1 DEF Write, JobType, IInv, AllGenuine
<1>3. /\ row' = row \/ row' = [row EXCEPT ![job[j].cred] = job[j].new]
      /\ job' = [job EXCEPT ![j] = Idle]
      /\ UNCHANGED <<startupVars, issued, retired, faults>>
  BY DEF Write
<1>4. row' \in [Cred -> Columns \cup {NoRow}] /\ job' \in [Job -> JobType]
  BY <1>1, <1>2, <1>3 DEF JobType
<1>5. ASSUME NEW c \in Cred, row'[c] # NoRow PROVE Genuine(row'[c], issued, retired)
  BY <1>1, <1>2, <1>3, <1>5 DEF IInv, AllGenuine
<1>6. ASSUME NEW i \in Job, job'[i] # Idle PROVE Genuine(job'[i].new, issued, retired)
  BY <1>1, <1>3, <1>6 DEF IInv, AllGenuine
<1>7. AllGenuine'
  BY <1>3, <1>5, <1>6 DEF AllGenuine
<1> QED
  BY <1>1, <1>3, <1>4, <1>7, StoreStep

LEMMA JobDiesHolds ==
  ASSUME IInv, NEW j \in Job, JobDies(j)
  PROVE  IInv'
<1>1. /\ row \in [Cred -> Columns \cup {NoRow}] /\ issued \in [Cred -> SUBSET Secret]
      /\ job \in [Job -> JobType] /\ faults \in 0..MaxFaults
  BY DEF IInv, TypeOK
<1>2. /\ job' = [job EXCEPT ![j] = Idle] /\ faults < MaxFaults /\ faults' = faults + 1
      /\ UNCHANGED <<startupVars, row, issued, retired>>
  BY DEF JobDies
<1>3. job' \in [Job -> JobType] /\ faults' \in 0..MaxFaults
  BY <1>1, <1>2, RotationAssumption DEF JobType, RotationAssumption
<1>4. AllGenuine'
  BY <1>1, <1>2 DEF IInv, AllGenuine
<1> QED
  BY <1>1, <1>2, <1>3, <1>4, StoreStep

LEMMA MisplaceHolds ==
  ASSUME IInv, NEW c \in Cred, NEW d \in Cred, Misplace(c, d)
  PROVE  IInv'
<1>1. /\ row \in [Cred -> Columns \cup {NoRow}] /\ issued \in [Cred -> SUBSET Secret]
      /\ job \in [Job -> JobType] /\ faults \in 0..MaxFaults
  BY DEF IInv, TypeOK
<1>2. /\ row[c] # NoRow /\ row' = [row EXCEPT ![d] = row[c]]
      /\ faults < MaxFaults /\ faults' = faults + 1
      /\ UNCHANGED <<startupVars, issued, job, retired>>
  BY DEF Misplace
<1>3. row' \in [Cred -> Columns \cup {NoRow}] /\ faults' \in 0..MaxFaults
  BY <1>1, <1>2, RotationAssumption DEF RotationAssumption
<1>4. AllGenuine'
  BY <1>1, <1>2 DEF IInv, AllGenuine
<1> QED
  BY <1>1, <1>2, <1>3, <1>4, StoreStep

\* A KEK is destroyed only when nothing names or holds it: rows and jobs are
\* genuine, so their kek_id tells the KEK that wraps them.
LEMMA RetireHolds ==
  ASSUME IInv, NEW k \in Kek, Retire(k)
  PROVE  IInv'
<1>1. /\ Unused(k) /\ retired' = retired \cup {k}
      /\ UNCHANGED <<startupVars, row, issued, job, faults>>
  BY DEF Retire
<1>2. TypeOK'
  BY <1>1 DEF IInv, TypeOK, StartupTypeOK, startupVars
<1>3. Loaded'
  BY <1>1 DEF IInv, Loaded, startupVars
<1>4. InUse'
  BY <1>1, StartupAssumption DEF StartupAssumption, IInv, Loaded, InUse, Unused, startupVars
<1>5. ASSUME NEW x \in Columns, x.kek_id # IdOf[k], Genuine(x, issued, retired)
      PROVE  Genuine(x, issued, retired')
  <2>1. B64Decode(x.wrapped_dek).key # k
    BY <1>5 DEF Genuine
  <2> QED
    BY <1>1, <1>5, <2>1 DEF Genuine
<1>6. ASSUME NEW c \in Cred, row[c] # NoRow PROVE Genuine(row[c], issued, retired')
  <2>1. row[c] \in Columns /\ row[c].kek_id # IdOf[k] /\ Genuine(row[c], issued, retired)
    BY <1>1, <1>6 DEF IInv, TypeOK, AllGenuine, Unused
  <2> QED
    BY <1>5, <2>1
<1>7. ASSUME NEW j \in Job, job[j] # Idle PROVE Genuine(job[j].new, issued, retired')
  <2>1. /\ job[j].new \in Columns /\ job[j].new.kek_id # IdOf[k]
        /\ Genuine(job[j].new, issued, retired)
    BY <1>1, <1>7 DEF IInv, TypeOK, JobType, AllGenuine, Unused
  <2> QED
    BY <1>5, <2>1
<1>8. AllGenuine'
  BY <1>1, <1>6, <1>7 DEF AllGenuine
<1> QED
  BY <1>2, <1>3, <1>4, <1>8 DEF IInv

LEMMA NextHolds == IInv /\ [RotationNext]_vars => IInv'
<1> SUFFICES ASSUME IInv, [RotationNext]_vars PROVE IInv'
  OBVIOUS
<1>1. ASSUME NEW e \in Environments, Deploy(e) PROVE IInv'
  BY <1>1, DeployHolds
<1>2. ASSUME NEW p \in Process, Load(p) \/ Start(p) \/ Restart(p), UNCHANGED storeVars
      PROVE  IInv'
  BY <1>2, ProcessHolds
<1>3. ASSUME NEW p \in Process, NEW c \in Cred, NEW m \in Secret \cup {Empty},
             Connect(p, c, m)
      PROVE  IInv'
  BY <1>3, ConnectHolds
<1>4. ASSUME NEW j \in Job, (\E c \in Cred : Fetch(j, c)) \/ Write(j) \/ JobDies(j)
      PROVE  IInv'
  BY <1>4, FetchHolds, WriteHolds, JobDiesHolds
<1>5. ASSUME NEW c \in Cred, NEW d \in Cred, Misplace(c, d) PROVE IInv'
  BY <1>5, MisplaceHolds
<1>6. ASSUME NEW k \in Kek, Retire(k) PROVE IInv'
  BY <1>6, RetireHolds
<1>7. CASE UNCHANGED vars
  <2>1. UNCHANGED <<startupVars, row, issued, job, retired, faults>>
    BY <1>7 DEF vars
  <2>2. TypeOK' /\ Loaded' /\ InUse'
    BY <2>1 DEF IInv, TypeOK, StartupTypeOK, Loaded, InUse, startupVars
  <2>3. AllGenuine'
    BY <2>1 DEF IInv, AllGenuine
  <2> QED
    BY <2>2, <2>3 DEF IInv
<1> QED
  BY <1>1, <1>2, <1>3, <1>4, <1>5, <1>6, <1>7 DEF RotationNext

LEMMA Inductive == Spec => []IInv
<1> QED
  BY InitHolds, NextHolds, PTL DEF Spec

-----------------------------------------------------------------------------
(* What the invariant gives *)

\* What a row of genuine envelopes opens to was issued for the credential it
\* is opened as.
LEMMA IInvOwn == IInv => OwnSecretOnly
<1> SUFFICES ASSUME IInv, NEW c \in Stored, NEW k \in Kek, NEW m \in Opened(c, k)
             PROVE  m \in issued[c]
  BY DEF OwnSecretOnly
<1>1. row[c] \in Columns /\ Genuine(row[c], issued, retired)
  BY DEF Stored, IInv, TypeOK, AllGenuine
<1> DEFINE box == B64Decode(row[c].ciphertext)
<1>2. FromColumns(row[c]).ciphertext = box
  BY DEF FromColumns
<1>3. PICK dek : m \in Decrypt(dek, box, c)
  BY <1>2 DEF Opened, OpenSealed
<1>4. m = box.body /\ box.aad = c
  BY <1>3 DEF Decrypt
<1> QED
  BY <1>1, <1>4 DEF Genuine

\* The KEK that wraps a genuine row unwraps it.
LEMMA Unwraps ==
  ASSUME IInv, NEW c \in Stored
  PROVE  LET k == B64Decode(row[c].wrapped_dek).key
         IN /\ k \in KekNamed(row[c].kek_id)
            /\ UnwrapDek(FromColumns(row[c]), k) = {B64Decode(row[c].ciphertext).key}
<1>1. row[c] \in Columns /\ Genuine(row[c], issued, retired)
  BY DEF Stored, IInv, TypeOK, AllGenuine
<1> DEFINE w == B64Decode(row[c].wrapped_dek)
<1>2. /\ FromColumns(row[c]).wrapped_dek = w
      /\ FromColumns(row[c]).kek_id = row[c].kek_id
  BY DEF FromColumns
<1>3. LoadKek(w.key) = {w.key}
  BY <1>1 DEF Genuine, LoadKek
<1>4. Decrypt(w.key, w, row[c].kek_id) = {B64Decode(row[c].ciphertext).key}
  BY <1>1 DEF Decrypt, Genuine
<1>5. UnwrapDek(FromColumns(row[c]), w.key) = {B64Decode(row[c].ciphertext).key}
  BY <1>2, <1>3, <1>4 DEF UnwrapDek
<1> QED
  BY <1>1, <1>5 DEF Genuine, KekNamed

LEMMA IInvStranded == IInv => NothingStranded
BY Unwraps DEF NothingStranded

LEMMA IInvOpens == IInv => SameGenerationOpens
<1> SUFFICES ASSUME IInv, NEW p \in Process, NEW c \in Stored, phase[p] = "serving",
                    row[c].kek_id = IdOf[snap[p].KEK_BASE64],
                    B64Decode(row[c].ciphertext).aad = c
             PROVE  Opened(c, snap[p].KEK_BASE64) # {}
  BY DEF SameGenerationOpens
<1> DEFINE k == B64Decode(row[c].wrapped_dek).key
<1> DEFINE box == B64Decode(row[c].ciphertext)
<1>1. row[c] \in Columns /\ Genuine(row[c], issued, retired)
  BY DEF Stored, IInv, TypeOK, AllGenuine
<1>2. k \in Kek /\ IdOf[k] = row[c].kek_id
  BY <1>1 DEF Genuine
<1>3. snap[p].KEK_BASE64 \in Kek
  BY KekOfSettings DEF IInv, Loaded
<1>4. snap[p].KEK_BASE64 = k
  BY <1>2, <1>3, RotationAssumption DEF RotationAssumption
<1>5. UnwrapDek(FromColumns(row[c]), k) = {box.key}
  BY Unwraps
<1>6. FromColumns(row[c]).version = VERSION /\ FromColumns(row[c]).ciphertext = box
  BY <1>1 DEF FromColumns, Columns
<1>7. Decrypt(box.key, box, c) = {box.body}
  BY DEF Decrypt
<1>8. box.body \in OpenSealed(FromColumns(row[c]), k, c)
  BY <1>5, <1>6, <1>7 DEF OpenSealed
<1> QED
  BY <1>4, <1>8 DEF Opened

-----------------------------------------------------------------------------
(* Host names: labels and pieces *)

\* What Labels works on: at least one label, the last of which goes on.
Lists(P) == {labels \in Seq(Seq(P)) : Len(labels) >= 1}

\* A dot keeps the labels and begins an empty one.
LEMMA DotBegins ==
  ASSUME NEW P, NEW labels \in Lists(P)
  PROVE  LET more == LabelsWith(labels, DotPiece)
         IN /\ more \in Lists(P) /\ Len(more) = Len(labels) + 1
            /\ \A i \in 1..Len(labels) : more[i] = labels[i]
            /\ more[Len(labels) + 1] = <<>>
<1>1. labels \in Seq(Seq(P)) /\ <<>> \in Seq(P) /\ Len(labels) \in Nat
  BY DEF Lists
<1>2. LabelsWith(labels, DotPiece) = Append(labels, <<>>)
  BY DEF LabelsWith
<1>3. /\ Append(labels, <<>>) \in Seq(Seq(P)) /\ Len(Append(labels, <<>>)) = Len(labels) + 1
      /\ \A i \in 1..Len(labels) : Append(labels, <<>>)[i] = labels[i]
      /\ Append(labels, <<>>)[Len(labels) + 1] = <<>>
  BY <1>1, AppendProperties
<1> QED BY <1>1, <1>2, <1>3 DEF Lists

\* Another piece goes on with the last label and keeps those before it.
LEMMA PieceGoesOn ==
  ASSUME NEW P, NEW labels \in Lists(P), NEW piece \in P, piece # DotPiece
  PROVE  LET more == LabelsWith(labels, piece)
         IN /\ more \in Lists(P) /\ Len(more) = Len(labels)
            /\ \A i \in 1..(Len(labels) - 1) : more[i] = labels[i]
            /\ more[Len(labels)] = Append(labels[Len(labels)], piece)
<1> DEFINE n == Len(labels)
           front == SubSeq(labels, 1, n - 1)
           last == Append(labels[n], piece)
<1>1. labels \in Seq(Seq(P)) /\ n \in Nat /\ n >= 1 /\ labels[n] \in Seq(P)
  BY DEF Lists
<1>2. last \in Seq(P)
  BY <1>1, AppendProperties
<1>3. LabelsWith(labels, piece) = Append(front, last)
  BY DEF LabelsWith, Front, Last
<1> HIDE DEF n, last
<1>4. front \in Seq(Seq(P)) /\ Len(front) = n - 1 /\ \A i \in 1..(n - 1) : front[i] = labels[i]
  <2>1. \A i \in 1..(n - 1) : labels[i] \in Seq(P)
    BY <1>1 DEF n
  <2> QED BY <1>1, <2>1, SubSeqProperties
<1> HIDE DEF front
<1>5. /\ Append(front, last) \in Seq(Seq(P)) /\ Len(Append(front, last)) = (n - 1) + 1
      /\ \A i \in 1..(n - 1) : Append(front, last)[i] = front[i]
      /\ Append(front, last)[(n - 1) + 1] = last
  BY <1>2, <1>4, AppendProperties
<1>6. (n - 1) + 1 = n
  BY <1>1
<1> QED BY <1>1, <1>3, <1>4, <1>5, <1>6 DEF Lists, n, last

\* One list of labels ends with the other.
Ends(f, g) ==
  Len(f) <= Len(g) /\ \A i \in 1..Len(f) : g[(Len(g) - Len(f)) + i] = f[i]

\* It does after one more piece of each if the pieces are the same.
LEMMA EndsStep ==
  ASSUME NEW P, NEW f \in Lists(P), NEW g \in Lists(P), NEW c \in P, NEW d \in P
  PROVE  Ends(LabelsWith(f, c), LabelsWith(g, d)) <=> c = d /\ Ends(f, g)
<1> DEFINE F == LabelsWith(f, c)
           G == LabelsWith(g, d)
           m == Len(f)
           n == Len(g)
<1>1. m \in Nat /\ n \in Nat /\ m >= 1 /\ n >= 1 /\ f[m] \in Seq(P) /\ g[n] \in Seq(P)
  BY DEF Lists
<1>2. CASE c = DotPiece /\ d = DotPiece
  <2>1. Len(F) = m + 1 /\ F[m + 1] = <<>> /\ \A i \in 1..m : F[i] = f[i]
    BY <1>2, DotBegins
  <2>2. Len(G) = n + 1 /\ G[n + 1] = <<>> /\ \A i \in 1..n : G[i] = g[i]
    BY <1>2, DotBegins
  <2> HIDE DEF F, G, m, n
  <2>3. ASSUME m <= n
        PROVE  (\A i \in 1..(m + 1) : G[((n + 1) - (m + 1)) + i] = F[i])
                 <=> \A i \in 1..m : g[(n - m) + i] = f[i]
    <3>1. (n + 1) - (m + 1) = n - m /\ (n - m) + (m + 1) = n + 1
      BY <1>1
    <3>2. \A i \in 1..m : (n - m) + i \in 1..n
      BY <1>1, <2>3
    <3>3. \A i \in 1..(m + 1) : i \in 1..m \/ i = m + 1
      BY <1>1
    <3>4. \A i \in 1..m : i \in 1..(m + 1)
      BY <1>1
    <3> QED BY <2>1, <2>2, <3>1, <3>2, <3>3, <3>4
  <2>4. m + 1 <= n + 1 <=> m <= n
    BY <1>1
  <2> QED BY <1>2, <2>1, <2>2, <2>3, <2>4 DEF Ends, F, G, m, n
<1>3. CASE c # DotPiece /\ d # DotPiece
  <2>1. Len(F) = m /\ F[m] = Append(f[m], c) /\ \A i \in 1..(m - 1) : F[i] = f[i]
    BY <1>3, PieceGoesOn
  <2>2. Len(G) = n /\ G[n] = Append(g[n], d) /\ \A i \in 1..(n - 1) : G[i] = g[i]
    BY <1>3, PieceGoesOn
  <2> HIDE DEF F, G, m, n
  <2>3. Append(f[m], c) = Append(g[n], d) <=> f[m] = g[n] /\ c = d
    BY <1>1, AppendInjective
  <2>4. ASSUME m <= n
        PROVE  (\A i \in 1..m : G[(n - m) + i] = F[i])
                 <=> c = d /\ \A i \in 1..m : g[(n - m) + i] = f[i]
    <3>1. (n - m) + m = n /\ m \in 1..m
      BY <1>1
    <3>2. \A i \in 1..(m - 1) : (n - m) + i \in 1..(n - 1) /\ i \in 1..m
      BY <1>1, <2>4
    <3>3. \A i \in 1..m : i \in 1..(m - 1) \/ i = m
      BY <1>1
    <3>4. \A i \in 1..(m - 1) : G[(n - m) + i] = g[(n - m) + i] /\ F[i] = f[i]
      BY <2>1, <2>2, <3>2
    <3>5. (G[n] = F[m]) <=> c = d /\ g[n] = f[m]
      BY <2>1, <2>2, <2>3
    <3>6. (\A i \in 1..m : G[(n - m) + i] = F[i])
            <=> G[n] = F[m] /\ \A i \in 1..(m - 1) : G[(n - m) + i] = F[i]
      BY <3>1, <3>2, <3>3
    <3>7. (\A i \in 1..m : g[(n - m) + i] = f[i])
            <=> g[n] = f[m] /\ \A i \in 1..(m - 1) : g[(n - m) + i] = f[i]
      BY <3>1, <3>2, <3>3
    <3> QED BY <3>4, <3>5, <3>6, <3>7
  <2> QED BY <2>1, <2>2, <2>4 DEF Ends, F, G, m, n
<1>4. CASE c = DotPiece /\ d # DotPiece
  <2>1. Len(F) = m + 1 /\ F[m + 1] = <<>>
    BY <1>4, DotBegins
  <2>2. Len(G) = n /\ G[n] = Append(g[n], d)
    BY <1>4, PieceGoesOn
  <2>3. Append(g[n], d) # <<>>
    BY <1>1, AppendProperties
  <2> HIDE DEF F, G, m, n
  <2>4. (n - (m + 1)) + (m + 1) = n /\ m + 1 \in 1..(m + 1)
    BY <1>1
  <2>5. ~Ends(F, G)
    BY <2>1, <2>2, <2>3, <2>4 DEF Ends
  <2> QED BY <1>4, <2>5 DEF F, G
<1>5. CASE c # DotPiece /\ d = DotPiece
  <2>1. Len(F) = m /\ F[m] = Append(f[m], c)
    BY <1>5, PieceGoesOn
  <2>2. Len(G) = n + 1 /\ G[n + 1] = <<>>
    BY <1>5, DotBegins
  <2>3. Append(f[m], c) # <<>>
    BY <1>1, AppendProperties
  <2> HIDE DEF F, G, m, n
  <2>4. ((n + 1) - m) + m = n + 1 /\ m \in 1..m
    BY <1>1
  <2>5. ~Ends(F, G)
    BY <2>1, <2>2, <2>3, <2>4 DEF Ends
  <2> QED BY <1>5, <2>5 DEF F, G
<1> QED BY <1>2, <1>3, <1>4, <1>5

\* The last label is empty after a dot only, and there is one before it then.
LEMMA LastLabel ==
  ASSUME NEW P, NEW labels \in Lists(P), NEW piece \in P
  PROVE  LET more == LabelsWith(labels, piece)
         IN /\ more[Len(more)] = <<>> <=> piece = DotPiece
            /\ ~Ends(more, << <<>> >>)
<1> DEFINE more == LabelsWith(labels, piece)
           n == Len(labels)
           none == << <<>> >>
<1>1. n \in Nat /\ n >= 1 /\ labels[n] \in Seq(P)
  BY DEF Lists
<1>2. Len(none) = 1 /\ none[1] = <<>>
  OBVIOUS
<1>3. CASE piece = DotPiece
  <2>1. Len(more) = n + 1 /\ more[n + 1] = <<>>
    BY <1>3, DotBegins
  <2> HIDE DEF more, n, none
  <2> QED BY <1>1, <1>2, <1>3, <2>1 DEF Ends, more, none
<1>4. CASE piece # DotPiece
  <2>1. Len(more) = n /\ more[n] = Append(labels[n], piece)
    BY <1>4, PieceGoesOn
  <2>2. Append(labels[n], piece) # <<>>
    BY <1>1, AppendProperties
  <2> HIDE DEF more, n, none
  <2>3. ASSUME Ends(more, none) PROVE FALSE
    <3>1. n <= 1 /\ \A i \in 1..n : none[(1 - n) + i] = more[i]
      BY <1>2, <2>1, <2>3 DEF Ends
    <3>2. n = 1 /\ n \in 1..n /\ (1 - n) + n = 1
      BY <1>1, <3>1
    <3>3. none[1] = more[n]
      BY <3>1, <3>2
    <3> QED BY <1>2, <2>1, <2>2, <3>3
  <2> QED BY <1>4, <2>1, <2>2, <2>3 DEF more, none
<1> QED BY <1>3, <1>4

\* The labels of each beginning of a name.
Runs(f, name, P) ==
  /\ f[0] = << <<>> >>
  /\ \A i \in 1..Len(name) : f[i] = LabelsWith(f[i - 1], name[i])
  /\ \A i \in 0..Len(name) : f[i] \in Lists(P)

\* Labels computes the last of them.
LEMMA LabelsRun ==
  ASSUME NEW P, NEW name \in Seq(P)
  PROVE  \E f : Runs(f, name, P) /\ f[Len(name)] = Scan(name, << <<>> >>, LabelsWith)
<1> DEFINE N == Len(name)
           S == Lists(P)
           none == << <<>> >>
           Rec(f) == [n \in 0..N |-> IF n = 0 THEN none ELSE LabelsWith(f[n - 1], name[n])]
           step == [p \in S \X (1..N) |-> LabelsWith(p[1], name[p[2]])]
           g == CHOOSE f : f = Rec(f)
<1>1. N \in Nat /\ \A i \in 1..N : name[i] \in P
  OBVIOUS
<1>2. none \in S
  <2>1. <<>> \in Seq(P)
    OBVIOUS
  <2>2. none \in Seq(Seq(P)) /\ Len(none) = 1
    BY <2>1
  <2> QED BY <2>2 DEF Lists
<1>3. \A labels \in S, i \in 1..N : LabelsWith(labels, name[i]) \in S
  <2> SUFFICES ASSUME NEW labels \in S, NEW i \in 1..N
               PROVE  LabelsWith(labels, name[i]) \in S
    OBVIOUS
  <2>1. CASE name[i] = DotPiece
    BY <2>1, DotBegins
  <2>2. CASE name[i] # DotPiece
    BY <1>1, <2>2, PieceGoesOn
  <2> QED BY <2>1, <2>2
<1>4. Scan(name, << <<>> >>, LabelsWith) = g[N]
  BY DEF Scan
<1> HIDE DEF S, N, none
<1>5. /\ step \in [S \X (1..N) -> S]
      /\ \A labels \in S, i \in 1..N : step[<<labels, i>>] = LabelsWith(labels, name[i])
  BY <1>3
<1> HIDE DEF step
<1>6. g = Rec(g)
  <2>1. PICK f : Recurses(f, N, S, none, step)
    BY <1>1, <1>2, <1>5, Recursion
  <2>2. f \in [0..N -> S] /\ f[0] = none /\ \A i \in 1..N : f[i] = step[<<f[i - 1], i>>]
    BY <2>1 DEF Recurses
  <2>3. \A i \in 1..N : f[i - 1] \in S
    BY <2>2, <1>1
  <2>4. \A i \in 1..N : f[i] = LabelsWith(f[i - 1], name[i])
    BY <2>2, <2>3, <1>5
  <2>5. f = Rec(f)
    BY <2>2, <2>4, <1>1
  <2> HIDE DEF Rec
  <2> QED BY <2>5
<1> HIDE DEF g
<1>7. g[0] = none /\ \A i \in 1..N : g[i] = LabelsWith(g[i - 1], name[i])
  BY <1>1, <1>6
<1> DEFINE T == {i \in 0..N : g[i] \in S}
<1>8. 0..N \subseteq T
  <2>1. 0 \in T
    BY <1>1, <1>2, <1>7
  <2>2. ASSUME NEW i \in 0..(N - 1), i \in T PROVE i + 1 \in T
    <3>1. i + 1 \in 1..N /\ (i + 1) - 1 = i /\ i + 1 \in 0..N
      BY <1>1
    <3>2. g[i + 1] = LabelsWith(g[i], name[i + 1])
      BY <1>7, <3>1
    <3> QED BY <1>3, <2>2, <3>1, <3>2
  <2> HIDE DEF T
  <2> QED BY <1>1, <2>1, <2>2, Induction
<1>9. Runs(g, name, P)
  BY <1>7, <1>8 DEF Runs, N, S, none
<1> QED BY <1>4, <1>9 DEF N

\* The first m pieces of a end the first n of b, and stand alone or behind a dot.
Meets(a, m, b, n) ==
  /\ m <= n /\ \A i \in 1..m : b[(n - m) + i] = a[i]
  /\ n = m \/ b[n - m] = DotPiece

\* They do with one piece more of each if those are the same.
LEMMA MeetsStep ==
  ASSUME NEW a, NEW b, NEW m \in Nat, NEW n \in Nat
  PROVE  Meets(a, m + 1, b, n + 1) <=> a[m + 1] = b[n + 1] /\ Meets(a, m, b, n)
<1>1. (n + 1) - (m + 1) = n - m /\ (n - m) + (m + 1) = n + 1
  OBVIOUS
<1>2. m + 1 <= n + 1 <=> m <= n
  OBVIOUS
<1>3. n + 1 = m + 1 <=> n = m
  OBVIOUS
<1>4. (\A i \in 1..(m + 1) : b[(n - m) + i] = a[i])
        <=> b[n + 1] = a[m + 1] /\ \A i \in 1..m : b[(n - m) + i] = a[i]
  <2>1. m + 1 \in 1..(m + 1) /\ \A i \in 1..m : i \in 1..(m + 1)
    OBVIOUS
  <2>2. \A i \in 1..(m + 1) : i \in 1..m \/ i = m + 1
    OBVIOUS
  <2> QED BY <1>1, <2>1, <2>2
<1> QED BY <1>1, <1>2, <1>3, <1>4 DEF Meets

\* Label by label is the same as piece by piece behind a dot.
LEMMA EndsMeets ==
  ASSUME NEW P, NEW a \in Seq(P), NEW b \in Seq(P), NEW f, NEW g,
         Runs(f, a, P), Runs(g, b, P)
  PROVE  Ends(f[Len(a)], g[Len(b)]) <=> Meets(a, Len(a), b, Len(b))
<1> DEFINE M == Len(a)
           N == Len(b)
           T == {m \in 0..M : \A n \in 0..N : Ends(f[m], g[n]) <=> Meets(a, m, b, n)}
<1>1. /\ M \in Nat /\ N \in Nat
      /\ \A i \in 1..M : a[i] \in P
      /\ \A i \in 1..N : b[i] \in P
  OBVIOUS
<1>2. f[0] = << <<>> >> /\ g[0] = << <<>> >>
  BY DEF Runs
<1>3. /\ \A i \in 0..M : f[i] \in Lists(P)
      /\ \A i \in 0..N : g[i] \in Lists(P)
  BY DEF Runs
<1>4. /\ \A i \in 1..M : f[i] = LabelsWith(f[i - 1], a[i])
      /\ \A i \in 1..N : g[i] = LabelsWith(g[i - 1], b[i])
  BY DEF Runs
<1> HIDE DEF M, N
<1>5. \A i \in 0..(M - 1) : /\ i + 1 \in 1..M /\ i \in 0..M /\ i + 1 \in 0..M
                           /\ f[i + 1] = LabelsWith(f[i], a[i + 1])
  <2> SUFFICES ASSUME NEW i \in 0..(M - 1)
               PROVE  /\ i + 1 \in 1..M /\ i \in 0..M /\ i + 1 \in 0..M
                      /\ f[i + 1] = LabelsWith(f[i], a[i + 1])
    OBVIOUS
  <2>1. i + 1 \in 1..M /\ i \in 0..M /\ i + 1 \in 0..M /\ (i + 1) - 1 = i
    BY <1>1
  <2> QED BY <1>4, <2>1
<1>6. \A i \in 0..(N - 1) : /\ i + 1 \in 1..N /\ i \in 0..N /\ i + 1 \in 0..N
                           /\ g[i + 1] = LabelsWith(g[i], b[i + 1])
  <2> SUFFICES ASSUME NEW i \in 0..(N - 1)
               PROVE  /\ i + 1 \in 1..N /\ i \in 0..N /\ i + 1 \in 0..N
                      /\ g[i + 1] = LabelsWith(g[i], b[i + 1])
    OBVIOUS
  <2>1. i + 1 \in 1..N /\ i \in 0..N /\ i + 1 \in 0..N /\ (i + 1) - 1 = i
    BY <1>1
  <2> QED BY <1>4, <2>1
<1>7. \A n \in 0..N : n = 0 \/ \E k \in 0..(N - 1) : n = k + 1
  <2> SUFFICES ASSUME NEW n \in 0..N, n # 0 PROVE \E k \in 0..(N - 1) : n = k + 1
    OBVIOUS
  <2>1. n - 1 \in 0..(N - 1) /\ n = (n - 1) + 1
    BY <1>1
  <2> QED BY <2>1
<1>8. 0 \in T
  <2> SUFFICES ASSUME NEW n \in 0..N PROVE Ends(f[0], g[n]) <=> Meets(a, 0, b, n)
    BY <1>1
  <2> DEFINE last == g[n][Len(g[n])]
  <2>1. Len(g[n]) \in Nat /\ Len(g[n]) >= 1
    BY <1>3 DEF Lists
  <2>2. Ends(f[0], g[n]) <=> last = <<>>
    <3>1. Len(f[0]) = 1 /\ f[0][1] = <<>>
      BY <1>2
    <3>2. (Len(g[n]) - 1) + 1 = Len(g[n]) /\ \A i \in 1..1 : i = 1
      BY <2>1
    <3> QED BY <2>1, <3>1, <3>2 DEF Ends
  <2>3. Meets(a, 0, b, n) <=> n = 0 \/ b[n] = DotPiece
    <3>1. n - 0 = n /\ 0 <= n /\ \A i \in 1..0 : FALSE
      OBVIOUS
    <3> QED BY <3>1 DEF Meets
  <2>4. CASE n = 0
    BY <1>2, <2>2, <2>3, <2>4
  <2>5. ASSUME NEW k \in 0..(N - 1), n = k + 1 PROVE last = <<>> <=> b[n] = DotPiece
    <3>1. g[k] \in Lists(P) /\ g[n] = LabelsWith(g[k], b[n]) /\ b[n] \in P
      BY <1>1, <1>3, <1>6, <2>5
    <3> QED BY <3>1, LastLabel
  <2>6. CASE n # 0
    <3>1. PICK k \in 0..(N - 1) : n = k + 1
      BY <1>7, <2>6
    <3>2. last = <<>> <=> b[n] = DotPiece
      BY <2>5, <3>1
    <3> QED BY <2>2, <2>3, <2>6, <3>2
  <2> QED BY <2>4, <2>6
<1>9. ASSUME NEW m \in 0..(M - 1), m \in T PROVE m + 1 \in T
  <2> SUFFICES ASSUME NEW n \in 0..N
               PROVE  Ends(f[m + 1], g[n]) <=> Meets(a, m + 1, b, n)
    BY <1>5
  <2>1. f[m] \in Lists(P) /\ a[m + 1] \in P /\ f[m + 1] = LabelsWith(f[m], a[m + 1])
    BY <1>1, <1>3, <1>5
  <2>2. CASE n = 0
    <3>1. ~Meets(a, m + 1, b, n)
      BY <2>2 DEF Meets
    <3>2. ~Ends(f[m + 1], << <<>> >>)
      BY <2>1, LastLabel
    <3> QED BY <1>2, <2>2, <3>1, <3>2
  <2>3. ASSUME NEW k \in 0..(N - 1), n = k + 1
        PROVE  Ends(f[m + 1], g[n]) <=> Meets(a, m + 1, b, n)
    <3>1. /\ g[k] \in Lists(P) /\ b[n] \in P /\ g[n] = LabelsWith(g[k], b[n])
          /\ k \in 0..N /\ k \in Nat /\ m \in Nat
      BY <1>1, <1>3, <1>6, <2>3
    <3>2. Ends(f[m + 1], g[n]) <=> a[m + 1] = b[n] /\ Ends(f[m], g[k])
      BY <2>1, <3>1, EndsStep
    <3>3. Ends(f[m], g[k]) <=> Meets(a, m, b, k)
      BY <1>9, <3>1
    <3>4. Meets(a, m + 1, b, k + 1) <=> a[m + 1] = b[k + 1] /\ Meets(a, m, b, k)
      BY <3>1, MeetsStep
    <3> QED BY <2>3, <3>2, <3>3, <3>4
  <2> QED BY <1>7, <2>2, <2>3
<1>10. 0..M \subseteq T
  <2> HIDE DEF T
  <2> QED BY <1>1, <1>8, <1>9, Induction
<1>11. M \in 0..M /\ N \in 0..N
  BY <1>1
<1> QED BY <1>10, <1>11 DEF M, N

\* Case and final dots aside a host name stays one.
LEMMA CanonicalIsSeq ==
  ASSUME NEW host, host \in Seq(ToSet(host))
  PROVE  Canonical(host) \in Seq({[piece EXCEPT !.upper = FALSE] : piece \in ToSet(host)})
<1> DEFINE P == {[piece EXCEPT !.upper = FALSE] : piece \in ToSet(host)}
           n == Len(host)
           low == Lower(host)
           I == {i \in 1..Len(low) : low[i] # DotPiece}
           k == SelectLastInSeq(low, LAMBDA piece : piece # DotPiece)
<1>1. n \in Nat /\ DOMAIN host = 1..n /\ \A i \in 1..n : host[i] \in ToSet(host)
  BY DEF ToSet
<1>2. low = [i \in 1..n |-> [host[i] EXCEPT !.upper = FALSE]]
  BY <1>1 DEF Lower
<1> HIDE DEF n, low
<1>3. low \in Seq(P) /\ Len(low) = n
  <2>1. \A i \in 1..n : low[i] = [host[i] EXCEPT !.upper = FALSE] /\ host[i] \in ToSet(host)
    BY <1>1, <1>2
  <2>2. \A i \in 1..n : low[i] \in P
    BY <2>1
  <2> HIDE DEF P
  <2>3. low \in [1..n -> P]
    BY <1>2, <2>2
  <2> QED BY <1>1, <2>3, IsSeqOf
<1>4. k \in 0..n
  <2>1. k = IF I # {} THEN Max(I) ELSE 0
    BY DEF SelectLastInSeq
  <2>2. CASE I = {}
    BY <1>1, <2>1, <2>2
  <2>3. CASE I # {}
    <3> DEFINE below == {n - i : i \in I}
    <3>1. I \subseteq 1..n
      BY <1>3
    <3> HIDE DEF I, k
    <3>2. below \subseteq Nat /\ below # {}
      <4>1. \A i \in 1..n : n - i \in Nat
        BY <1>1
      <4>2. PICK i \in I : TRUE
        BY <2>3
      <4>3. n - i \in below
        OBVIOUS
      <4> QED BY <3>1, <4>1, <4>3
    <3>3. PICK m \in below : \A j \in below : m <= j
      <4> HIDE DEF below
      <4> QED BY <3>2, Least
    <3>4. PICK top \in I : m = n - top
      OBVIOUS
    <3>5. \A i \in I : top >= i
      <4> SUFFICES ASSUME NEW i \in I PROVE top >= i
        OBVIOUS
      <4>1. n - top <= n - i /\ top \in 1..n /\ i \in 1..n
        BY <3>1, <3>3, <3>4
      <4> QED BY <1>1, <4>1
    <3>6. Max(I) \in I
      <4>1. \E x \in I : \A y \in I : x >= y
        BY <3>5
      <4> QED BY <4>1 DEF Max
    <3>7. k = Max(I) /\ Max(I) \in 1..n
      BY <2>1, <2>3, <3>1, <3>6
    <3>8. \A i \in 1..n : i \in 0..n
      BY <1>1
    <3> QED BY <3>7, <3>8
  <2> QED BY <2>2, <2>3
<1>5. Canonical(host) = SubSeq(low, 1, k)
  BY DEF Canonical, RStripDots, low
<1> HIDE DEF k, P
<1>6. \A i \in 1..k : low[i] \in P
  BY <1>1, <1>3, <1>4
<1>7. SubSeq(low, 1, k) \in Seq(P)
  BY <1>1, <1>4, <1>6, SubSeqProperties
<1> QED BY <1>5, <1>7 DEF P

\* A name meets the end of another: it is the other, or ends it behind a dot.
LEMMA MeetsSuffix ==
  ASSUME NEW P, DotPiece \in P, NEW a \in Seq(P), NEW b \in Seq(P)
  PROVE  Meets(a, Len(a), b, Len(b)) <=> a = b \/ UnderSuffix(b, a)
<1> DEFINE m == Len(a)
           n == Len(b)
           dot == <<DotPiece>>
           s == dot \o a
<1>1. m \in Nat /\ n \in Nat /\ dot \in Seq(P) /\ Len(dot) = 1 /\ dot[1] = DotPiece
  OBVIOUS
<1> HIDE DEF dot
<1>2. /\ s \in Seq(P) /\ Len(s) = 1 + m
      /\ s[1] = DotPiece /\ \A i \in 1..m : s[1 + i] = a[i]
  <2>0. dot \in Seq(P) /\ a \in Seq(P)
    BY <1>1
  <2>1. /\ s \in Seq(P) /\ Len(s) = Len(dot) + Len(a)
        /\ \A i \in 1..Len(dot) : s[i] = dot[i]
        /\ \A i \in 1..Len(a) : s[Len(dot) + i] = a[i]
    BY <2>0, JoinedAt
  <2> HIDE DEF s
  <2> QED BY <1>1, <2>1
<1>3. UnderSuffix(b, a) <=> IsSuffix(s, b)
  BY DEF UnderSuffix, dot
<1> HIDE DEF s
<1>4. UnderSuffix(b, a) <=>
        1 + m <= n /\ \A i \in 1..(1 + m) : b[(n - (1 + m)) + i] = s[i]
  <2>1. IsSuffix(s, b) <=>
          Len(s) <= Len(b) /\ \A i \in 1..Len(s) : b[(Len(b) - Len(s)) + i] = s[i]
    BY <1>2, SuffixAt
  <2> QED BY <1>2, <1>3, <2>1
<1> HIDE DEF m, n
<1>5. ASSUME 1 + m <= n
      PROVE  (\A i \in 1..(1 + m) : b[(n - (1 + m)) + i] = s[i])
               <=> b[n - m] = DotPiece /\ \A i \in 1..m : b[(n - m) + i] = a[i]
  <2>1. (n - (1 + m)) + 1 = n - m /\ 1 \in 1..(1 + m)
    BY <1>1
  <2>2. \A i \in 1..m : (n - (1 + m)) + (1 + i) = (n - m) + i /\ 1 + i \in 1..(1 + m)
    BY <1>1
  <2>3. \A j \in 1..(1 + m) : j = 1 \/ \E i \in 1..m : j = 1 + i
    <3> SUFFICES ASSUME NEW j \in 1..(1 + m), j # 1 PROVE \E i \in 1..m : j = 1 + i
      OBVIOUS
    <3>1. j - 1 \in 1..m /\ j = 1 + (j - 1)
      BY <1>1
    <3> QED BY <3>1
  <2>4. ASSUME \A i \in 1..(1 + m) : b[(n - (1 + m)) + i] = s[i]
        PROVE  b[n - m] = DotPiece /\ \A i \in 1..m : b[(n - m) + i] = a[i]
    <3>1. b[n - m] = DotPiece
      BY <1>2, <2>1, <2>4
    <3>2. ASSUME NEW i \in 1..m PROVE b[(n - m) + i] = a[i]
      <4>1. b[(n - (1 + m)) + (1 + i)] = s[1 + i]
        BY <2>2, <2>4
      <4> QED BY <1>2, <2>2, <4>1
    <3> QED BY <3>1, <3>2
  <2>5. ASSUME b[n - m] = DotPiece, \A i \in 1..m : b[(n - m) + i] = a[i],
               NEW j \in 1..(1 + m)
        PROVE  b[(n - (1 + m)) + j] = s[j]
    <3>1. CASE j = 1
      BY <1>2, <2>1, <2>5, <3>1
    <3>2. ASSUME NEW i \in 1..m, j = 1 + i PROVE b[(n - (1 + m)) + j] = s[j]
      <4>1. (n - (1 + m)) + j = (n - m) + i
        BY <2>2, <3>2
      <4>2. b[(n - m) + i] = a[i] /\ s[j] = a[i]
        BY <1>2, <2>5, <3>2
      <4> QED BY <4>1, <4>2
    <3> QED BY <2>3, <3>1, <3>2
  <2> QED BY <2>4, <2>5
<1>6. a = b <=> m = n /\ \A i \in 1..m : b[i] = a[i]
  <2>1. ASSUME m = n, \A i \in 1..m : b[i] = a[i] PROVE a = b
    BY <2>1, SeqEqual DEF m, n
  <2> QED BY <2>1 DEF m, n
<1>7. CASE m = n
  <2>1. \A i \in 1..m : (n - m) + i = i
    BY <1>1, <1>7
  <2>2. ~(1 + m <= n) /\ m <= n
    BY <1>1, <1>7
  <2> QED BY <1>4, <1>6, <1>7, <2>1, <2>2 DEF Meets, m, n
<1>8. CASE m # n
  <2>1. m <= n <=> 1 + m <= n
    BY <1>1, <1>8
  <2>2. Meets(a, m, b, n) <=>
          1 + m <= n /\ b[n - m] = DotPiece /\ \A i \in 1..m : b[(n - m) + i] = a[i]
    BY <1>8, <2>1 DEF Meets
  <2> QED BY <1>4, <1>5, <1>6, <1>8, <2>2 DEF m, n
<1> QED BY <1>7, <1>8

\* What the assertion compares piece by piece is which name lies under which,
\* label by label.
LEMMA SeparateIsNotUnder ==
  ASSUME NEW e \in Environments, Valid(e)
  PROVE  AssertEvidenceDomainSeparate(e)
           <=> ~OneUnderOther(e.NEPTIQ_PUBLIC_HOST, e.NEPTIQ_EVIDENCE_HOST)
<1> DEFINE pub == e.NEPTIQ_PUBLIC_HOST
           evi == e.NEPTIQ_EVIDENCE_HOST
           a == Canonical(pub)
           b == Canonical(evi)
           P == {[piece EXCEPT !.upper = FALSE] : piece \in ToSet(pub) \cup ToSet(evi)}
                  \cup {DotPiece}
           Q == Seq(P)
<1>1. pub \in Seq(ToSet(pub)) /\ evi \in Seq(ToSet(evi))
  BY StartupAssumption DEF StartupAssumption, Valid, Required
<1>2. a \in Seq(P) /\ b \in Seq(P) /\ DotPiece \in P
  <2> DEFINE A == {[piece EXCEPT !.upper = FALSE] : piece \in ToSet(pub)}
             B == {[piece EXCEPT !.upper = FALSE] : piece \in ToSet(evi)}
  <2>1. a \in Seq(A) /\ b \in Seq(B)
    BY <1>1, CanonicalIsSeq
  <2>2. A \subseteq P /\ B \subseteq P
    OBVIOUS
  <2> HIDE DEF A, B, a, b, P
  <2> QED BY <2>1, <2>2, SeqMonotonic DEF P
<1> HIDE DEF a, b, P
<1>3. PICK f : Runs(f, a, P) /\ f[Len(a)] = Scan(a, << <<>> >>, LabelsWith)
  BY <1>2, LabelsRun
<1>4. PICK g : Runs(g, b, P) /\ g[Len(b)] = Scan(b, << <<>> >>, LabelsWith)
  BY <1>2, LabelsRun
<1>5. f[Len(a)] = Labels(pub) /\ g[Len(b)] = Labels(evi)
  BY <1>3, <1>4 DEF Labels, a, b
<1>6. f[Len(a)] \in Seq(Seq(P)) /\ g[Len(b)] \in Seq(Seq(P))
  BY <1>2, <1>3, <1>4 DEF Runs, Lists
<1>7. /\ IsSuffix(Labels(pub), Labels(evi)) <=> Ends(f[Len(a)], g[Len(b)])
      /\ IsSuffix(Labels(evi), Labels(pub)) <=> Ends(g[Len(b)], f[Len(a)])
  BY <1>5, <1>6, SuffixAt DEF Ends
<1>8. /\ Ends(f[Len(a)], g[Len(b)]) <=> Meets(a, Len(a), b, Len(b))
      /\ Ends(g[Len(b)], f[Len(a)]) <=> Meets(b, Len(b), a, Len(a))
  BY <1>2, <1>3, <1>4, EndsMeets
<1>9. /\ Meets(a, Len(a), b, Len(b)) <=> a = b \/ UnderSuffix(b, a)
      /\ Meets(b, Len(b), a, Len(a)) <=> b = a \/ UnderSuffix(a, b)
  BY <1>2, MeetsSuffix
<1>10. AssertEvidenceDomainSeparate(e) <=> b # a /\ ~UnderSuffix(b, a) /\ ~UnderSuffix(a, b)
  BY DEF AssertEvidenceDomainSeparate, a, b
<1> QED BY <1>7, <1>8, <1>9, <1>10 DEF OneUnderOther

-----------------------------------------------------------------------------
(* What the lifespan decided *)

\* An API process that serves or was turned down is so by the names it holds.
Decided ==
  \A p \in Api :
    /\ phase[p] = "serving" => AssertEvidenceDomainSeparate(snap[p])
    /\ phase[p] = "refused" => ~AssertEvidenceDomainSeparate(snap[p])

LEMMA DecidedHolds == IInv /\ Decided /\ [RotationNext]_vars => Decided'
<1> SUFFICES ASSUME IInv, Decided, [RotationNext]_vars, NEW a \in Api
             PROVE  /\ (phase[a] = "serving" => AssertEvidenceDomainSeparate(snap[a]))'
                    /\ (phase[a] = "refused" => ~AssertEvidenceDomainSeparate(snap[a]))'
  BY DEF Decided
<1> DEFINE Right == /\ phase[a] = "serving" => AssertEvidenceDomainSeparate(snap[a])
                    /\ phase[a] = "refused" => ~AssertEvidenceDomainSeparate(snap[a])
<1>1. Right /\ a \in Process /\ StartupTypeOK
  BY StartupAssumption DEF StartupAssumption, Decided, IInv, TypeOK
<1>2. ASSUME UNCHANGED <<phase, snap>> PROVE Right'
  BY <1>1, <1>2 DEF AssertEvidenceDomainSeparate
<1>3. ASSUME NEW p \in Process, Load(p) PROVE Right'
  <2>1. CASE p = a
    BY <1>1, <1>3, <2>1 DEF Load, StartupTypeOK
  <2>2. CASE p # a
    <3>1. phase'[a] = phase[a] /\ snap'[a] = snap[a]
      BY <1>1, <1>3, <2>2 DEF Load, StartupTypeOK
    <3> QED
      BY <1>1, <3>1 DEF AssertEvidenceDomainSeparate
  <2> QED
    BY <2>1, <2>2
<1>4. ASSUME NEW p \in Process, Start(p) PROVE Right'
  <2>1. CASE p = a
    <3>1. /\ snap'[a] = snap[a]
          /\ phase'[a] = IF AssertEvidenceDomainSeparate(snap[a])
                         THEN "serving" ELSE "refused"
      BY <1>1, <1>4, <2>1 DEF Start, StartupTypeOK, GetSettings
    <3> QED
      BY <3>1 DEF AssertEvidenceDomainSeparate
  <2>2. CASE p # a
    <3>1. phase'[a] = phase[a] /\ snap'[a] = snap[a]
      BY <1>1, <1>4, <2>2 DEF Start, StartupTypeOK
    <3> QED
      BY <1>1, <3>1 DEF AssertEvidenceDomainSeparate
  <2> QED
    BY <2>1, <2>2
<1>5. ASSUME NEW p \in Process, Restart(p) PROVE Right'
  <2>1. CASE p = a
    BY <1>1, <1>5, <2>1 DEF Restart, StartupTypeOK
  <2>2. CASE p # a
    <3>1. phase'[a] = phase[a] /\ snap'[a] = snap[a]
      BY <1>1, <1>5, <2>2 DEF Restart, StartupTypeOK
    <3> QED
      BY <1>1, <3>1 DEF AssertEvidenceDomainSeparate
  <2> QED
    BY <2>1, <2>2
<1>6. ASSUME UNCHANGED startupVars PROVE Right'
  BY <1>2, <1>6 DEF startupVars
<1>7. CASE \E e \in Environments : Deploy(e)
  BY <1>2, <1>7 DEF Deploy, SetEnv
<1>8. CASE \E p \in Process : (Load(p) \/ Start(p) \/ Restart(p)) /\ UNCHANGED storeVars
  BY <1>3, <1>4, <1>5, <1>8
<1>9. CASE \E p \in Process, c \in Cred, m \in Secret \cup {Empty} : Connect(p, c, m)
  BY <1>6, <1>9 DEF Connect
<1>10. CASE \E j \in Job : (\E c \in Cred : Fetch(j, c)) \/ Write(j) \/ JobDies(j)
  BY <1>6, <1>10 DEF Fetch, Write, JobDies
<1>11. CASE (\E c, d \in Cred : Misplace(c, d)) \/ \E k \in Kek : Retire(k)
  BY <1>6, <1>11 DEF Misplace, Retire
<1>12. CASE UNCHANGED vars
  BY <1>6, <1>12 DEF vars
<1>13. Right'
  BY <1>7, <1>8, <1>9, <1>10, <1>11, <1>12 DEF RotationNext
<1> QED
  BY <1>13 DEF AssertEvidenceDomainSeparate

LEMMA DecidedAlways == Spec => []Decided
<1>1. RotationInit => Decided
  BY StartupAssumption DEF StartupAssumption, RotationInit, Init, Decided
<1> QED
  BY <1>1, DecidedHolds, Inductive, PTL DEF Spec

\* What was decided by the pieces is right by the labels.
LEMMA DecidedUnder == IInv /\ Decided => EvidenceNotASubdomain
<1> SUFFICES ASSUME IInv, Decided, NEW p \in Api, phase[p] \in {"serving", "refused"}
             PROVE  /\ phase[p] = "serving" =>
                         ~OneUnderOther(snap[p].NEPTIQ_PUBLIC_HOST, snap[p].NEPTIQ_EVIDENCE_HOST)
                    /\ phase[p] = "refused" =>
                         OneUnderOther(snap[p].NEPTIQ_PUBLIC_HOST, snap[p].NEPTIQ_EVIDENCE_HOST)
  BY DEF EvidenceNotASubdomain
<1>1. snap[p] \in Environments /\ Valid(snap[p])
  BY StartupAssumption DEF StartupAssumption, IInv, Loaded
<1>2. AssertEvidenceDomainSeparate(snap[p])
        <=> ~OneUnderOther(snap[p].NEPTIQ_PUBLIC_HOST, snap[p].NEPTIQ_EVIDENCE_HOST)
  BY <1>1, SeparateIsNotUnder
<1> QED
  BY <1>2 DEF Decided

-----------------------------------------------------------------------------
(* Theorems *)

\* Every variable has its type: in particular every envelope that seal and
\* rewrap write has the version that open_sealed accepts.
THEOREM TypeCorrect == Spec => []TypeOK
<1>1. IInv => TypeOK
  BY DEF IInv
<1> QED
  BY <1>1, Inductive, PTL

\* open_sealed answers a request for a credential with a plaintext that was
\* sealed as that credential, or with an error, whatever rows were moved.
THEOREM OwnSecrets == Spec => []OwnSecretOnly
BY Inductive, IInvOwn, PTL

\* However rewrap, reconnects and dying jobs interleave, the KEK that a stored
\* row names exists and unwraps it.
THEOREM NeverStranded == Spec => []NothingStranded
BY Inductive, IInvStranded, PTL

\* A process opens every row in its place that is of the generation it holds.
THEOREM GenerationOpens == Spec => []SameGenerationOpens
BY Inductive, IInvOpens, PTL

\* Whatever the environment has become since, an API process serves exactly
\* when neither of the host names it loaded is the other or lies under it: the
\* lifespan compares texts, a domain is compared label by label.
THEOREM NeverASubdomain == Spec => []EvidenceNotASubdomain
BY Inductive, DecidedAlways, DecidedUnder, PTL
=============================================================================
