------------------------- MODULE CredentialEnvelope -------------------------
(***************************************************************************)
(* neptiq_security.credentials: envelope encryption of stored credentials. *)
(*                                                                         *)
(* A credential is encrypted under a key of its own (the DEK), and that    *)
(* key is wrapped under the master key of the process (the KEK).  A call   *)
(* that may raise is the set of the values it can return: the empty set    *)
(* stands for CredentialError.  Nonces are random and stored beside what   *)
(* they encrypted, so a box opens with its own nonce and they are left     *)
(* out.                                                                    *)
(***************************************************************************)
EXTENDS Naturals

CONSTANTS
  Kek,        \* values of KEK_BASE64
  Malformed,  \* those that are not base64 of 32 bytes
  KekId,      \* names of KEK generations
  Cred,       \* credentials: an org and a provider, the AAD that binds a row
  Secret,     \* plaintexts
  Empty       \* b""

VERSION == 1

ASSUME EnvelopeAssumption ==
  /\ Malformed \subseteq Kek
  /\ Empty \notin Secret

-----------------------------------------------------------------------------
(* AES-256-GCM: a box opens with its key and its associated data, else     *)
(* InvalidTag.                                                             *)

Encrypt(key, plaintext, aad) == [key |-> key, body |-> plaintext, aad |-> aad]
Decrypt(key, box, aad) == {m \in {box.body} : box.key = key /\ box.aad = aad}

-----------------------------------------------------------------------------

LoadKek(kek) == {kek} \ Malformed

\* dek is what os.urandom drew for this call.
Seal(plaintext, kek, kekId, aad, dek) ==
  {[version |-> VERSION, kek_id |-> kekId,
    wrapped_dek |-> Encrypt(k, dek, kekId),
    ciphertext |-> Encrypt(dek, plaintext, aad)] :
      k \in {key \in LoadKek(kek) : plaintext # Empty}}

UnwrapDek(sealed, kek) ==
  UNION {Decrypt(k, sealed.wrapped_dek, sealed.kek_id) : k \in LoadKek(kek)}

\* Mutant: the binding is taken from the row.
OpenAsSealed(sealed, kek, aad) ==
  UNION {Decrypt(dek, sealed.ciphertext, sealed.ciphertext.aad) :
           dek \in {d \in UnwrapDek(sealed, kek) : sealed.version = VERSION}}

OpenSealed(sealed, kek, aad) ==
  UNION {Decrypt(dek, sealed.ciphertext, aad) :
           dek \in {d \in UnwrapDek(sealed, kek) : sealed.version = VERSION}}

\* Mutants: the row counts as a new envelope version, the wrap keeps the old
\* id, is made with the old key, or the row keeps its kek_id.
RewrapNewVersion(sealed, oldKek, newKek, newKekId) ==
  {[sealed EXCEPT !.version = @ + 1, !.kek_id = newKekId,
                  !.wrapped_dek = Encrypt(key, dek, newKekId)] :
      key \in LoadKek(newKek), dek \in UnwrapDek(sealed, oldKek)}
RewrapOldBinding(sealed, oldKek, newKek, newKekId) ==
  {[sealed EXCEPT !.kek_id = newKekId,
                  !.wrapped_dek = Encrypt(key, dek, sealed.kek_id)] :
      key \in LoadKek(newKek), dek \in UnwrapDek(sealed, oldKek)}
RewrapOldKey(sealed, oldKek, newKek, newKekId) ==
  {[sealed EXCEPT !.kek_id = newKekId,
                  !.wrapped_dek = Encrypt(oldKek, dek, newKekId)] :
      key \in LoadKek(newKek), dek \in UnwrapDek(sealed, oldKek)}
RewrapOldId(sealed, oldKek, newKek, newKekId) ==
  {[sealed EXCEPT !.wrapped_dek = Encrypt(key, dek, sealed.kek_id)] :
      key \in LoadKek(newKek), dek \in UnwrapDek(sealed, oldKek)}

\* The old and the new KEK must both load; the ciphertext is not touched.
Rewrap(sealed, oldKek, newKek, newKekId) ==
  {[version |-> sealed.version, kek_id |-> newKekId,
    wrapped_dek |-> Encrypt(key, dek, newKekId),
    ciphertext |-> sealed.ciphertext] :
      key \in LoadKek(newKek), dek \in UnwrapDek(sealed, oldKek)}

-----------------------------------------------------------------------------
(* The columns of a row are text.  from_columns raises for any other        *)
(* column, which no row written with to_columns has.                       *)

Base64(bytes) == <<"base64", bytes>>
B64Decode(text) == text[2]

ToColumns(sealed) ==
  [envelope_version |-> sealed.version, kek_id |-> sealed.kek_id,
   wrapped_dek |-> Base64(sealed.wrapped_dek),
   ciphertext |-> Base64(sealed.ciphertext)]

FromColumns(row) ==
  [version |-> row.envelope_version, kek_id |-> row.kek_id,
   wrapped_dek |-> B64Decode(row.wrapped_dek),
   ciphertext |-> B64Decode(row.ciphertext)]

-----------------------------------------------------------------------------
(* Types.  A DEK is named by the plaintext of the call that drew it: two   *)
(* calls never draw the same one.                                          *)

Wrapped == [key : Kek, body : Secret, aad : KekId]
Ciphertext == [key : Secret, body : Secret, aad : Cred]
Sealed == [version : {VERSION}, kek_id : KekId, wrapped_dek : Wrapped,
           ciphertext : Ciphertext]
Text(bytes) == {Base64(b) : b \in bytes}
Columns == [envelope_version : {VERSION}, kek_id : KekId,
            wrapped_dek : Text(Wrapped), ciphertext : Text(Ciphertext)]
=============================================================================
