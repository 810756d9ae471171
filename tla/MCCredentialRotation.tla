------------------------ MODULE MCCredentialRotation ------------------------
(***************************************************************************)
(* One API process and one worker, two credentials, two KEKs and one that  *)
(* is malformed.                                                           *)
(***************************************************************************)
EXTENDS CredentialRotation

CONSTANTS api, worker, k1, k2, bad, none

MCIdOf == (k1 :> "kek1") @@ (k2 :> "kek2") @@ (bad :> "kek3")

Piece(text, upper) == [text |-> text, upper |-> upper]
neptiq == Piece("neptiq", FALSE)
NEPTIQ == Piece("neptiq", TRUE)
ev     == Piece("ev", FALSE)
app    == Piece("app", FALSE)
com    == Piece("com", FALSE)

MCEnv(name, kek, ceiling, public, evidence) ==
  [NEPTIQ_ENV |-> name, KEK_BASE64 |-> kek, CRAWL_MAX_URLS_CEILING |-> ceiling,
   NEPTIQ_PUBLIC_HOST |-> public, NEPTIQ_EVIDENCE_HOST |-> evidence]

Loud == <<NEPTIQ, DotPiece, com, DotPiece>>    \* NEPTIQ.com.
Near == <<ev, neptiq, DotPiece, com>>          \* evneptiq.com
Under == <<ev, DotPiece, neptiq, DotPiece, com>>
Beside == <<app, DotPiece, neptiq, DotPiece, com>>

MCPublicSuffix == {<< <<com>> >>}

MCEnvironments == {
  MCEnv("staging", k1, 1, Loud, Near),        \* serves
  MCEnv("production", k2, 1, Beside, Under),  \* serves: siblings
  MCEnv("dev", bad, 1, Loud, Under),          \* the API refuses, the worker runs
  MCEnv("prod", none, 0, Loud, <<>>)}         \* does not load
=============================================================================
