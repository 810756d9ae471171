--------------------------- MODULE MCUrlIdentity ---------------------------
(***************************************************************************)
(* Origins that have one of everything: an escape of a delimiter, a letter *)
(* that is a hex digit, an empty value, a key without one, a repeated key. *)
(***************************************************************************)
EXTENDS UrlIdentity

CONSTANT h1

\* "A", "b", "%2F" and "%26"; the tracking parameters "u" and "C", the second
\* listed, as hsCtaTracking and trkCampaign are, with a capital.
A == <<65>>
b == <<98>>
Slash == <<37, 50, 70>>
Ampersand == <<37, 50, 54>>

MCTracking == {<<117>>, <<67>>}

At(path, query) ==
  [scheme |-> "https", host |-> h1, plain |-> TRUE, port |-> NoPort,
   path |-> path, query |-> query, fragment |-> FALSE]

Param(k, v) == [key |-> k, value |-> v, valued |-> TRUE]
Flag(k) == [key |-> k, value |-> <<>>, valued |-> FALSE]

MCOrigins ==
  {At(<< <<>> >>, <<>>),
   At(<<A, Slash>>, <<>>),
   At(<<A, <<>> >>, <<Flag(b), Flag(b)>>),
   At(<< <<>> >>, <<Param(A, Ampersand)>>),
   At(<<b>>, <<Param(b, <<>>), Param(A, b)>>)}
=============================================================================
