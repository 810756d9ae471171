---------------------------- MODULE UrlIdentity ----------------------------
(***************************************************************************)
(* neptiq_url.normalise: the identity of a URL is the normal form of it.   *)
(*                                                                         *)
(* A URL found on the web is spelled in many ways.  The state is one URL   *)
(* that is respelled, edited and put through the pipeline again, step by   *)
(* step, beside the one it was first found as.  Texts are sequences of     *)
(* bytes, since what happens to percent signs is what matters here.  The   *)
(* path is the sequence of its segments, the query that of its parts, as   *)
(* "/" and "&" divide them before anything is decoded.                     *)
(***************************************************************************)
EXTENDS Integers, FiniteSets, SequencesExt, Scans

CONSTANTS
  Origins,         \* URLs as they are first found
  TrackingParams,  \* TRACKING_PARAMS, as texts
  Hosts,           \* host names
  Ports,           \* ports that may be written
  NoPort,          \* no port is written
  MaxEdits         \* bound on the edits

Byte == 0..127   \* ASCII: what is not arrives as escapes of UTF-8
Text == Seq(Byte)

\* key, or key=value; between two "&" there is something.
PartType == {p \in [key : Text, value : Text, valued : BOOLEAN] :
               ~p.valued => p.key # <<>> /\ p.value = <<>>}

Url == [scheme : {"http", "https"},
        host : Hosts,
        plain : BOOLEAN,      \* scheme and host in lower case, no final dot
        port : Ports \cup {NoPort},
        path : Seq(Text) \ {<<>>},
        query : Seq(PartType),
        fragment : BOOLEAN]

DefaultPorts == [http |-> 80, https |-> 443]

ASSUME UrlAssumption ==
  /\ TrackingParams \subseteq Text
  /\ NoPort \notin Ports \cup {80, 443}
  /\ \A p \in Ports : p \in Nat /\ 0 < p /\ p < 65536
  /\ MaxEdits \in Nat
  /\ \A u \in Origins : u \in Url

-----------------------------------------------------------------------------
(* Bytes and escapes *)

PercentSign == 37
Plus == 43
Space == 32
Dot == <<46>>
DotDot == <<46, 46>>

\* Letters, digits and - . _ ~
Unreserved == (97..122) \cup (65..90) \cup (48..57) \cup {45, 46, 95, 126}

HexDigits == (48..57) \cup (65..70) \cup (97..102)
Pairs == HexDigits \X HexDigits

HexValue(c) == IF c <= 57 THEN c - 48 ELSE IF c <= 70 THEN c - 55 ELSE c - 87
Decoded == [p \in Pairs |-> 16 * HexValue(p[1]) + HexValue(p[2])]

HexDigit(n) == IF n < 10 THEN 48 + n ELSE 55 + n
Escape(b) == <<PercentSign, HexDigit(b \div 16), HexDigit(b % 16)>>

Upper(c) == IF c \in 97..122 THEN c - 32 ELSE c
LowerCase(s) == [i \in DOMAIN s |-> IF s[i] \in 65..90 THEN s[i] + 32 ELSE s[i]]

\* pairs: those that make an escape with the percent sign before them.
EscapeAt(s, i, pairs) ==
  i + 2 <= Len(s) /\ s[i] = PercentSign /\ <<s[i + 1], s[i + 2]>> \in pairs

IsEscape(s, i) == EscapeAt(s, i, Pairs)

\* The scan all decoders make: esc rewrites the digits of an escape, lit any
\* other byte.
Rewrite(s, esc, lit) ==
  LET from[i \in 1..(Len(s) + 3)] ==
        IF i > Len(s) THEN <<>>
        ELSE IF EscapeAt(s, i, DOMAIN esc) THEN esc[<<s[i + 1], s[i + 2]>>] \o from[i + 3]
        ELSE lit[s[i]] \o from[i + 1]
  IN from[1]

Literal == [c \in 0..255 |-> <<c>>]
Quoted == [c \in 0..255 |-> IF c \in Unreserved THEN <<c>> ELSE Escape(c)]
Unquoted == [p \in Pairs |-> <<Decoded[p]>>]
UpperEscape == [p \in Pairs |-> <<PercentSign, Upper(p[1]), Upper(p[2])>>]

Unquote(s) == Rewrite(s, Unquoted, Literal)

Quote(s) == Rewrite(s, [p \in {} |-> <<>>], Quoted)

DecodeUnreserved(s) ==
  Rewrite(s, [p \in Pairs |-> IF Decoded[p] \in Unreserved THEN Unquoted[p]
                              ELSE UpperEscape[p]],
          Literal)

\* Had the second loop quoted every byte that is not unreserved.
QuoteEscapesToo(s) == Quote(DecodeUnreserved(s))

LiteralsKept(s) == DecodeUnreserved(s)

\* _normalise_percent_encoding, within a segment or a part of the query, where
\* no byte is safe.
NormalisePercentEncoding(s) ==
  Rewrite(DecodeUnreserved(s), [p \in Pairs |-> <<PercentSign, p[1], p[2]>>], Quoted)

-----------------------------------------------------------------------------
(* normalise *)

DotStep(out, seg) ==
  IF seg \notin {Dot, DotDot} THEN Append(out, seg)
  ELSE IF seg = DotDot /\ out # <<>> /\ Last(out) # <<>> THEN Front(out)
  ELSE out

\* _resolve_dot_segments; the path of nothing is "/".
ResolveDotSegments(segs) ==
  LET out == Scan(segs, <<>>, DotStep)
  IN  IF out = <<>> THEN << <<>> >> ELSE out

\* parse_qsl: the first decoding of a key or a value.
Parsed(s) == Unquote([i \in DOMAIN s |-> IF s[i] = Plus THEN Space ELSE s[i]])

\* The second.
Canonical(s) == NormalisePercentEncoding(Quote(Unquote(s)))

\* The elements of seq at the positions in at.
Picked(seq, at) ==
  Scan([i \in DOMAIN seq |-> i], <<>>,
       LAMBDA out, i : IF i \in at THEN Append(out, seq[i]) ELSE out)

Tracks(p) == LowerCase(Parsed(p.key)) \in TrackingParams

BlanksDropped(q) ==
  LET kept == Picked(q, {i \in DOMAIN q : ~Tracks(q[i]) /\ q[i].value # <<>>})
  IN  [i \in DOMAIN kept |-> [key |-> Canonical(Parsed(kept[i].key)),
                              value |-> Canonical(Parsed(kept[i].value)),
                              valued |-> TRUE]]

\* _normalise_query: a part is written without "=" if its decoded key is the
\* raw text of some part that has none.
NormaliseQuery(q) ==
  LET kept == Picked(q, {i \in DOMAIN q : ~Tracks(q[i])})
      valueless == {q[i].key : i \in {j \in DOMAIN q : ~q[j].valued}}
      Out(p) == [key |-> Canonical(Parsed(p.key)),
                 value |-> Canonical(Parsed(p.value)),
                 valued |-> Parsed(p.key) \notin valueless \/ p.value # <<>>]
  IN  [i \in DOMAIN kept |-> Out(kept[i])]

Normalise(u) ==
  [scheme |-> u.scheme,
   host |-> u.host,
   plain |-> TRUE,
   port |-> IF u.port = DefaultPorts[u.scheme] THEN NoPort ELSE u.port,
   path |-> ResolveDotSegments(
              [i \in DOMAIN u.path |-> NormalisePercentEncoding(u.path[i])]),
   query |-> NormaliseQuery(u.query),
   fragment |-> FALSE]

-----------------------------------------------------------------------------
(* What the origin server is asked for, each text decoded once *)

\* A segment goes if, from it to a later "..", there are as many of these as
\* ordinary segments.
Cancelled(segs, i) ==
  \E j \in (i + 1)..Len(segs) :
    LET ups == {k \in i..j : segs[k] = DotDot}
        stays == {k \in i..j : segs[k] \notin {Dot, DotDot}}
    IN  Cardinality(ups) >= Cardinality(stays)

\* RFC 3986 section 5.2.4: a path that ends in a dot segment ends in "/".
Directory(segs) ==
  LET left == {i \in DOMAIN segs : /\ segs[i] \notin {Dot, DotDot}
                                   /\ ~Cancelled(segs, i)}
      kept == Picked(segs, left)
  IN  IF Last(segs) \in {Dot, DotDot} \/ left = {} THEN Append(kept, <<>>) ELSE kept

IsTracking(p) == \E t \in TrackingParams : LowerCase(t) = LowerCase(Parsed(p.key))

Meaning(u) ==
  LET parts == Picked(u.query, {i \in DOMAIN u.query : ~IsTracking(u.query[i])}) IN
  [scheme |-> u.scheme,
   host |-> u.host,
   port |-> IF u.port = NoPort THEN DefaultPorts[u.scheme] ELSE u.port,
   path |-> Directory([i \in DOMAIN u.path |-> Unquote(u.path[i])]),
   query |-> [i \in DOMAIN parts |-> [key |-> Parsed(parts[i].key),
                                      value |-> Parsed(parts[i].value),
                                      valued |-> parts[i].valued]]]

-----------------------------------------------------------------------------
(* The walk *)

VARIABLES
  origin,   \* the URL as it was first found
  url,      \* as it is spelled now
  edits

vars == <<origin, url, edits>>

Init ==
  /\ origin \in Origins
  /\ url = origin
  /\ edits = 0

Become(u) ==
  /\ edits < MaxEdits
  /\ url' = u
  /\ edits' = edits + 1
  /\ UNCHANGED origin

\* One byte is escaped, or a letter that may be a hex digit is in lower case.
Spellings(s) ==
  {SubSeq(s, 1, i - 1) \o Escape(s[i]) \o SubSeq(s, i + 1, Len(s)) : i \in DOMAIN s}
    \cup {[s EXCEPT ![i] = @ + 32] : i \in {j \in DOMAIN s : s[j] \in 65..70}}

SpellSegment ==
  \E i \in DOMAIN url.path : \E t \in Spellings(url.path[i]) :
    Become([url EXCEPT !.path[i] = t])

\* "./", "../", "a/../" or "/" before a segment, or ".." or "a/.." at the end.
AddSegments ==
  \/ \E i \in DOMAIN url.path,
        extra \in {<<Dot>>, <<DotDot>>, << <<97>>, DotDot>>, << <<>> >>} :
       Become([url EXCEPT !.path = SubSeq(@, 1, i - 1) \o extra \o SubSeq(@, i, Len(@))])
  \/ \E extra \in {<<DotDot>>, << <<97>>, DotDot>>} :
       Become([url EXCEPT !.path = @ \o extra])

SpellPart ==
  \E i \in DOMAIN url.query :
    \/ \E t \in Spellings(url.query[i].key) :
         Become([url EXCEPT !.query[i].key = t])
    \/ \E t \in Spellings(url.query[i].value) :
         Become([url EXCEPT !.query[i].value = t])

\* "key" for "key=" or the reverse.
ToggleEquals ==
  \E i \in DOMAIN url.query :
    /\ url.query[i].key # <<>> /\ url.query[i].value = <<>>
    /\ Become([url EXCEPT !.query[i].valued = ~@])

AddTracking ==
  \E i \in 1..(Len(url.query) + 1), t \in TrackingParams :
    Become([url EXCEPT !.query =
      InsertAt(@, i, [key |-> t, value |-> <<>>, valued |-> TRUE])])

SwapParts ==
  \E i \in 1..(Len(url.query) - 1) :
    Become([url EXCEPT !.query[i] = url.query[i + 1], !.query[i + 1] = url.query[i]])

SpellAuthority ==
  \/ Become([url EXCEPT !.plain = ~@])
  \/ \E p \in Ports \cup {NoPort} : p # url.port /\ Become([url EXCEPT !.port = p])
  \/ Become([url EXCEPT !.fragment = ~@])

\* A stored URL goes through the pipeline again.
Requeue ==
  /\ url' = Normalise(url)
  /\ UNCHANGED <<origin, edits>>

Next ==
  \/ SpellSegment \/ AddSegments
  \/ SpellPart \/ ToggleEquals \/ AddTracking \/ SwapParts
  \/ SpellAuthority
  \/ Requeue

Spec == Init /\ [][Next]_vars

-----------------------------------------------------------------------------
(* Properties *)

(***************************************************************************)
(* The spellings for which the identity is exact: each percent sign of the *)
(* path begins an escape, the path ends in no dot segment and has no empty *)
(* segment before a "..", no text of the query is encoded twice, a key     *)
(* that has no "=" is written as it is, in unreserved bytes, and not also  *)
(* with an empty value, and a parameter that is to be stripped is listed   *)
(* in lower case.                                                          *)
(***************************************************************************)
PlainPath(segs) ==
  /\ \A i \in DOMAIN segs : \A k \in DOMAIN segs[i] :
       segs[i][k] = PercentSign => IsEscape(segs[i], k)
  /\ Unquote(Last(segs)) \notin {Dot, DotDot}
  /\ \A i, j \in DOMAIN segs : i < j /\ segs[i] = <<>> => Unquote(segs[j]) # DotDot

EncodedOnce(s) == \A k \in DOMAIN Parsed(s) : ~IsEscape(Parsed(s), k)

PlainPart(q, i) ==
  /\ EncodedOnce(q[i].key) /\ EncodedOnce(q[i].value)
  /\ ~q[i].valued =>
       /\ \A k \in DOMAIN q[i].key : q[i].key[k] \in Unreserved
       /\ \A j \in DOMAIN q : q[j].valued /\ q[j].value = <<>> =>
            Parsed(q[j].key) # q[i].key
  /\ IsTracking(q[i]) => Tracks(q[i])

WellSpelled(u) == PlainPath(u.path) /\ \A i \in DOMAIN u.query : PlainPart(u.query, i)

(***************************************************************************)
(* normalise "must be injective" and is "the definition of URL identity    *)
(* everywhere": whatever respellings and edits a URL has been through, and *)
(* however often it was normalised in between, its form is that of the URL *)
(* it was found as exactly when the origin server is asked for the same.   *)
(***************************************************************************)
OneIdentity ==
  WellSpelled(url) /\ WellSpelled(origin) =>
    (Normalise(url) = Normalise(origin) <=> Meaning(url) = Meaning(origin))

(***************************************************************************)
(* A form is read back as it was written: it is a URL, its texts hold      *)
(* unreserved bytes and escapes alone, so that no delimiter appears or     *)
(* disappears, no part without "=" has an empty key or a value, and        *)
(* neither dot segments nor a default port are left.                       *)
(***************************************************************************)
Legible(s) ==
  \A k \in DOMAIN s : s[k] \in Unreserved \/ IsEscape(s, k)

FormReparses ==
  LET form == Normalise(url) IN
  /\ form \in Url
  /\ \A i \in DOMAIN form.path :
       Legible(form.path[i]) /\ form.path[i] \notin {Dot, DotDot}
  /\ \A i \in DOMAIN form.query :
       Legible(form.query[i].key) /\ Legible(form.query[i].value)
  /\ form.port # DefaultPorts[form.scheme]

(***************************************************************************)
(* A URL that is so spelled is at its form after one pass: a retry, which  *)
(* is one pass more, finds it under the same hash.                         *)
(***************************************************************************)
OnePassSettles ==
  WellSpelled(url) => LET form == Normalise(url) IN Normalise(form) = form

(***************************************************************************)
(* normalise's docstring: "Idempotent - normalise(normalise(u)) ==         *)
(* normalise(u)", "because a non-idempotent normaliser means the hash of a *)
(* URL depends on how many times it has been through the pipeline".        *)
(***************************************************************************)
Idempotent == Normalise(Normalise(url)) = Normalise(url)
=============================================================================
