---------------------------- MODULE TaintedText -----------------------------
(***************************************************************************)
(* packages/neptiq_security/.../taint.py: what a value from outside may    *)
(* become on its way into a model's context.                               *)
(*                                                                         *)
(* A value is a record: whether it is a "str" or some "other" object, and  *)
(* its characters.  A sentinel is three characters here; whatever else it  *)
(* is made of cannot matter to a replacement that looks for all of it.     *)
(***************************************************************************)
EXTENDS Scans, SequencesExt

_INVISIBLE == {"zwsp"}
_CONTROL == {"nul"}

SENTINEL_OPEN == <<"<", "open", ">">>
SENTINEL_CLOSE == <<"<", "close", ">">>
Removed == <<"removed">>
Newline == <<"nl">>
Marker == Newline \o <<"truncated">>

Without(chars, bad) ==
  Scan(chars, <<>>, LAMBDA kept, c : IF c \in bad THEN kept ELSE Append(kept, c))

\* str.replace: the leftmost occurrences that do not overlap.  After each
\* character, the text so far and how many of its characters are free, that is,
\* came after the last occurrence.
ReplaceNext(s, c, old, new) ==
  LET text == Append(s.text, c)
      occurs == s.free + 1 >= Len(old) /\ IsSuffix(old, text)
  IN IF occurs
     THEN [text |-> SubSeq(text, 1, Len(text) - Len(old)) \o new, free |-> 0]
     ELSE [text |-> text, free |-> s.free + 1]

Replace(chars, old, new) ==
  Scan(chars, [text |-> <<>>, free |-> 0], LAMBDA s, c : ReplaceNext(s, c, old, new)).text

\* repr writes an escape for what does not print.
Repr(chars) ==
  <<"quote">> \o [i \in DOMAIN chars |->
                    IF chars[i] \in _INVISIBLE \cup _CONTROL THEN "escape" ELSE chars[i]]
  \o <<"quote">>

\* Only strings are cleaned.
Sanitised(v) ==
  IF v.kind = "str" THEN Without(Without(v.chars, _INVISIBLE), _CONTROL) ELSE v.chars

Neutral(chars) == Replace(Replace(chars, SENTINEL_OPEN, Removed), SENTINEL_CLOSE, Removed)

Capped(chars, max_chars) ==
  IF Len(chars) > max_chars THEN SubSeq(chars, 1, max_chars) \o Marker ELSE chars

Framed(chars) == SENTINEL_OPEN \o Newline \o chars \o Newline \o SENTINEL_CLOSE

\* Mutant: the sentinels are looked for before the text is cleaned.
CleanedLast(v, max_chars) ==
  LET raw == IF v.kind = "str" THEN Neutral(v.chars) ELSE Neutral(Repr(v.chars))
  IN Framed(Capped(Sanitised([v EXCEPT !.chars = raw]), max_chars))

ForModel(v, max_chars) ==
  LET raw == Sanitised(v)
      text == IF v.kind = "str" THEN raw ELSE Repr(raw)
  IN Framed(Capped(Neutral(text), max_chars))
=============================================================================
