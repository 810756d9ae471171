---------------------------- MODULE Destination -----------------------------
(***************************************************************************)
(* packages/neptiq_security/.../ssrf.py: from a host as it was written to  *)
(* the one address that may be connected to.                               *)
(*                                                                         *)
(* An IPv4 address is <<4, n>> of four octets, which run to OctetMax here; *)
(* an IPv6 address is <<6, form, embedded>> with the set of IPv4 numbers   *)
(* that its form embeds: two for Teredo, the server's and the client's.    *)
(* A host is a record: "name" with a name, "metadata", "blank", "literal"  *)
(* with an address, or "numeric" with the fields between its dots, each a  *)
(* prefix ("0x", "0" or none) and the digits behind it.  A result is a     *)
(* set: empty where the code raises or has no answer.                      *)
(***************************************************************************)
EXTENDS Naturals, SequencesExt

CONSTANTS
  OctetMax,
  BlockedV4,       \* the numbers under the IPv4 networks of the table
  NotGlobalV4,     \* those the standard library calls non-global
  NotGlobalForms,  \* the IPv6 forms it calls so
  Garbled          \* an answer of the resolver that is no address

ASSUME OctetAssumption == OctetMax \in Nat

Octets == OctetMax + 1

\* What the pattern of a numeric host lets through and split makes of it.
Fielded(fields) ==
  /\ Len(fields) \in Nat \ {0} /\ DOMAIN fields = 1..Len(fields)
  /\ \A i \in DOMAIN fields : fields[i].prefix \in {"", "0", "0x"}

-----------------------------------------------------------------------------
(* Spellings of a number *)

ValueOf(digits, radix) == FoldLeft(LAMBDA n, d : n * radix + d, 0, digits)

\* int(): empty digits and digits the radix does not have raise.
Parse(digits, radix) ==
  IF digits = <<>> \/ \E i \in DOMAIN digits : digits[i] >= radix THEN {}
  ELSE {ValueOf(digits, radix)}

Part(field) ==
  CASE field.prefix = "0x" -> Parse(field.digits, 16)
    [] field.prefix = "0"  -> Parse(field.digits, 8)
    [] field.prefix = ""   -> Parse(field.digits, 10)

\* The value of each octet in a number, from the first to the last.
Weight == <<Octets * Octets * Octets, Octets * Octets, Octets, 1>>

\* The last of k fields takes all the octets that are left.
LastMax(k) == Octets * Weight[k] - 1

Pack(values) ==
  LET k == Len(values)
      octet(i) == IF i < k THEN values[i] * Weight[i] ELSE 0
  IN IF values[k] \in 0..LastMax(k) /\ \A i \in 1..(k - 1) : values[i] \in 0..OctetMax
     THEN {octet(1) + octet(2) + octet(3) + values[k]} ELSE {}

Dotted(fields) ==
  IF Len(fields) > 4 \/ \E i \in DOMAIN fields : Part(fields[i]) = {} THEN {}
  ELSE Pack([i \in DOMAIN fields |-> CHOOSE v \in Part(fields[i]) : TRUE])

\* A bare run of digits is decimal, also behind a leading zero.
CanonicaliseNumericHost(fields) ==
  IF Len(fields) = 1 /\ fields[1].prefix # "0x"
  THEN {v \in Parse(fields[1].digits, 10) : v \in 0..LastMax(1)}
  ELSE Dotted(fields)

-----------------------------------------------------------------------------
(* Addresses *)

BlockedForms == {"compatible", "nat64", "teredo", "sixtofour", "local", "loopback"}

BlockedNumber(n) == n \in BlockedV4 \cup NotGlobalV4

\* Mutant: a mapped address is taken for an IPv6 address like the others.
ClassifyUnmapped(ip) ==
  IF ip[1] = 4 THEN BlockedNumber(ip[2])
  ELSE ip[2] \in BlockedForms \cup NotGlobalForms

\* Whether there is a reason.  The embedded addresses are asked first; a mapped
\* address is nothing but its IPv4 form.
ClassifyIp(ip) ==
  IF ip[1] = 4 THEN BlockedNumber(ip[2])
  ELSE \/ /\ ip[2] \in {"mapped", "sixtofour", "teredo"}
          /\ \E n \in ip[3] : BlockedNumber(n)
       \/ ip[2] \in (BlockedForms \cup NotGlobalForms) \ {"mapped"}

\* A literal: no resolver.  Numbers are canonical before they are looked at.
Literal(host) ==
  CASE host.kind = "literal" -> {host.ip}
    [] host.kind = "numeric" -> {<<4, n>> : n \in CanonicaliseNumericHost(host.fields)}
    [] OTHER -> {}

\* answers is what the resolver gives when it is asked, <<>> when it raises.
ValidateDestination(scheme, host, answers) ==
  IF scheme \notin {"http", "https"} \/ host.kind \in {"blank", "metadata"} THEN {}
  ELSE IF Literal(host) # {} THEN {ip \in Literal(host) : ~ClassifyIp(ip)}
  ELSE IF answers = <<>> \/ \E i \in DOMAIN answers :
                              answers[i] = Garbled \/ ClassifyIp(answers[i])
  THEN {}
  ELSE {answers[1]}

\* Mutant: no hop is one too many.
ValidateAnyHop(scheme, host, answers, hop_index, max_hops) ==
  ValidateDestination(scheme, host, answers)

ValidateRedirectHop(scheme, host, answers, hop_index, max_hops) ==
  IF hop_index > max_hops THEN {} ELSE ValidateDestination(scheme, host, answers)
=============================================================================
