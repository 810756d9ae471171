------------------------- MODULE UrlIdentityProofs -------------------------
(***************************************************************************)
(* Theorems about UrlIdentity, for any URLs, tracking parameters, hosts,   *)
(* ports and bound.                                                        *)
(***************************************************************************)
EXTENDS UrlIdentity, ScanLemmas, FiniteSetTheorems

-----------------------------------------------------------------------------
(* Bytes in front of a text *)

Octets == 0..255
Strings == Seq(Octets)

LEMMA Digits ==
  /\ HexDigits \subseteq Unreserved /\ Unreserved \subseteq Byte /\ Byte \subseteq Octets
  /\ PercentSign \in Byte /\ PercentSign \notin Unreserved
  /\ Plus \in Byte /\ Plus \notin Unreserved /\ Space \in Byte
BY DEF HexDigits, Unreserved, Byte, Octets, PercentSign, Plus, Space

LEMMA ConsAt ==
  ASSUME NEW c \in Octets, NEW t \in Strings
  PROVE  /\ <<c>> \o t \in Strings /\ Len(t) \in Nat
         /\ Len(<<c>> \o t) = Len(t) + 1
         /\ (<<c>> \o t)[1] = c
         /\ \A i \in 1..Len(t) : (<<c>> \o t)[i + 1] = t[i]
<1>1. <<c>> \in Seq(Octets) /\ t \in Seq(Octets)
  BY DEF Strings
<1>2. Len(<<c>>) = 1 /\ <<c>>[1] = c
  OBVIOUS
<1> DEFINE s == <<c>> \o t
           one == <<c>>
<1>3. /\ s \in Seq(Octets) /\ Len(one) \in Nat /\ Len(t) \in Nat
      /\ Len(s) = Len(one) + Len(t)
      /\ \A i \in 1..Len(one) : s[i] = one[i]
      /\ \A i \in 1..Len(t) : s[Len(one) + i] = t[i]
  BY <1>1, JoinedAt
<1> HIDE DEF s, one
<1>4. Len(one) = 1 /\ one[1] = c
  BY <1>2 DEF one
<1>5. \A i \in 1..Len(t) : s[i + 1] = t[i]
  BY <1>3, <1>4
<1> QED
  BY <1>3, <1>4, <1>5 DEF s, Strings

LEMMA TripleAt ==
  ASSUME NEW a \in Octets, NEW h \in Octets, NEW l \in Octets, NEW t \in Strings
  PROVE  /\ <<a, h, l>> \o t \in Strings /\ Len(t) \in Nat
         /\ Len(<<a, h, l>> \o t) = Len(t) + 3
         /\ (<<a, h, l>> \o t)[1] = a
         /\ (<<a, h, l>> \o t)[2] = h
         /\ (<<a, h, l>> \o t)[3] = l
         /\ \A i \in 1..Len(t) : (<<a, h, l>> \o t)[i + 3] = t[i]
<1>1. <<a, h, l>> \in Seq(Octets) /\ t \in Seq(Octets)
  BY DEF Strings
<1>2. Len(<<a, h, l>>) = 3 /\ <<a, h, l>>[1] = a /\ <<a, h, l>>[2] = h /\ <<a, h, l>>[3] = l
  OBVIOUS
<1> DEFINE s == <<a, h, l>> \o t
           trio == <<a, h, l>>
<1>3. /\ s \in Seq(Octets) /\ Len(trio) \in Nat /\ Len(t) \in Nat
      /\ Len(s) = Len(trio) + Len(t)
      /\ \A i \in 1..Len(trio) : s[i] = trio[i]
      /\ \A i \in 1..Len(t) : s[Len(trio) + i] = t[i]
  BY <1>1, JoinedAt
<1> HIDE DEF s, trio
<1>4. Len(trio) = 3 /\ trio[1] = a /\ trio[2] = h /\ trio[3] = l
  BY <1>2 DEF trio
<1>5. \A i \in 1..Len(t) : s[i + 3] = t[i]
  BY <1>3, <1>4
<1>6. s[1] = a /\ s[2] = h /\ s[3] = l
  BY <1>3, <1>4
<1> QED
  BY <1>3, <1>4, <1>5, <1>6 DEF s, Strings

\* What follows the first n bytes.
LEMMA Dropped ==
  ASSUME NEW s \in Strings, NEW n \in 0..Len(s)
  PROVE  \E t \in Strings : /\ Len(t) = Len(s) - n
                            /\ \A i \in 1..Len(t) : t[i] = s[i + n]
<1> DEFINE t == [i \in 1..(Len(s) - n) |-> s[i + n]]
<1>1. Len(s) \in Nat /\ Len(s) - n \in Nat /\ \A i \in 1..Len(s) : s[i] \in Octets
  BY DEF Strings
<1>2. t \in [1..(Len(s) - n) -> Octets]
  BY <1>1
<1>3. t \in Strings /\ Len(t) = Len(s) - n
  BY <1>1, <1>2, IsSeqOf DEF Strings
<1>4. \A i \in 1..Len(t) : t[i] = s[i + n]
  BY <1>1, <1>3
<1> HIDE DEF t
<1> QED
  BY <1>3, <1>4

\* A text that is not empty is a byte before a text.
LEMMA Peeled ==
  ASSUME NEW s \in Strings, s # <<>>
  PROVE  \E c \in Octets, t \in Strings : s = <<c>> \o t /\ Len(s) = Len(t) + 1
<1>1. Len(s) \in Nat \ {0} /\ \A i \in 1..Len(s) : s[i] \in Octets
  BY DEF Strings
<1>2. PICK t \in Strings : Len(t) = Len(s) - 1 /\ \A i \in 1..Len(t) : t[i] = s[i + 1]
  <2>1. 1 \in 0..Len(s)
    BY <1>1
  <2> QED BY <2>1, Dropped
<1> DEFINE c == s[1]
           r == <<c>> \o t
<1>3. c \in Octets
  BY <1>1
<1> HIDE DEF c
<1>4. /\ r \in Strings /\ Len(t) \in Nat /\ Len(r) = Len(t) + 1 /\ r[1] = c
      /\ \A i \in 1..Len(t) : r[i + 1] = t[i]
  BY <1>3, ConsAt
<1> HIDE DEF r
<1>5. ASSUME NEW i \in 1..Len(s) PROVE s[i] = r[i]
  <2>1. CASE i = 1
    BY <1>4, <2>1 DEF c
  <2>2. CASE i # 1
    <3>1. i - 1 \in 1..Len(t) /\ (i - 1) + 1 = i
      BY <1>1, <1>2, <2>2
    <3> QED BY <1>2, <1>4, <3>1
  <2> QED BY <2>1, <2>2
<1>6. s = r
  BY <1>1, <1>2, <1>4, <1>5, SeqEqual DEF Strings
<1> QED
  BY <1>2, <1>3, <1>4, <1>6 DEF r

\* One that begins with an escape is this escape before a text.
LEMMA PeeledEscape ==
  ASSUME NEW s \in Strings, IsEscape(s, 1)
  PROVE  \E h \in HexDigits, l \in HexDigits, t \in Strings :
           s = <<PercentSign, h, l>> \o t /\ Len(s) = Len(t) + 3
<1>1. Len(s) \in Nat /\ Len(s) >= 3 /\ s[1] = PercentSign
      /\ s[2] \in HexDigits /\ s[3] \in HexDigits
  BY DEF Strings, IsEscape, EscapeAt, Pairs
<1>2. PICK t \in Strings : Len(t) = Len(s) - 3 /\ \A i \in 1..Len(t) : t[i] = s[i + 3]
  BY <1>1, Dropped
<1> DEFINE h == s[2]
           l == s[3]
           r == <<PercentSign, h, l>> \o t
<1>3. h \in HexDigits /\ l \in HexDigits
  BY <1>1
<1> HIDE DEF h, l
<1>4. PercentSign \in Octets /\ h \in Octets /\ l \in Octets
  BY <1>3, Digits
<1>5. /\ r \in Strings /\ Len(t) \in Nat /\ Len(r) = Len(t) + 3
      /\ r[1] = PercentSign /\ r[2] = h /\ r[3] = l
      /\ \A i \in 1..Len(t) : r[i + 3] = t[i]
  BY <1>4, TripleAt
<1> HIDE DEF r
<1>6. ASSUME NEW i \in 1..Len(s) PROVE s[i] = r[i]
  <2>1. CASE i \in 1..3
    BY <1>1, <1>5, <2>1 DEF h, l
  <2>2. CASE i \notin 1..3
    <3>1. i - 3 \in 1..Len(t) /\ (i - 3) + 3 = i
      BY <1>1, <1>2, <2>2
    <3> QED BY <1>2, <1>5, <3>1
  <2> QED BY <2>1, <2>2
<1>7. s = r
  BY <1>1, <1>2, <1>5, <1>6, SeqEqual DEF Strings
<1> QED
  BY <1>2, <1>3, <1>5, <1>7 DEF r

\* What holds of the empty text and of whatever is put before a text of which
\* it holds, an escape at a time where there is one, holds of all.
LEMMA TextInduction ==
  ASSUME NEW T, <<>> \in T,
         \A c \in Octets, t \in Strings :
           t \in T /\ ~IsEscape(<<c>> \o t, 1) => <<c>> \o t \in T,
         \A h \in HexDigits, l \in HexDigits, t \in Strings :
           t \in T => <<PercentSign, h, l>> \o t \in T
  PROVE  Strings \subseteq T
<1> SUFFICES ASSUME NEW s \in Strings PROVE s \in T
  OBVIOUS
<1> DEFINE L == {n \in 0..Len(s) : \A t \in Strings : Len(t) <= n => t \in T}
<1>1. Len(s) \in Nat /\ \A t \in Strings : Len(t) \in Nat
  BY DEF Strings
<1>2. 0 \in L
  <2>1. \A t \in Strings : Len(t) <= 0 => t = <<>>
    BY DEF Strings
  <2> QED BY <1>1, <2>1
<1>3. ASSUME NEW n \in 0..(Len(s) - 1), n \in L PROVE n + 1 \in L
  <2>1. n + 1 \in 0..Len(s) /\ n \in Nat
    BY <1>1
  <2>2. ASSUME NEW t \in Strings, Len(t) <= n + 1, t # <<>> PROVE t \in T
    <3>1. CASE IsEscape(t, 1)
      <4>1. PICK h \in HexDigits, l \in HexDigits, r \in Strings :
              t = <<PercentSign, h, l>> \o r /\ Len(t) = Len(r) + 3
        BY <3>1, PeeledEscape
      <4>2. Len(r) <= n
        BY <1>1, <2>1, <2>2, <4>1
      <4> QED BY <1>3, <4>1, <4>2
    <3>2. CASE ~IsEscape(t, 1)
      <4>1. PICK c \in Octets, r \in Strings : t = <<c>> \o r /\ Len(t) = Len(r) + 1
        BY <2>2, Peeled
      <4>2. Len(r) <= n
        BY <1>1, <2>1, <2>2, <4>1
      <4> QED BY <1>3, <3>2, <4>1, <4>2
    <3> QED BY <3>1, <3>2
  <2> QED BY <2>1, <2>2
<1> HIDE DEF L
<1>4. 0..Len(s) \subseteq L
  BY <1>1, <1>2, <1>3, Induction
<1>5. Len(s) \in L
  BY <1>1, <1>4
<1> QED
  BY <1>1, <1>5 DEF L

\* The same a byte at a time.
LEMMA ByteInduction ==
  ASSUME NEW T, <<>> \in T,
         \A c \in Octets, t \in Strings : t \in T => <<c>> \o t \in T
  PROVE  Strings \subseteq T
<1> SUFFICES ASSUME NEW s \in Strings PROVE s \in T
  OBVIOUS
<1> DEFINE L == {n \in 0..Len(s) : \A t \in Strings : Len(t) <= n => t \in T}
<1>1. Len(s) \in Nat /\ \A t \in Strings : Len(t) \in Nat
  BY DEF Strings
<1>2. 0 \in L
  <2>1. \A t \in Strings : Len(t) <= 0 => t = <<>>
    BY DEF Strings
  <2> QED BY <1>1, <2>1
<1>3. ASSUME NEW n \in 0..(Len(s) - 1), n \in L PROVE n + 1 \in L
  <2>1. n + 1 \in 0..Len(s) /\ n \in Nat
    BY <1>1
  <2>2. ASSUME NEW t \in Strings, Len(t) <= n + 1, t # <<>> PROVE t \in T
    <3>1. PICK c \in Octets, r \in Strings : t = <<c>> \o r /\ Len(t) = Len(r) + 1
      BY <2>2, Peeled
    <3>2. Len(r) <= n
      BY <1>1, <2>1, <2>2, <3>1
    <3> QED BY <1>3, <3>1, <3>2
  <2> QED BY <2>1, <2>2
<1> HIDE DEF L
<1>4. 0..Len(s) \subseteq L
  BY <1>1, <1>2, <1>3, Induction
<1>5. Len(s) \in L
  BY <1>1, <1>4
<1> QED
  BY <1>1, <1>5 DEF L

-----------------------------------------------------------------------------
(* The scan *)

\* What the decoders write for escapes and for bytes.
Table(esc) == DOMAIN esc \subseteq Pairs /\ esc \in [DOMAIN esc -> Strings]
Bytes(lit) == lit \in [Octets -> Strings]

\* f is what the scan of s comes to from each position.
ScanOf(f, s, esc, lit) ==
  /\ f \in [1..(Len(s) + 3) -> Strings]
  /\ \A i \in 1..(Len(s) + 3) :
       /\ i > Len(s) => f[i] = <<>>
       /\ i <= Len(s) /\ EscapeAt(s, i, DOMAIN esc) =>
            f[i] = esc[<<s[i + 1], s[i + 2]>>] \o f[i + 3]
       /\ i <= Len(s) /\ ~EscapeAt(s, i, DOMAIN esc) => f[i] = lit[s[i]] \o f[i + 1]

LEMMA ScanExists ==
  ASSUME NEW s \in Strings, NEW esc, NEW lit, Table(esc), Bytes(lit)
  PROVE  \E f : ScanOf(f, s, esc, lit)
<1> DEFINE P == DOMAIN esc
           n == Len(s)
           S == Strings \X Strings \X Strings
           base == << <<>>, <<>>, <<>> >>
           At(x, y, i) == IF EscapeAt(s, i, P) THEN esc[<<s[i + 1], s[i + 2]>>] \o y
                          ELSE lit[s[i]] \o x
           step == [p \in S \X (1..n) |-> <<At(p[1][1], p[1][3], (n + 1) - p[2]), p[1][1], p[1][2]>>]
<1>0. P \in SUBSET Pairs /\ esc \in [P -> Strings] /\ lit \in [Octets -> Strings]
  BY DEF Table, Bytes
<1>1. n \in Nat /\ \A i \in 1..n : s[i] \in Octets
  BY DEF Strings
<1> HIDE DEF P
<1>2. \A x, y \in Strings : x \o y \in Strings
  BY ConcatProperties DEF Strings
<1>3. base \in S
  <2>1. <<>> \in Strings
    BY DEF Strings
  <2> QED BY <2>1
<1>4. ASSUME NEW x \in Strings, NEW y \in Strings, NEW i \in 1..n PROVE At(x, y, i) \in Strings
  <2>1. CASE EscapeAt(s, i, P)
    <3>1. esc[<<s[i + 1], s[i + 2]>>] \in Strings
      BY <1>0, <2>1 DEF EscapeAt
    <3> QED BY <1>2, <2>1, <3>1
  <2>2. CASE ~EscapeAt(s, i, P)
    <3>1. lit[s[i]] \in Strings
      BY <1>0, <1>1
    <3> QED BY <1>2, <2>2, <3>1
  <2> QED BY <2>1, <2>2
<1>5. ASSUME NEW x \in Strings, NEW y \in Strings, NEW z \in Strings, NEW k \in 1..n
      PROVE  /\ step[<< <<x, y, z>>, k>>] = <<At(x, z, (n + 1) - k), x, y>>
             /\ step[<< <<x, y, z>>, k>>] \in S
  <2>1. (n + 1) - k \in 1..n
    BY <1>1
  <2>2. At(x, z, (n + 1) - k) \in Strings
    BY <1>4, <2>1
  <2> HIDE DEF At
  <2> QED BY <2>2
<1>6. step \in [S \X (1..n) -> S]
  <2>1. ASSUME NEW p \in S \X (1..n) PROVE step[p] \in S
    <3>1. PICK x \in Strings, y \in Strings, z \in Strings, k \in 1..n : p = << <<x, y, z>>, k>>
      OBVIOUS
    <3> HIDE DEF step, S
    <3> QED BY <1>5, <3>1
  <2> HIDE DEF At
  <2> QED BY <2>1
<1> HIDE DEF step, At, base, n
<1>7. PICK g : Recurses(g, n, S, base, step)
  <2> HIDE DEF S
  <2> QED BY <1>1, <1>3, <1>6, Recursion
<1>8. /\ g \in [0..n -> S] /\ g[0] = base
      /\ \A k \in 1..n : g[k] = step[<<g[k - 1], k>>]
  <2> HIDE DEF S
  <2> QED BY <1>7 DEF Recurses
<1>9. ASSUME NEW k \in 0..n
      PROVE  /\ g[k][1] \in Strings /\ g[k][2] \in Strings /\ g[k][3] \in Strings
             /\ g[k] = <<g[k][1], g[k][2], g[k][3]>>
  BY <1>8
<1>10. ASSUME NEW k \in 1..n
       PROVE  /\ g[k][1] = At(g[k - 1][1], g[k - 1][3], (n + 1) - k)
              /\ g[k][2] = g[k - 1][1] /\ g[k][3] = g[k - 1][2]
  <2>1. k - 1 \in 0..n
    BY <1>1
  <2>2. /\ g[k - 1][1] \in Strings /\ g[k - 1][2] \in Strings /\ g[k - 1][3] \in Strings
        /\ g[k - 1] = <<g[k - 1][1], g[k - 1][2], g[k - 1][3]>>
    BY <1>9, <2>1
  <2>3. g[k] = step[<<g[k - 1], k>>]
    BY <1>8
  <2> DEFINE x == g[k - 1][1]
             y == g[k - 1][2]
             z == g[k - 1][3]
  <2>4. g[k] = step[<< <<x, y, z>>, k>>] /\ x \in Strings /\ y \in Strings /\ z \in Strings
    BY <2>2, <2>3
  <2> HIDE DEF x, y, z
  <2>5. g[k] = <<At(x, z, (n + 1) - k), x, y>>
    BY <1>5, <2>4
  <2>6. g[k][1] = At(x, z, (n + 1) - k) /\ g[k][2] = x /\ g[k][3] = y
    BY <2>5
  <2> QED BY <2>6 DEF x, y, z
<1>11. g[0][1] = <<>> /\ g[0][2] = <<>> /\ g[0][3] = <<>>
  BY <1>8 DEF base
<1> DEFINE f == [i \in 1..(n + 3) |-> IF i > n THEN <<>> ELSE g[(n + 1) - i][1]]
<1>12. <<>> \in Strings
  BY DEF Strings
<1>13. \A i \in 1..n : (n + 1) - i \in 1..n /\ (n + 1) - i \in 0..n /\ (n + 1) - ((n + 1) - i) = i
  BY <1>1
<1>14. f \in [1..(n + 3) -> Strings]
  <2>1. \A i \in 1..(n + 3) : i > n \/ i \in 1..n
    BY <1>1
  <2> QED BY <1>9, <1>12, <1>13, <2>1
<1>15. ASSUME NEW i \in 1..n PROVE f[i + 1] = g[n - i][1] /\ f[i + 3] = g[n - i][3]
  <2>1. i + 1 \in 1..(n + 3) /\ i + 3 \in 1..(n + 3) /\ n - i \in 0..n
    BY <1>1
  <2>2. f[i + 1] = g[n - i][1]
    <3>1. CASE i = n
      <4>1. n - i = 0 /\ i + 1 > n
        BY <1>1, <3>1
      <4> QED BY <1>11, <2>1, <4>1
    <3>2. CASE i # n
      <4>1. ~(i + 1 > n) /\ (n + 1) - (i + 1) = n - i
        BY <1>1, <3>2
      <4> QED BY <2>1, <4>1
    <3> QED BY <3>1, <3>2
  <2>3. f[i + 3] = g[n - i][3]
    <3>1. CASE n - i = 0
      <4>1. i + 3 > n
        BY <1>1, <3>1
      <4> QED BY <1>11, <2>1, <3>1, <4>1
    <3>2. CASE n - i = 1
      <4>1. i + 3 > n /\ 1 \in 1..n /\ 1 - 1 = 0
        BY <1>1, <3>2
      <4>2. g[1][3] = g[0][2]
        BY <1>10, <4>1
      <4> QED BY <1>11, <2>1, <3>2, <4>1, <4>2
    <3>3. CASE n - i >= 2
      <4>1. n - i \in 1..n /\ (n - i) - 1 \in 1..n /\ ((n - i) - 1) - 1 = (n + 1) - (i + 3)
        BY <1>1, <3>3
      <4>2. g[n - i][3] = g[(n - i) - 1][2]
        BY <1>10, <4>1
      <4>3. g[(n - i) - 1][2] = g[((n - i) - 1) - 1][1]
        BY <1>10, <4>1
      <4>4. CASE i + 3 <= n
        <5>1. f[i + 3] = g[(n + 1) - (i + 3)][1]
          BY <1>1, <2>1, <4>4
        <5> QED BY <4>1, <4>2, <4>3, <5>1
      <4>5. CASE ~(i + 3 <= n)
        <5>1. ((n - i) - 1) - 1 = 0 /\ i + 3 > n
          BY <1>1, <3>3, <4>5
        <5> QED BY <1>11, <2>1, <4>2, <4>3, <5>1
      <4> QED BY <4>4, <4>5
    <3> QED BY <1>1, <2>1, <3>1, <3>2, <3>3
  <2> QED BY <2>2, <2>3
<1>16. ASSUME NEW i \in 1..n PROVE f[i] = At(f[i + 1], f[i + 3], i)
  <2>1. i \in 1..(n + 3) /\ ~(i > n) /\ ((n + 1) - i) - 1 = n - i
    BY <1>1
  <2>2. f[i] = g[(n + 1) - i][1]
    BY <2>1
  <2>3. g[(n + 1) - i][1] = At(g[n - i][1], g[n - i][3], i)
    BY <1>10, <1>13, <2>1
  <2> HIDE DEF f
  <2> QED BY <1>15, <2>2, <2>3
<1>17. \A i \in 1..(n + 3) : i > n => f[i] = <<>>
  OBVIOUS
<1>18. DOMAIN esc = P
  BY DEF P
<1> HIDE DEF f
<1>19. ASSUME NEW i \in 1..(n + 3), i <= n
       PROVE  f[i] = IF EscapeAt(s, i, P) THEN esc[<<s[i + 1], s[i + 2]>>] \o f[i + 3]
                     ELSE lit[s[i]] \o f[i + 1]
  BY <1>1, <1>16, <1>19 DEF At
<1>20. ScanOf(f, s, esc, lit)
  BY <1>14, <1>17, <1>18, <1>19 DEF ScanOf, n
<1> QED
  BY <1>20
LEMMA RewriteScans ==
  ASSUME NEW s \in Strings, NEW esc, NEW lit, Table(esc), Bytes(lit)
  PROVE  \E f : ScanOf(f, s, esc, lit) /\ Rewrite(s, esc, lit) = f[1]
<1> DEFINE Rec(f) == [i \in 1..(Len(s) + 3) |->
                        IF i > Len(s) THEN <<>>
                        ELSE IF EscapeAt(s, i, DOMAIN esc)
                             THEN esc[<<s[i + 1], s[i + 2]>>] \o f[i + 3]
                        ELSE lit[s[i]] \o f[i + 1]]
           g == CHOOSE f : f = Rec(f)
<1>1. Len(s) \in Nat
  BY DEF Strings
<1>2. Rewrite(s, esc, lit) = g[1]
  BY DEF Rewrite
<1>3. PICK f : ScanOf(f, s, esc, lit)
  BY ScanExists
<1>4. f = Rec(f)
  <2>1. ASSUME NEW i \in 1..(Len(s) + 3) PROVE f[i] = Rec(f)[i]
    <3>1. CASE i > Len(s)
      BY <1>1, <1>3, <3>1 DEF ScanOf
    <3>2. CASE ~(i > Len(s)) /\ EscapeAt(s, i, DOMAIN esc)
      <4>1. i <= Len(s)
        BY <1>1, <3>2
      <4>2. f[i] = esc[<<s[i + 1], s[i + 2]>>] \o f[i + 3]
        BY <1>3, <3>2, <4>1 DEF ScanOf
      <4> QED BY <3>2, <4>2
    <3>3. CASE ~(i > Len(s)) /\ ~EscapeAt(s, i, DOMAIN esc)
      <4>1. i <= Len(s)
        BY <1>1, <3>3
      <4>2. f[i] = lit[s[i]] \o f[i + 1]
        BY <1>3, <3>3, <4>1 DEF ScanOf
      <4> QED BY <3>3, <4>2
    <3> QED BY <3>1, <3>2, <3>3
  <2>2. f = [i \in 1..(Len(s) + 3) |-> f[i]]
    BY <1>3 DEF ScanOf
  <2> QED BY <2>1, <2>2
<1>5. g = Rec(g)
  <2> HIDE DEF Rec
  <2> QED BY <1>4
<1> HIDE DEF g
<1>6. \A i \in 1..(Len(s) + 3) : g[i] = Rec(g)[i]
  BY <1>5
<1> DEFINE T == {k \in 0..(Len(s) + 2) : \A i \in 1..(Len(s) + 3) :
                                            i >= (Len(s) + 3) - k => g[i] = f[i]}
<1>7. 0 \in T
  <2>1. ASSUME NEW i \in 1..(Len(s) + 3), i >= (Len(s) + 3) - 0 PROVE g[i] = f[i]
    <3>1. i > Len(s)
      BY <1>1, <2>1
    <3> QED BY <1>3, <1>6, <3>1 DEF ScanOf
  <2> QED BY <1>1, <2>1
<1>8. ASSUME NEW k \in 0..((Len(s) + 2) - 1), k \in T PROVE k + 1 \in T
  <2>1. ASSUME NEW i \in 1..(Len(s) + 3), i >= (Len(s) + 3) - (k + 1) PROVE g[i] = f[i]
    <3>1. CASE i > Len(s)
      BY <1>3, <1>6, <3>1 DEF ScanOf
    <3>2. CASE ~(i > Len(s))
      <4>1. /\ i <= Len(s) /\ i + 1 \in 1..(Len(s) + 3) /\ i + 3 \in 1..(Len(s) + 3)
            /\ i + 1 >= (Len(s) + 3) - k /\ i + 3 >= (Len(s) + 3) - k
        BY <1>1, <2>1, <3>2
      <4>2. g[i + 1] = f[i + 1] /\ g[i + 3] = f[i + 3]
        BY <1>8, <4>1
      <4>3. g[i] = IF EscapeAt(s, i, DOMAIN esc)
                   THEN esc[<<s[i + 1], s[i + 2]>>] \o g[i + 3]
                   ELSE lit[s[i]] \o g[i + 1]
        BY <1>6, <3>2
      <4>4. f[i] = IF EscapeAt(s, i, DOMAIN esc)
                   THEN esc[<<s[i + 1], s[i + 2]>>] \o f[i + 3]
                   ELSE lit[s[i]] \o f[i + 1]
        BY <1>3, <4>1 DEF ScanOf
      <4> QED BY <4>2, <4>3, <4>4
    <3> QED BY <3>1, <3>2
  <2>2. k + 1 \in 0..(Len(s) + 2)
    BY <1>1
  <2> QED BY <2>1, <2>2
<1> HIDE DEF T
<1>9. 0..(Len(s) + 2) \subseteq T
  <2>1. Len(s) + 2 \in Nat
    BY <1>1
  <2> QED BY <1>7, <1>8, <2>1, Induction
<1>10. g[1] = f[1]
  <2>1. Len(s) + 2 \in T
    BY <1>1, <1>9
  <2>2. 1 \in 1..(Len(s) + 3) /\ 1 >= (Len(s) + 3) - (Len(s) + 2)
    BY <1>1
  <2> QED BY <2>1, <2>2 DEF T
<1> QED
  BY <1>2, <1>3, <1>10
\* s is t with d bytes in front.
Behind(d, t, s) == Len(s) = Len(t) + d /\ \A k \in 1..Len(t) : s[k + d] = t[k]

\* Escapes are where they were, when bytes are put in front.
LEMMA EscapeShifted ==
  ASSUME NEW s \in Strings, NEW t \in Strings, NEW P, NEW d \in Nat, Behind(d, t, s)
  PROVE  \A i \in 1..Len(t) :
           /\ EscapeAt(s, i + d, P) <=> EscapeAt(t, i, P)
           /\ EscapeAt(t, i, P) => s[(i + d) + 1] = t[i + 1] /\ s[(i + d) + 2] = t[i + 2]
<1> SUFFICES ASSUME NEW i \in 1..Len(t)
             PROVE  /\ EscapeAt(s, i + d, P) <=> EscapeAt(t, i, P)
                    /\ EscapeAt(t, i, P) =>
                         s[(i + d) + 1] = t[i + 1] /\ s[(i + d) + 2] = t[i + 2]
  OBVIOUS
<1>0. Len(s) = Len(t) + d /\ \A k \in 1..Len(t) : s[k + d] = t[k]
  BY DEF Behind
<1>1. Len(s) \in Nat /\ Len(t) \in Nat
  BY DEF Strings
<1>2. (i + d) + 2 <= Len(s) <=> i + 2 <= Len(t)
  BY <1>0, <1>1
<1>3. ASSUME i + 2 <= Len(t) PROVE s[(i + d) + 1] = t[i + 1] /\ s[(i + d) + 2] = t[i + 2]
  <2>1. /\ i + 1 \in 1..Len(t) /\ i + 2 \in 1..Len(t)
        /\ (i + d) + 1 = (i + 1) + d /\ (i + d) + 2 = (i + 2) + d
    BY <1>1, <1>3
  <2> QED BY <1>0, <2>1
<1>4. s[i + d] = t[i]
  BY <1>0
<1> QED
  BY <1>2, <1>3, <1>4 DEF EscapeAt

\* Two scans agree where what they read is the same from there on.
LEMMA ScansAgree ==
  ASSUME NEW s \in Strings, NEW t \in Strings, NEW esc, NEW lit, NEW f, NEW g,
         ScanOf(f, s, esc, lit), ScanOf(g, t, esc, lit),
         NEW d \in Nat, Behind(d, t, s)
  PROVE  f[d + 1] = g[1]
<1>1. /\ Len(s) \in Nat /\ Len(t) \in Nat
      /\ Len(s) = Len(t) + d /\ \A i \in 1..Len(t) : s[i + d] = t[i]
  BY DEF Strings, Behind
<1> DEFINE n == Len(t) + 2
           T == {k \in 0..n : \A i \in 1..(n + 1) : i >= (n + 1) - k => f[i + d] = g[i]}
<1>2. \A i \in 1..(n + 1) : i + d \in 1..(Len(s) + 3) /\ (i > Len(t) <=> i + d > Len(s))
  BY <1>1
<1>3. ASSUME NEW i \in 1..(n + 1), i > Len(t) PROVE f[i + d] = g[i]
  <2>1. i + d > Len(s) /\ i + d \in 1..(Len(s) + 3) /\ i \in 1..(Len(t) + 3)
    BY <1>1, <1>2, <1>3
  <2> QED BY <1>3, <2>1 DEF ScanOf
<1>4. \A i \in 1..Len(t) :
        /\ EscapeAt(s, i + d, DOMAIN esc) <=> EscapeAt(t, i, DOMAIN esc)
        /\ EscapeAt(t, i, DOMAIN esc) => s[(i + d) + 1] = t[i + 1] /\ s[(i + d) + 2] = t[i + 2]
  <2> HIDE DEF n, T
  <2> QED BY EscapeShifted
<1>5. 0 \in T
  <2>1. \A i \in 1..(n + 1) : i >= (n + 1) - 0 => i > Len(t)
    BY <1>1
  <2> HIDE DEF n
  <2>2. 0 \in 0..n
    BY <1>1 DEF n
  <2> QED BY <1>3, <2>1, <2>2
<1>6. ASSUME NEW k \in 0..(n - 1), k \in T PROVE k + 1 \in T
  <2>1. ASSUME NEW i \in 1..(n + 1), i >= (n + 1) - (k + 1) PROVE f[i + d] = g[i]
    <3>1. CASE i > Len(t)
      BY <1>3, <3>1
    <3>2. CASE ~(i > Len(t))
      <4>1. /\ i \in 1..Len(t) /\ i <= Len(t) /\ i + d <= Len(s)
            /\ i \in 1..(Len(t) + 3) /\ i + d \in 1..(Len(s) + 3)
            /\ i + 1 \in 1..(n + 1) /\ i + 3 \in 1..(n + 1)
            /\ i + 1 >= (n + 1) - k /\ i + 3 >= (n + 1) - k
            /\ (i + 1) + d = (i + d) + 1 /\ (i + 3) + d = (i + d) + 3
        BY <1>1, <2>1, <3>2
      <4>2. f[(i + 1) + d] = g[i + 1] /\ f[(i + 3) + d] = g[i + 3]
        BY <1>6, <4>1
      <4>3. f[(i + d) + 1] = g[i + 1] /\ f[(i + d) + 3] = g[i + 3] /\ s[i + d] = t[i]
        BY <1>1, <4>1, <4>2
      <4>4. CASE EscapeAt(t, i, DOMAIN esc)
        <5>1. EscapeAt(s, i + d, DOMAIN esc)
              /\ s[(i + d) + 1] = t[i + 1] /\ s[(i + d) + 2] = t[i + 2]
          BY <1>4, <4>1, <4>4
        <5>2. f[i + d] = esc[<<s[(i + d) + 1], s[(i + d) + 2]>>] \o f[(i + d) + 3]
          BY <4>1, <5>1 DEF ScanOf
        <5>3. g[i] = esc[<<t[i + 1], t[i + 2]>>] \o g[i + 3]
          BY <4>1, <4>4 DEF ScanOf
        <5> QED BY <4>3, <5>1, <5>2, <5>3
      <4>5. CASE ~EscapeAt(t, i, DOMAIN esc)
        <5>1. ~EscapeAt(s, i + d, DOMAIN esc)
          BY <1>4, <4>1, <4>5
        <5>2. f[i + d] = lit[s[i + d]] \o f[(i + d) + 1]
          BY <4>1, <5>1 DEF ScanOf
        <5>3. g[i] = lit[t[i]] \o g[i + 1]
          BY <4>1, <4>5 DEF ScanOf
        <5> QED BY <4>3, <5>2, <5>3
      <4> QED BY <4>4, <4>5
    <3> QED BY <3>1, <3>2
  <2>2. k + 1 \in 0..n
    BY <1>1
  <2> QED BY <2>1, <2>2
<1> HIDE DEF T
<1>7. 0..n \subseteq T
  <2>1. n \in Nat
    BY <1>1
  <2> HIDE DEF n
  <2> QED BY <1>5, <1>6, <2>1, Induction
<1>8. f[1 + d] = g[1]
  <2>1. n \in T /\ 1 \in 1..(n + 1) /\ 1 >= (n + 1) - n
    BY <1>1, <1>7
  <2> QED BY <2>1 DEF T
<1>9. 1 + d = d + 1
  OBVIOUS
<1> QED
  BY <1>8, <1>9

\* What the scan makes of a text, by how the text begins.
LEMMA RewriteEmpty ==
  ASSUME NEW esc, NEW lit, Table(esc), Bytes(lit)
  PROVE  Rewrite(<<>>, esc, lit) = <<>>
<1>1. <<>> \in Strings /\ Len(<<>>) = 0
  BY DEF Strings
<1>2. PICK f : ScanOf(f, <<>>, esc, lit) /\ Rewrite(<<>>, esc, lit) = f[1]
  BY <1>1, RewriteScans
<1>3. f[1] = <<>>
  <2>1. 1 \in 1..(Len(<<>>) + 3) /\ 1 > Len(<<>>)
    BY <1>1
  <2> QED BY <1>2, <2>1 DEF ScanOf
<1> QED
  BY <1>2, <1>3

LEMMA RewriteType ==
  ASSUME NEW esc, NEW lit, Table(esc), Bytes(lit),
         NEW s \in Strings
  PROVE  Rewrite(s, esc, lit) \in Strings
<1>1. PICK f : ScanOf(f, s, esc, lit) /\ Rewrite(s, esc, lit) = f[1]
  BY RewriteScans
<1>2. 1 \in 1..(Len(s) + 3)
  BY DEF Strings
<1> QED
  BY <1>1, <1>2 DEF ScanOf

LEMMA RewriteLiteral ==
  ASSUME NEW esc, NEW lit, Table(esc), Bytes(lit),
         NEW c \in Octets, NEW t \in Strings, ~EscapeAt(<<c>> \o t, 1, DOMAIN esc)
  PROVE  Rewrite(<<c>> \o t, esc, lit) = lit[c] \o Rewrite(t, esc, lit)
<1> DEFINE s == <<c>> \o t
<1>1. /\ s \in Strings /\ Len(t) \in Nat /\ Len(s) = Len(t) + 1 /\ s[1] = c
      /\ \A i \in 1..Len(t) : s[i + 1] = t[i]
  BY ConsAt
<1>2. ~EscapeAt(s, 1, DOMAIN esc)
  OBVIOUS
<1> HIDE DEF s
<1>3. PICK f : ScanOf(f, s, esc, lit) /\ Rewrite(s, esc, lit) = f[1]
  BY <1>1, RewriteScans
<1>4. PICK g : ScanOf(g, t, esc, lit) /\ Rewrite(t, esc, lit) = g[1]
  BY RewriteScans
<1>5. f[1 + 1] = g[1]
  <2>1. Behind(1, t, s)
    BY <1>1 DEF Behind
  <2> QED BY <1>1, <1>3, <1>4, <2>1, ScansAgree
<1>6. f[1] = lit[s[1]] \o f[1 + 1]
  <2>1. 1 \in 1..(Len(s) + 3) /\ 1 <= Len(s)
    BY <1>1
  <2> QED BY <1>2, <1>3, <2>1 DEF ScanOf
<1> QED
  BY <1>1, <1>3, <1>4, <1>5, <1>6 DEF s

LEMMA RewriteEscape ==
  ASSUME NEW esc, NEW lit, Table(esc), Bytes(lit),
         NEW h \in HexDigits, NEW l \in HexDigits, NEW t \in Strings, <<h, l>> \in DOMAIN esc
  PROVE  Rewrite(<<PercentSign, h, l>> \o t, esc, lit) = esc[<<h, l>>] \o Rewrite(t, esc, lit)
<1> DEFINE s == <<PercentSign, h, l>> \o t
<1>1. /\ s \in Strings /\ Len(t) \in Nat /\ Len(s) = Len(t) + 3
      /\ s[1] = PercentSign /\ s[2] = h /\ s[3] = l
      /\ \A i \in 1..Len(t) : s[i + 3] = t[i]
  <2>1. PercentSign \in Octets /\ h \in Octets /\ l \in Octets
    BY Digits
  <2> QED BY <2>1, TripleAt
<1> HIDE DEF s
<1>2. EscapeAt(s, 1, DOMAIN esc)
  BY <1>1 DEF EscapeAt
<1>3. PICK f : ScanOf(f, s, esc, lit) /\ Rewrite(s, esc, lit) = f[1]
  BY <1>1, RewriteScans
<1>4. PICK g : ScanOf(g, t, esc, lit) /\ Rewrite(t, esc, lit) = g[1]
  BY RewriteScans
<1>5. f[3 + 1] = g[1]
  <2>1. Behind(3, t, s)
    BY <1>1 DEF Behind
  <2> QED BY <1>1, <1>3, <1>4, <2>1, ScansAgree
<1>6. f[1] = esc[<<s[1 + 1], s[1 + 2]>>] \o f[1 + 3]
  <2>1. 1 \in 1..(Len(s) + 3) /\ 1 <= Len(s)
    BY <1>1
  <2> QED BY <1>2, <1>3, <2>1 DEF ScanOf
<1>7. f[1] = esc[<<h, l>>] \o f[3 + 1]
  <2>1. s[1 + 1] = h /\ s[1 + 2] = l /\ f[1 + 3] = f[3 + 1]
    BY <1>1
  <2> QED BY <1>6, <2>1
<1> QED
  BY <1>3, <1>4, <1>5, <1>7 DEF s
-----------------------------------------------------------------------------
(* Escapes *)

LEMMA DecodedPairs ==
  ASSUME NEW h \in HexDigits, NEW l \in HexDigits
  PROVE  /\ <<h, l>> \in Pairs
         /\ Decoded[<<h, l>>] = 16 * HexValue(h) + HexValue(l)
         /\ HexValue(h) \in 0..15 /\ HexValue(l) \in 0..15
         /\ Decoded[<<h, l>>] \in Octets
<1>1. HexValue(h) \in 0..15 /\ HexValue(l) \in 0..15
  BY DEF HexDigits, HexValue
<1>2. <<h, l>> \in Pairs /\ Decoded[<<h, l>>] = 16 * HexValue(h) + HexValue(l)
  BY DEF Pairs, Decoded
<1> QED
  BY <1>1, <1>2 DEF Octets

\* The digits of an escape are those of its octet, but for case.
LEMMA EscapeDigits ==
  ASSUME NEW h \in HexDigits, NEW l \in HexDigits
  PROVE  /\ Upper(h) \in HexDigits /\ Upper(l) \in HexDigits
         /\ Escape(Decoded[<<h, l>>]) = <<PercentSign, Upper(h), Upper(l)>>
<1>1. /\ Decoded[<<h, l>>] = 16 * HexValue(h) + HexValue(l)
      /\ HexValue(h) \in 0..15 /\ HexValue(l) \in 0..15
  BY DecodedPairs
<1>2. /\ Decoded[<<h, l>>] \div 16 = HexValue(h)
      /\ Decoded[<<h, l>>] % 16 = HexValue(l)
  BY <1>1
<1>3. ASSUME NEW c \in HexDigits PROVE HexDigit(HexValue(c)) = Upper(c) /\ Upper(c) \in HexDigits
  BY DEF HexDigits, HexDigit, HexValue, Upper
<1>4. HexDigit(HexValue(h)) = Upper(h) /\ HexDigit(HexValue(l)) = Upper(l)
  BY <1>3
<1>5. Escape(Decoded[<<h, l>>]) = <<PercentSign, HexDigit(HexValue(h)), HexDigit(HexValue(l))>>
  BY <1>2 DEF Escape
<1> QED
  BY <1>3, <1>4, <1>5

\* The escape of an octet decodes to it.
LEMMA OctetDigits ==
  ASSUME NEW b \in Octets
  PROVE  \E h \in HexDigits, l \in HexDigits :
           Escape(b) = <<PercentSign, h, l>> /\ Decoded[<<h, l>>] = b
<1> DEFINE q == b \div 16
           r == b % 16
<1>1. q \in 0..15 /\ r \in 0..15 /\ b = 16 * q + r
  BY DEF Octets
<1>2. Escape(b) = <<PercentSign, HexDigit(q), HexDigit(r)>>
  BY DEF Escape
<1> HIDE DEF q, r
<1>3. ASSUME NEW n \in 0..15 PROVE HexDigit(n) \in HexDigits /\ HexValue(HexDigit(n)) = n
  BY DEF HexDigits, HexDigit, HexValue
<1>4. /\ HexDigit(q) \in HexDigits /\ HexValue(HexDigit(q)) = q
      /\ HexDigit(r) \in HexDigits /\ HexValue(HexDigit(r)) = r
  BY <1>1, <1>3
<1>5. Decoded[<<HexDigit(q), HexDigit(r)>>] = 16 * HexValue(HexDigit(q)) + HexValue(HexDigit(r))
  BY <1>4, DecodedPairs
<1>6. Decoded[<<HexDigit(q), HexDigit(r)>>] = b
  BY <1>1, <1>4, <1>5
<1> QED
  BY <1>2, <1>4, <1>6

\* The tables of the decoders.
Unescape == [p \in Pairs |-> IF Decoded[p] \in Unreserved THEN Unquoted[p] ELSE UpperEscape[p]]
Escaped == [p \in Pairs |-> <<PercentSign, p[1], p[2]>>]
NoEscapes == [p \in {} |-> <<>>]

LEMMA StringsOf ==
  /\ \A c \in Octets : <<c>> \in Strings
  /\ \A a, h, l \in Octets : <<a, h, l>> \in Strings
BY DEF Strings

LEMMA TableEntries ==
  /\ \A c \in Octets : /\ Literal[c] = <<c>>
                       /\ c \in Unreserved => Quoted[c] = <<c>>
                       /\ c \notin Unreserved => Quoted[c] = Escape(c)
  /\ \A h \in HexDigits, l \in HexDigits :
       /\ Unquoted[<<h, l>>] = <<Decoded[<<h, l>>]>>
       /\ Escaped[<<h, l>>] = <<PercentSign, h, l>>
       /\ Decoded[<<h, l>>] \in Unreserved => Unescape[<<h, l>>] = <<Decoded[<<h, l>>]>>
       /\ Decoded[<<h, l>>] \notin Unreserved =>
            Unescape[<<h, l>>] = <<PercentSign, Upper(h), Upper(l)>>
<1>1. ASSUME NEW c \in Octets
      PROVE  /\ Literal[c] = <<c>>
             /\ c \in Unreserved => Quoted[c] = <<c>>
             /\ c \notin Unreserved => Quoted[c] = Escape(c)
  BY DEF Literal, Quoted, Octets
<1>2. ASSUME NEW h \in HexDigits, NEW l \in HexDigits
      PROVE  /\ Unquoted[<<h, l>>] = <<Decoded[<<h, l>>]>>
             /\ Escaped[<<h, l>>] = <<PercentSign, h, l>>
             /\ UpperEscape[<<h, l>>] = <<PercentSign, Upper(h), Upper(l)>>
  BY DecodedPairs DEF Unquoted, Escaped, UpperEscape
<1>3. ASSUME NEW h \in HexDigits, NEW l \in HexDigits
      PROVE  Unescape[<<h, l>>] = IF Decoded[<<h, l>>] \in Unreserved THEN Unquoted[<<h, l>>]
                                  ELSE UpperEscape[<<h, l>>]
  BY DecodedPairs DEF Unescape
<1> QED
  BY <1>1, <1>2, <1>3

LEMMA Tables ==
  /\ Table(Unquoted) /\ DOMAIN Unquoted = Pairs
  /\ Table(Unescape) /\ DOMAIN Unescape = Pairs
  /\ Table(Escaped) /\ DOMAIN Escaped = Pairs
  /\ Table(NoEscapes) /\ DOMAIN NoEscapes = {}
  /\ Bytes(Literal) /\ Bytes(Quoted)
<1>1. PercentSign \in Octets /\ HexDigits \subseteq Octets
  BY Digits
<1>2. \A c \in Octets : Literal[c] \in Strings
  BY TableEntries, StringsOf
<1>3. ASSUME NEW c \in Octets PROVE Quoted[c] \in Strings
  <2>1. CASE c \in Unreserved
    BY <2>1, TableEntries, StringsOf
  <2>2. CASE c \notin Unreserved
    <3>1. PICK h \in HexDigits, l \in HexDigits : Escape(c) = <<PercentSign, h, l>>
      BY OctetDigits
    <3> QED BY <1>1, <2>2, <3>1, TableEntries, StringsOf
  <2> QED BY <2>1, <2>2
<1>4. ASSUME NEW p \in Pairs
      PROVE  Unquoted[p] \in Strings /\ Unescape[p] \in Strings /\ Escaped[p] \in Strings
  <2>1. PICK h \in HexDigits, l \in HexDigits : p = <<h, l>>
    BY DEF Pairs
  <2>2. Decoded[<<h, l>>] \in Octets /\ Upper(h) \in HexDigits /\ Upper(l) \in HexDigits
    BY DecodedPairs, EscapeDigits
  <2>3. /\ <<Decoded[<<h, l>>]>> \in Strings /\ <<PercentSign, h, l>> \in Strings
        /\ <<PercentSign, Upper(h), Upper(l)>> \in Strings
    <3>1. h \in Octets /\ l \in Octets /\ Upper(h) \in Octets /\ Upper(l) \in Octets
      BY <1>1, <2>2
    <3> QED BY <1>1, <2>2, <3>1, StringsOf
  <2>4. /\ Unquoted[<<h, l>>] \in Strings /\ Escaped[<<h, l>>] \in Strings
        /\ Unescape[<<h, l>>] \in Strings
    BY <2>3, TableEntries
  <2> QED BY <2>1, <2>4
<1>5. Literal \in [Octets -> Strings] /\ Quoted \in [Octets -> Strings]
  <2>1. Literal = [c \in Octets |-> Literal[c]] /\ Quoted = [c \in Octets |-> Quoted[c]]
    BY DEF Literal, Quoted, Octets
  <2> QED BY <1>2, <1>3, <2>1
<1>6. /\ Unquoted \in [Pairs -> Strings] /\ Unescape \in [Pairs -> Strings]
      /\ Escaped \in [Pairs -> Strings]
  <2>1. /\ Unquoted = [p \in Pairs |-> Unquoted[p]] /\ Unescape = [p \in Pairs |-> Unescape[p]]
        /\ Escaped = [p \in Pairs |-> Escaped[p]]
    BY DEF Unquoted, Unescape, Escaped
  <2> QED BY <1>4, <2>1
<1>7. NoEscapes \in [{} -> Strings]
  BY DEF NoEscapes
<1>8. /\ Bytes(Literal) /\ Bytes(Quoted)
      /\ DOMAIN Unquoted = Pairs /\ DOMAIN Unescape = Pairs /\ DOMAIN Escaped = Pairs
      /\ DOMAIN NoEscapes = {}
  BY <1>5, <1>6, <1>7 DEF Bytes
<1>9. Table(Unquoted) /\ Table(Unescape) /\ Table(Escaped) /\ Table(NoEscapes)
  BY <1>6, <1>7, <1>8 DEF Table
<1> QED
  BY <1>8, <1>9

-----------------------------------------------------------------------------
(* What is decoded and quoted *)

LEMMA NoEscapeBy ==
  ASSUME NEW c \in Octets, NEW t \in Strings
  PROVE  /\ c # PercentSign => ~IsEscape(<<c>> \o t, 1)
         /\ ~EscapeAt(<<c>> \o t, 1, {})
         /\ <<c>> \o t # <<>>
<1>1. (<<c>> \o t)[1] = c /\ Len(<<c>> \o t) = Len(t) + 1 /\ Len(t) \in Nat
  BY ConsAt
<1>2. ASSUME <<c>> \o t = <<>> PROVE FALSE
  <2>1. Len(<<c>> \o t) = 0
    BY <1>2
  <2> QED BY <1>1, <2>1
<1> QED
  BY <1>1, <1>2 DEF IsEscape, EscapeAt

LEMMA QuoteType ==
  /\ \A s \in Strings : Quote(s) \in Strings /\ Unquote(s) \in Strings
  /\ \A s \in Strings : DecodeUnreserved(s) \in Strings
  /\ \A s \in Strings : Rewrite(s, Escaped, Quoted) \in Strings
<1>1. ASSUME NEW s \in Strings
      PROVE  /\ Rewrite(s, NoEscapes, Quoted) \in Strings /\ Rewrite(s, Unquoted, Literal) \in Strings
             /\ Rewrite(s, Unescape, Literal) \in Strings /\ Rewrite(s, Escaped, Quoted) \in Strings
  BY Tables, RewriteType
<1> QED
  BY <1>1 DEF Quote, Unquote, DecodeUnreserved, NoEscapes, Unescape

LEMMA EmptyTexts ==
  /\ Quote(<<>>) = <<>> /\ Unquote(<<>>) = <<>> /\ DecodeUnreserved(<<>>) = <<>>
  /\ Rewrite(<<>>, Escaped, Quoted) = <<>>
<1>1. /\ Rewrite(<<>>, NoEscapes, Quoted) = <<>> /\ Rewrite(<<>>, Unquoted, Literal) = <<>>
      /\ Rewrite(<<>>, Unescape, Literal) = <<>> /\ Rewrite(<<>>, Escaped, Quoted) = <<>>
  BY Tables, RewriteEmpty
<1> QED
  BY <1>1 DEF Quote, Unquote, DecodeUnreserved, NoEscapes, Unescape

LEMMA QuoteByte ==
  ASSUME NEW c \in Octets, NEW t \in Strings
  PROVE  Quote(<<c>> \o t) = Quoted[c] \o Quote(t)
<1>1. Rewrite(<<c>> \o t, NoEscapes, Quoted) = Quoted[c] \o Rewrite(t, NoEscapes, Quoted)
  BY Tables, NoEscapeBy, RewriteLiteral
<1> QED
  BY <1>1 DEF Quote, NoEscapes

\* A byte that begins no escape.
LEMMA LiteralByte ==
  ASSUME NEW c \in Octets, NEW t \in Strings, ~IsEscape(<<c>> \o t, 1)
  PROVE  /\ Unquote(<<c>> \o t) = <<c>> \o Unquote(t)
         /\ DecodeUnreserved(<<c>> \o t) = <<c>> \o DecodeUnreserved(t)
         /\ Rewrite(<<c>> \o t, Escaped, Quoted) = Quoted[c] \o Rewrite(t, Escaped, Quoted)
<1>1. ~EscapeAt(<<c>> \o t, 1, Pairs)
  BY DEF IsEscape
<1>2. Rewrite(<<c>> \o t, Unquoted, Literal) = Literal[c] \o Rewrite(t, Unquoted, Literal)
  BY <1>1, Tables, RewriteLiteral
<1>3. Rewrite(<<c>> \o t, Unescape, Literal) = Literal[c] \o Rewrite(t, Unescape, Literal)
  BY <1>1, Tables, RewriteLiteral
<1>4. Rewrite(<<c>> \o t, Escaped, Quoted) = Quoted[c] \o Rewrite(t, Escaped, Quoted)
  BY <1>1, Tables, RewriteLiteral
<1>5. Literal[c] = <<c>>
  BY TableEntries
<1> QED
  BY <1>2, <1>3, <1>4, <1>5 DEF Unquote, DecodeUnreserved, Unescape

LEMMA EscapedByte ==
  ASSUME NEW h \in HexDigits, NEW l \in HexDigits, NEW t \in Strings
  PROVE  LET s == <<PercentSign, h, l>> \o t
             b == Decoded[<<h, l>>]
         IN  /\ Unquote(s) = <<b>> \o Unquote(t)
             /\ b \in Unreserved => DecodeUnreserved(s) = <<b>> \o DecodeUnreserved(t)
             /\ b \notin Unreserved =>
                  DecodeUnreserved(s) = <<PercentSign, Upper(h), Upper(l)>> \o DecodeUnreserved(t)
             /\ Rewrite(s, Escaped, Quoted) = <<PercentSign, h, l>> \o Rewrite(t, Escaped, Quoted)
<1> DEFINE s == <<PercentSign, h, l>> \o t
           b == Decoded[<<h, l>>]
<1>1. <<h, l>> \in Pairs
  BY DecodedPairs
<1>2. Rewrite(s, Unquoted, Literal) = Unquoted[<<h, l>>] \o Rewrite(t, Unquoted, Literal)
  BY <1>1, Tables, RewriteEscape
<1>3. Rewrite(s, Unescape, Literal) = Unescape[<<h, l>>] \o Rewrite(t, Unescape, Literal)
  BY <1>1, Tables, RewriteEscape
<1>4. Rewrite(s, Escaped, Quoted) = Escaped[<<h, l>>] \o Rewrite(t, Escaped, Quoted)
  BY <1>1, Tables, RewriteEscape
<1> HIDE DEF s
<1>5. /\ Unquote(s) = Unquoted[<<h, l>>] \o Unquote(t)
      /\ DecodeUnreserved(s) = Unescape[<<h, l>>] \o DecodeUnreserved(t)
  BY <1>2, <1>3 DEF Unquote, DecodeUnreserved, Unescape
<1>6. /\ Unquoted[<<h, l>>] = <<b>> /\ Escaped[<<h, l>>] = <<PercentSign, h, l>>
      /\ b \in Unreserved => Unescape[<<h, l>>] = <<b>>
      /\ b \notin Unreserved => Unescape[<<h, l>>] = <<PercentSign, Upper(h), Upper(l)>>
  BY TableEntries
<1> HIDE DEF b
<1>7. /\ Unquote(s) = <<b>> \o Unquote(t)
      /\ b \in Unreserved => DecodeUnreserved(s) = <<b>> \o DecodeUnreserved(t)
      /\ b \notin Unreserved =>
           DecodeUnreserved(s) = <<PercentSign, Upper(h), Upper(l)>> \o DecodeUnreserved(t)
      /\ Rewrite(s, Escaped, Quoted) = <<PercentSign, h, l>> \o Rewrite(t, Escaped, Quoted)
  BY <1>4, <1>5, <1>6
<1> QED
  BY <1>7 DEF s, b

\* What is quoted decodes to what it was.
LEMMA UnquoteQuote == \A x \in Strings : Unquote(Quote(x)) = x
<1> DEFINE T == {x \in Strings : Unquote(Quote(x)) = x}
<1>1. <<>> \in T
  BY EmptyTexts DEF Strings
<1>2. ASSUME NEW c \in Octets, NEW t \in Strings, t \in T PROVE <<c>> \o t \in T
  <2>1. <<c>> \o t \in Strings /\ Quote(t) \in Strings /\ Unquote(Quote(t)) = t
    BY <1>2, ConsAt, QuoteType
  <2>2. Quote(<<c>> \o t) = Quoted[c] \o Quote(t)
    BY QuoteByte
  <2>3. CASE c \in Unreserved
    <3>1. Quoted[c] = <<c>> /\ c # PercentSign
      BY <2>3, TableEntries, Digits
    <3>2. Unquote(<<c>> \o Quote(t)) = <<c>> \o Unquote(Quote(t))
      BY <2>1, <3>1, NoEscapeBy, LiteralByte
    <3> QED BY <2>1, <2>2, <3>1, <3>2
  <2>4. CASE c \notin Unreserved
    <3>1. PICK h \in HexDigits, l \in HexDigits :
            Escape(c) = <<PercentSign, h, l>> /\ Decoded[<<h, l>>] = c
      BY OctetDigits
    <3>2. Quoted[c] = <<PercentSign, h, l>>
      BY <2>4, <3>1, TableEntries
    <3>3. Unquote(<<PercentSign, h, l>> \o Quote(t)) = <<c>> \o Unquote(Quote(t))
      BY <2>1, <3>1, EscapedByte
    <3> QED BY <2>1, <2>2, <3>2, <3>3
  <2> QED BY <2>3, <2>4
<1>3. Strings \subseteq T
  <2> HIDE DEF T
  <2> QED BY <1>1, <1>2, ByteInduction
<1> QED
  BY <1>3
-----------------------------------------------------------------------------
(* Texts in which each percent sign begins an escape *)

PlainText(s) == \A k \in DOMAIN s : s[k] = PercentSign => IsEscape(s, k)

LEMMA ConsBehind ==
  ASSUME NEW c \in Octets, NEW t \in Strings
  PROVE  /\ Behind(1, t, <<c>> \o t)
         /\ DOMAIN t = 1..Len(t) /\ DOMAIN (<<c>> \o t) = 1..(Len(t) + 1)
<1> DEFINE s == <<c>> \o t
<1>1. /\ s \in Strings /\ Len(t) \in Nat /\ Len(s) = Len(t) + 1
      /\ \A i \in 1..Len(t) : s[i + 1] = t[i]
  BY ConsAt
<1> HIDE DEF s
<1>2. DOMAIN t = 1..Len(t) /\ DOMAIN s = 1..(Len(t) + 1)
  BY <1>1 DEF Strings
<1> QED
  BY <1>1, <1>2 DEF s, Behind

LEMMA TripleBehind ==
  ASSUME NEW h \in HexDigits, NEW l \in HexDigits, NEW t \in Strings
  PROVE  LET s == <<PercentSign, h, l>> \o t
         IN  /\ s \in Strings /\ Behind(3, t, s) /\ Len(t) \in Nat
             /\ DOMAIN t = 1..Len(t) /\ DOMAIN s = 1..(Len(t) + 3)
             /\ s[2] = h /\ s[3] = l /\ IsEscape(s, 1)
<1> DEFINE s == <<PercentSign, h, l>> \o t
<1>1. /\ s \in Strings /\ Len(t) \in Nat /\ Len(s) = Len(t) + 3
      /\ s[1] = PercentSign /\ s[2] = h /\ s[3] = l
      /\ \A i \in 1..Len(t) : s[i + 3] = t[i]
  <2>1. PercentSign \in Octets /\ h \in Octets /\ l \in Octets
    BY Digits
  <2> QED BY <2>1, TripleAt
<1> HIDE DEF s
<1>2. IsEscape(s, 1)
  BY <1>1, DecodedPairs DEF IsEscape, EscapeAt
<1>3. DOMAIN t = 1..Len(t) /\ DOMAIN s = 1..(Len(t) + 3)
  BY <1>1 DEF Strings
<1> QED
  BY <1>1, <1>2, <1>3 DEF s, Behind

\* What follows the first byte of such a text, or its first escape, is one too.
LEMMA PlainBehind ==
  ASSUME NEW s \in Strings, NEW t \in Strings, NEW d \in Nat, Behind(d, t, s), PlainText(s)
  PROVE  PlainText(t)
<1>1. /\ Len(s) \in Nat /\ Len(t) \in Nat /\ DOMAIN s = 1..Len(s) /\ DOMAIN t = 1..Len(t)
      /\ Len(s) = Len(t) + d /\ \A k \in 1..Len(t) : s[k + d] = t[k]
  BY DEF Strings, Behind
<1>2. \A i \in 1..Len(t) : EscapeAt(s, i + d, Pairs) <=> EscapeAt(t, i, Pairs)
  BY EscapeShifted
<1> SUFFICES ASSUME NEW k \in 1..Len(t), t[k] = PercentSign PROVE IsEscape(t, k)
  BY <1>1 DEF PlainText
<1>3. k + d \in DOMAIN s /\ s[k + d] = PercentSign
  BY <1>1
<1>4. IsEscape(s, k + d)
  BY <1>3 DEF PlainText
<1> QED
  BY <1>2, <1>4 DEF IsEscape

\* In such a text the normal form of the escapes is what quoting the decoded
\* text gives.
LEMMA PlainNormal ==
  \A s \in Strings : PlainText(s) => NormalisePercentEncoding(s) = Quote(Unquote(s))
<1> DEFINE Second(r) == Rewrite(r, Escaped, Quoted)
           T == {s \in Strings : PlainText(s) =>
                                   Second(DecodeUnreserved(s)) = Quote(Unquote(s))}
<1>0. \A s \in Strings : /\ Unquote(s) \in Strings /\ DecodeUnreserved(s) \in Strings
                         /\ Second(s) \in Strings
  BY QuoteType
<1>1. <<>> \in T
  BY EmptyTexts DEF Strings
<1>2. ASSUME NEW c \in Octets, NEW t \in Strings, t \in T, ~IsEscape(<<c>> \o t, 1)
      PROVE  <<c>> \o t \in T
  <2>1. <<c>> \o t \in Strings /\ Behind(1, t, <<c>> \o t)
    BY ConsAt, ConsBehind
  <2> SUFFICES ASSUME PlainText(<<c>> \o t)
               PROVE  Second(DecodeUnreserved(<<c>> \o t)) = Quote(Unquote(<<c>> \o t))
    BY <2>1
  <2>2. Second(DecodeUnreserved(t)) = Quote(Unquote(t))
    BY <1>2, <2>1, PlainBehind
  <2>3. c # PercentSign
    <3>1. 1 \in DOMAIN (<<c>> \o t) /\ (<<c>> \o t)[1] = c
      BY ConsAt, ConsBehind
    <3> QED BY <1>2, <3>1 DEF PlainText
  <2>4. /\ Unquote(<<c>> \o t) = <<c>> \o Unquote(t)
        /\ DecodeUnreserved(<<c>> \o t) = <<c>> \o DecodeUnreserved(t)
    BY <1>2, LiteralByte
  <2>5. Quote(<<c>> \o Unquote(t)) = Quoted[c] \o Quote(Unquote(t))
    BY <1>0, QuoteByte
  <2>6. Second(<<c>> \o DecodeUnreserved(t)) = Quoted[c] \o Second(DecodeUnreserved(t))
    BY <1>0, <2>3, NoEscapeBy, LiteralByte
  <2> HIDE DEF Second
  <2> QED BY <2>2, <2>4, <2>5, <2>6
<1>3. ASSUME NEW h \in HexDigits, NEW l \in HexDigits, NEW t \in Strings, t \in T
      PROVE  <<PercentSign, h, l>> \o t \in T
  <2> DEFINE s == <<PercentSign, h, l>> \o t
             b == Decoded[<<h, l>>]
  <2>1. s \in Strings /\ Behind(3, t, s)
    BY TripleBehind
  <2> SUFFICES ASSUME PlainText(s) PROVE Second(DecodeUnreserved(s)) = Quote(Unquote(s))
    BY <2>1
  <2>2. Second(DecodeUnreserved(t)) = Quote(Unquote(t))
    <3> HIDE DEF s
    <3> QED BY <1>3, <2>1, PlainBehind
  <2>3. b \in Octets /\ Upper(h) \in HexDigits /\ Upper(l) \in HexDigits
        /\ Escape(b) = <<PercentSign, Upper(h), Upper(l)>>
    BY DecodedPairs, EscapeDigits
  <2>4. /\ Unquote(s) = <<b>> \o Unquote(t)
        /\ b \in Unreserved => DecodeUnreserved(s) = <<b>> \o DecodeUnreserved(t)
        /\ b \notin Unreserved =>
             DecodeUnreserved(s) = <<PercentSign, Upper(h), Upper(l)>> \o DecodeUnreserved(t)
    BY EscapedByte
  <2> HIDE DEF s, b
  <2>5. Quote(<<b>> \o Unquote(t)) = Quoted[b] \o Quote(Unquote(t))
    BY <1>0, <2>3, QuoteByte
  <2>6. Second(DecodeUnreserved(s)) = Quoted[b] \o Second(DecodeUnreserved(t))
    <3>1. CASE b \in Unreserved
      <4>1. b # PercentSign
        BY <3>1, Digits
      <4>2. Second(<<b>> \o DecodeUnreserved(t)) = Quoted[b] \o Second(DecodeUnreserved(t))
        BY <1>0, <2>3, <4>1, NoEscapeBy, LiteralByte
      <4> HIDE DEF Second
      <4> QED BY <2>4, <3>1, <4>2
    <3>2. CASE b \notin Unreserved
      <4>1. Quoted[b] = <<PercentSign, Upper(h), Upper(l)>>
        BY <2>3, <3>2, TableEntries
      <4>2. Second(<<PercentSign, Upper(h), Upper(l)>> \o DecodeUnreserved(t))
              = <<PercentSign, Upper(h), Upper(l)>> \o Second(DecodeUnreserved(t))
        <5> DEFINE u == Upper(h)
                   v == Upper(l)
                   r == DecodeUnreserved(t)
        <5>1. u \in HexDigits /\ v \in HexDigits /\ r \in Strings
          BY <1>0, <2>3
        <5> HIDE DEF u, v, r
        <5>2. Second(<<PercentSign, u, v>> \o r) = <<PercentSign, u, v>> \o Second(r)
          BY <5>1, EscapedByte
        <5> QED BY <5>2 DEF u, v, r
      <4> HIDE DEF Second
      <4> QED BY <2>4, <3>2, <4>1, <4>2
    <3> QED BY <3>1, <3>2
  <2> HIDE DEF Second
  <2> QED BY <2>2, <2>4, <2>5, <2>6
<1>4. Strings \subseteq T
  <2> HIDE DEF T
  <2> QED BY <1>1, <1>2, <1>3, TextInduction
<1>5. \A s \in Strings : NormalisePercentEncoding(s) = Second(DecodeUnreserved(s))
  BY DEF NormalisePercentEncoding, Escaped
<1> HIDE DEF Second
<1> QED
  BY <1>4, <1>5
-----------------------------------------------------------------------------
(* Unreserved bytes and escapes alone *)

LEMMA LegibleBehind ==
  ASSUME NEW s \in Strings, NEW t \in Strings, NEW d \in Nat, Behind(d, t, s), Legible(t),
         \A k \in 1..d : s[k] \in Unreserved \/ IsEscape(s, k)
  PROVE  Legible(s)
<1>1. /\ Len(s) \in Nat /\ Len(t) \in Nat /\ DOMAIN s = 1..Len(s) /\ DOMAIN t = 1..Len(t)
      /\ Len(s) = Len(t) + d /\ \A k \in 1..Len(t) : s[k + d] = t[k]
  BY DEF Strings, Behind
<1>2. \A i \in 1..Len(t) : EscapeAt(s, i + d, Pairs) <=> EscapeAt(t, i, Pairs)
  BY EscapeShifted
<1> SUFFICES ASSUME NEW k \in 1..Len(s) PROVE s[k] \in Unreserved \/ IsEscape(s, k)
  BY <1>1 DEF Legible
<1>3. CASE k <= d
  BY <1>1, <1>3
<1>4. CASE ~(k <= d)
  <2>1. k - d \in 1..Len(t) /\ (k - d) + d = k
    BY <1>1, <1>4
  <2>2. t[k - d] \in Unreserved \/ IsEscape(t, k - d)
    BY <1>1, <2>1 DEF Legible
  <2>3. s[k] = t[k - d] /\ (EscapeAt(s, k, Pairs) <=> EscapeAt(t, k - d, Pairs))
    BY <1>1, <1>2, <2>1
  <2> QED BY <2>2, <2>3 DEF IsEscape
<1> QED
  BY <1>3, <1>4

LEMMA LegibleByte ==
  ASSUME NEW c \in Unreserved, NEW t \in Strings, Legible(t)
  PROVE  Legible(<<c>> \o t)
<1> DEFINE s == <<c>> \o t
<1>1. c \in Octets
  BY Digits
<1>2. s \in Strings /\ Behind(1, t, s) /\ s[1] = c
  BY <1>1, ConsAt, ConsBehind
<1> HIDE DEF s
<1>3. \A k \in 1..1 : s[k] \in Unreserved \/ IsEscape(s, k)
  BY <1>2
<1>4. Legible(s)
  BY <1>2, <1>3, LegibleBehind
<1> QED
  BY <1>4 DEF s

LEMMA LegibleEscape ==
  ASSUME NEW h \in HexDigits, NEW l \in HexDigits, NEW t \in Strings, Legible(t)
  PROVE  Legible(<<PercentSign, h, l>> \o t)
<1> DEFINE s == <<PercentSign, h, l>> \o t
<1>1. s \in Strings /\ Behind(3, t, s) /\ s[2] = h /\ s[3] = l /\ IsEscape(s, 1)
  BY TripleBehind
<1> HIDE DEF s
<1>2. \A k \in 1..3 : s[k] \in Unreserved \/ IsEscape(s, k)
  <2>1. h \in Unreserved /\ l \in Unreserved
    BY Digits
  <2> QED BY <1>1, <2>1
<1>3. Legible(s)
  BY <1>1, <1>2, LegibleBehind
<1> QED
  BY <1>3 DEF s

LEMMA LegibleQuoted ==
  ASSUME NEW c \in Octets, NEW t \in Strings, Legible(t)
  PROVE  Legible(Quoted[c] \o t)
<1>1. CASE c \in Unreserved
  <2>1. Quoted[c] = <<c>>
    BY <1>1, TableEntries
  <2>2. Legible(<<c>> \o t)
    BY <1>1, LegibleByte
  <2> QED BY <2>1, <2>2
<1>2. CASE c \notin Unreserved
  <2>1. PICK h \in HexDigits, l \in HexDigits : Escape(c) = <<PercentSign, h, l>>
    BY OctetDigits
  <2>2. Quoted[c] = <<PercentSign, h, l>>
    BY <1>2, <2>1, TableEntries
  <2>3. Legible(<<PercentSign, h, l>> \o t)
    BY LegibleEscape
  <2> QED BY <2>2, <2>3
<1> QED
  BY <1>1, <1>2

LEMMA LegibleEmpty == <<>> \in Strings /\ Legible(<<>>) /\ <<>> \in Text
BY DEF Legible, Strings, Text

\* Quoting, and the second loop of the normal form, write nothing else.
LEMMA QuoteLegible ==
  \A s \in Strings : Legible(Quote(s)) /\ Legible(Rewrite(s, Escaped, Quoted))
<1> DEFINE Second(r) == Rewrite(r, Escaped, Quoted)
           T == {s \in Strings : Legible(Quote(s))}
           U == {s \in Strings : Legible(Second(s))}
<1>0. \A s \in Strings : Quote(s) \in Strings /\ Second(s) \in Strings
  BY QuoteType
<1>1. <<>> \in T /\ <<>> \in U
  BY EmptyTexts, LegibleEmpty
<1>2. ASSUME NEW c \in Octets, NEW t \in Strings, t \in T PROVE <<c>> \o t \in T
  <2>1. <<c>> \o t \in Strings /\ Quote(<<c>> \o t) = Quoted[c] \o Quote(t)
    BY ConsAt, QuoteByte
  <2>2. Legible(Quoted[c] \o Quote(t))
    BY <1>0, <1>2, LegibleQuoted
  <2> QED BY <2>1, <2>2
<1>3. ASSUME NEW c \in Octets, NEW t \in Strings, t \in U, ~IsEscape(<<c>> \o t, 1)
      PROVE  <<c>> \o t \in U
  <2>1. <<c>> \o t \in Strings /\ Second(<<c>> \o t) = Quoted[c] \o Second(t)
    BY <1>3, ConsAt, LiteralByte
  <2> HIDE DEF Second
  <2>2. Legible(Quoted[c] \o Second(t))
    BY <1>0, <1>3, LegibleQuoted
  <2> QED BY <2>1, <2>2
<1>4. ASSUME NEW h \in HexDigits, NEW l \in HexDigits, NEW t \in Strings, t \in U
      PROVE  <<PercentSign, h, l>> \o t \in U
  <2> DEFINE s == <<PercentSign, h, l>> \o t
  <2>1. s \in Strings
    BY TripleBehind
  <2>2. Second(s) = <<PercentSign, h, l>> \o Second(t)
    BY EscapedByte
  <2> HIDE DEF Second, s
  <2>3. Legible(<<PercentSign, h, l>> \o Second(t))
    BY <1>0, <1>4, LegibleEscape
  <2>4. s \in U
    BY <2>1, <2>2, <2>3
  <2> QED BY <2>4 DEF s
<1>5. Strings \subseteq T
  <2> HIDE DEF T
  <2> QED BY <1>1, <1>2, ByteInduction
<1>6. Strings \subseteq U
  <2> HIDE DEF U
  <2> QED BY <1>1, <1>3, <1>4, TextInduction
<1> QED
  BY <1>5, <1>6

LEMMA LegibleText ==
  ASSUME NEW s \in Strings, Legible(s)
  PROVE  s \in Text /\ PlainText(s) /\ \A k \in DOMAIN s : s[k] # Plus
<1>1. Len(s) \in Nat /\ DOMAIN s = 1..Len(s) /\ s \in [1..Len(s) -> Octets]
  BY DEF Strings
<1>2. \A k \in DOMAIN s : s[k] \in Unreserved \/ s[k] = PercentSign
  BY DEF Legible, IsEscape, EscapeAt
<1>3. \A k \in DOMAIN s : s[k] \in Byte
  BY <1>2, Digits
<1>4. s \in [1..Len(s) -> Byte]
  BY <1>1, <1>3
<1>5. s \in Text
  BY <1>1, <1>4, IsSeqOf DEF Text
<1>6. PlainText(s)
  BY Digits DEF PlainText, Legible
<1>7. \A k \in DOMAIN s : s[k] # Plus
  BY <1>2, Digits DEF PercentSign, Plus
<1> QED
  BY <1>5, <1>6, <1>7

LEMMA TextStrings == Text \subseteq Strings
<1> SUFFICES ASSUME NEW s \in Text PROVE s \in Strings
  OBVIOUS
<1>1. s \in Seq(Byte) /\ Byte \subseteq Octets
  BY Digits DEF Text
<1> QED
  BY <1>1, SeqMonotonic DEF Strings

LEMMA NormalLegible ==
  ASSUME NEW s \in Strings
  PROVE  LET n == NormalisePercentEncoding(s) IN n \in Text /\ n \in Strings /\ Legible(n)
<1> DEFINE n == NormalisePercentEncoding(s)
<1>1. n = Rewrite(DecodeUnreserved(s), Escaped, Quoted)
  BY DEF NormalisePercentEncoding, Escaped
<1>2. n \in Strings /\ Legible(n)
  BY <1>1, QuoteType, QuoteLegible
<1> HIDE DEF n
<1>3. n \in Text
  BY <1>2, LegibleText
<1> QED
  BY <1>2, <1>3 DEF n

LEMMA QuoteNormal ==
  ASSUME NEW x \in Strings
  PROVE  /\ Quote(x) \in Text /\ Quote(x) \in Strings /\ Legible(Quote(x))
         /\ NormalisePercentEncoding(Quote(x)) = Quote(x)
<1>1. Quote(x) \in Strings /\ Legible(Quote(x))
  BY QuoteType, QuoteLegible
<1>2. Quote(x) \in Text /\ PlainText(Quote(x))
  BY <1>1, LegibleText
<1>3. NormalisePercentEncoding(Quote(x)) = Quote(Unquote(Quote(x)))
  BY <1>1, <1>2, PlainNormal
<1> QED
  BY <1>1, <1>2, <1>3, UnquoteQuote

\* Only the empty text is decoded or quoted to nothing.
LEMMA NotEmpty ==
  ASSUME NEW s \in Strings, s # <<>>
  PROVE  Unquote(s) # <<>> /\ Quote(s) # <<>>
<1>0. \A t \in Strings : Unquote(t) \in Strings /\ Quote(t) \in Strings
  BY QuoteType
<1>1. Unquote(s) # <<>>
  <2>1. CASE IsEscape(s, 1)
    <3>1. PICK h \in HexDigits, l \in HexDigits, t \in Strings : s = <<PercentSign, h, l>> \o t
      BY <2>1, PeeledEscape
    <3> DEFINE b == Decoded[<<h, l>>]
    <3>2. Unquote(s) = <<b>> \o Unquote(t) /\ b \in Octets
      BY <3>1, EscapedByte, DecodedPairs
    <3> HIDE DEF b
    <3> QED BY <1>0, <3>2, NoEscapeBy
  <2>2. CASE ~IsEscape(s, 1)
    <3>1. PICK c \in Octets, t \in Strings : s = <<c>> \o t
      BY Peeled
    <3>2. Unquote(s) = <<c>> \o Unquote(t)
      BY <2>2, <3>1, LiteralByte
    <3> QED BY <1>0, <3>2, NoEscapeBy
  <2> QED BY <2>1, <2>2
<1>2. Quote(s) # <<>>
  <2>1. ASSUME Quote(s) = <<>> PROVE FALSE
    <3>1. Unquote(Quote(s)) = <<>>
      BY <2>1, EmptyTexts
    <3> QED BY <3>1, UnquoteQuote
  <2> QED BY <2>1
<1> QED
  BY <1>1, <1>2

\* What holds no escape is decoded as it is.
LEMMA NothingToDecode ==
  \A x \in Strings : (\A k \in DOMAIN x : ~IsEscape(x, k)) => Unquote(x) = x
<1> DEFINE None(x) == \A k \in DOMAIN x : ~IsEscape(x, k)
           T == {x \in Strings : None(x) => Unquote(x) = x}
<1>1. <<>> \in T
  BY EmptyTexts, LegibleEmpty
<1>2. ASSUME NEW c \in Octets, NEW t \in Strings, t \in T, ~IsEscape(<<c>> \o t, 1)
      PROVE  <<c>> \o t \in T
  <2> DEFINE s == <<c>> \o t
  <2>1. s \in Strings /\ Behind(1, t, s) /\ DOMAIN t = 1..Len(t) /\ Len(t) \in Nat
        /\ DOMAIN s = 1..(Len(t) + 1) /\ Unquote(s) = <<c>> \o Unquote(t)
    BY <1>2, ConsAt, ConsBehind, LiteralByte
  <2>2. ASSUME None(s) PROVE None(t)
    <3> HIDE DEF s
    <3>1. \A i \in 1..Len(t) : EscapeAt(s, i + 1, Pairs) <=> EscapeAt(t, i, Pairs)
      BY <2>1, EscapeShifted
    <3>2. \A i \in 1..Len(t) : i + 1 \in DOMAIN s
      BY <2>1
    <3> QED BY <2>1, <2>2, <3>1, <3>2 DEF IsEscape
  <2> HIDE DEF None
  <2> QED BY <1>2, <2>1, <2>2
<1>3. ASSUME NEW h \in HexDigits, NEW l \in HexDigits, NEW t \in Strings
      PROVE  <<PercentSign, h, l>> \o t \in T
  <2> DEFINE s == <<PercentSign, h, l>> \o t
  <2>1. s \in Strings /\ IsEscape(s, 1) /\ DOMAIN s = 1..(Len(t) + 3) /\ Len(t) \in Nat
    BY TripleBehind
  <2> HIDE DEF s
  <2>2. ~None(s)
    BY <2>1
  <2> HIDE DEF None
  <2>3. s \in T
    BY <2>1, <2>2
  <2> QED BY <2>3 DEF s
<1>4. Strings \subseteq T
  <2> HIDE DEF T
  <2> QED BY <1>1, <1>2, <1>3, TextInduction
<1> QED
  BY <1>4
-----------------------------------------------------------------------------
(* What is picked from a sequence *)

PickStep(seq, at, out, i) == IF i \in at THEN Append(out, seq[i]) ELSE out

\* Picked, prefix by prefix, for elements of B.
PickedRun(f, seq, at, B) ==
  /\ f \in [0..Len(seq) -> Seq(B)] /\ f[0] = <<>>
  /\ \A i \in 1..Len(seq) : f[i] = PickStep(seq, at, f[i - 1], i)

LEMMA PickedRuns ==
  ASSUME NEW A, NEW seq \in Seq(A), NEW at, NEW B,
         \A i \in 1..Len(seq) : i \in at => seq[i] \in B
  PROVE  \E f : PickedRun(f, seq, at, B) /\ Picked(seq, at) = f[Len(seq)]
<1> DEFINE N == Len(seq)
           S == Seq(B)
           none == <<>>
           all == [i \in DOMAIN seq |-> i]
           Rec(f) == [n \in 0..Len(all) |-> IF n = 0 THEN none
                                            ELSE PickStep(seq, at, f[n - 1], all[n])]
           step == [p \in S \X (1..N) |-> PickStep(seq, at, p[1], p[2])]
           g == CHOOSE f : f = Rec(f)
<1>1. N \in Nat /\ DOMAIN seq = 1..N
  OBVIOUS
<1>2. none \in S
  OBVIOUS
<1>3. ASSUME NEW out \in S, NEW i \in 1..N PROVE PickStep(seq, at, out, i) \in S
  <2>1. CASE i \in at
    <3>1. seq[i] \in B
      BY <2>1
    <3>2. Append(out, seq[i]) \in Seq(B)
      BY <3>1, AppendProperties
    <3> QED BY <2>1, <3>2 DEF PickStep
  <2>2. CASE i \notin at
    BY <2>2 DEF PickStep
  <2> QED BY <2>1, <2>2
<1>4. Len(all) = N /\ \A i \in 1..N : all[i] = i
  <2>1. all \in [1..N -> Nat]
    BY <1>1
  <2>2. Len(all) = N
    <3> HIDE DEF all, N
    <3> QED BY <1>1, <2>1, IsSeqOf
  <2> QED BY <1>1, <2>2
<1>5. Picked(seq, at) = g[Len(all)]
  BY DEF Picked, Scan, PickStep
<1> HIDE DEF S, N, none, all
<1>6. /\ step \in [S \X (1..N) -> S]
      /\ \A out \in S, i \in 1..N : step[<<out, i>>] = PickStep(seq, at, out, i)
  BY <1>3
<1> HIDE DEF step
<1>7. g = Rec(g)
  <2>1. PICK f : Recurses(f, N, S, none, step)
    BY <1>1, <1>2, <1>6, Recursion
  <2>2. f \in [0..N -> S] /\ f[0] = none /\ \A i \in 1..N : f[i] = step[<<f[i - 1], i>>]
    BY <2>1 DEF Recurses
  <2>3. \A i \in 1..N : f[i - 1] \in S
    BY <2>2, <1>1
  <2>4. \A i \in 1..N : f[i] = PickStep(seq, at, f[i - 1], i)
    BY <2>2, <2>3, <1>6
  <2>5. f = Rec(f)
    BY <2>2, <2>4, <1>1, <1>4
  <2> HIDE DEF Rec
  <2> QED BY <2>5
<1> HIDE DEF g
<1>8. /\ DOMAIN g = 0..N /\ g = [n \in 0..N |-> g[n]] /\ g[0] = none
      /\ \A i \in 1..N : g[i] = PickStep(seq, at, g[i - 1], i)
  BY <1>1, <1>4, <1>7
<1> DEFINE T == {i \in 0..N : g[i] \in S}
<1>9. 0..N \subseteq T
  <2>1. 0 \in T
    BY <1>1, <1>2, <1>8
  <2>2. ASSUME NEW i \in 0..(N - 1), i \in T PROVE i + 1 \in T
    <3>1. i + 1 \in 1..N /\ (i + 1) - 1 = i /\ i + 1 \in 0..N
      BY <1>1
    <3>2. g[i + 1] = PickStep(seq, at, g[i], i + 1)
      BY <1>8, <3>1
    <3> QED BY <1>3, <2>2, <3>1, <3>2
  <2> HIDE DEF T
  <2> QED BY <1>1, <2>1, <2>2, Induction
<1>10. g \in [0..N -> S]
  BY <1>8, <1>9
<1>11. PickedRun(g, seq, at, B)
  BY <1>8, <1>10 DEF PickedRun, N, S, none
<1> QED
  BY <1>4, <1>5, <1>11 DEF N

LEMMA PickedType ==
  ASSUME NEW A, NEW seq \in Seq(A), NEW at, NEW B,
         \A i \in 1..Len(seq) : i \in at => seq[i] \in B
  PROVE  Picked(seq, at) \in Seq(B)
<1>1. PICK f : PickedRun(f, seq, at, B) /\ Picked(seq, at) = f[Len(seq)]
  BY PickedRuns
<1>2. Len(seq) \in 0..Len(seq)
  OBVIOUS
<1> QED
  BY <1>1, <1>2 DEF PickedRun

\* Positions of seq in rising order.
Rising(idx, n) ==
  /\ idx \in Seq(1..n)
  /\ \A j, k \in 1..Len(idx) : j < k => idx[j] < idx[k]

Lists(idx, at, n) ==
  /\ Rising(idx, n)
  /\ \A i \in 1..n : i \in at <=> \E j \in 1..Len(idx) : idx[j] = i

\* What is picked, if the positions are listed.
LEMMA PickedListed ==
  ASSUME NEW A, NEW seq \in Seq(A), NEW at, NEW idx, Lists(idx, at, Len(seq))
  PROVE  /\ Picked(seq, at) \in Seq(A) /\ Len(Picked(seq, at)) = Len(idx)
         /\ \A j \in 1..Len(idx) : Picked(seq, at)[j] = seq[idx[j]]
<1> DEFINE n == Len(seq)
           m == Len(idx)
<1>1. /\ n \in Nat /\ m \in Nat /\ idx \in Seq(1..n) /\ \A i \in 1..n : seq[i] \in A
      /\ \A j \in 1..m : idx[j] \in 1..n
      /\ \A j, k \in 1..m : j < k => idx[j] < idx[k]
      /\ \A i \in 1..n : i \in at <=> \E j \in 1..m : idx[j] = i
  BY DEF Lists, Rising
<1>2. PICK f : PickedRun(f, seq, at, A) /\ Picked(seq, at) = f[n]
  BY <1>1, PickedRuns
<1>3. /\ f \in [0..n -> Seq(A)] /\ f[0] = <<>>
      /\ \A i \in 1..n : f[i] = PickStep(seq, at, f[i - 1], i)
  BY <1>2 DEF PickedRun
<1> HIDE DEF n, m
<1> DEFINE Upto(i, k) == /\ Len(f[i]) = k
                         /\ \A j \in 1..k : idx[j] <= i /\ f[i][j] = seq[idx[j]]
                         /\ \A j \in 1..m : j > k => idx[j] > i
           T == {i \in 0..n : \E k \in 0..m : Upto(i, k)}
<1>4. 0 \in T
  <2>1. Upto(0, 0)
    BY <1>1, <1>3
  <2>2. 0 \in 0..m /\ 0 \in 0..n
    BY <1>1
  <2> HIDE DEF Upto
  <2> QED BY <2>1, <2>2
<1>5. ASSUME NEW i \in 0..(n - 1), i \in T PROVE i + 1 \in T
  <2>1. i + 1 \in 1..n /\ (i + 1) - 1 = i /\ i + 1 \in 0..n /\ i \in 0..n
    BY <1>1
  <2>2. PICK k \in 0..m : Upto(i, k)
    BY <1>5
  <2>3. f[i] \in Seq(A) /\ f[i + 1] = PickStep(seq, at, f[i], i + 1)
    BY <1>3, <2>1
  <2>4. CASE i + 1 \in at
    <3>1. PICK j \in 1..m : idx[j] = i + 1
      BY <1>1, <2>1, <2>4
    <3>2. j = k + 1
      <4>1. ~(j <= k)
        BY <1>1, <2>2, <3>1
      <4>2. ASSUME k + 1 < j PROVE FALSE
        <5>1. k + 1 \in 1..m /\ k + 1 > k
          BY <1>1, <4>2
        <5>2. idx[k + 1] > i /\ idx[k + 1] < idx[j] /\ idx[k + 1] \in 1..n
          BY <1>1, <2>2, <4>2, <5>1
        <5> QED BY <1>1, <2>1, <3>1, <5>2
      <4> QED BY <1>1, <4>1, <4>2
    <3>3. f[i + 1] = Append(f[i], seq[i + 1]) /\ seq[i + 1] \in A
      BY <1>1, <2>1, <2>3, <2>4 DEF PickStep
    <3>4. /\ Len(f[i + 1]) = k + 1
          /\ \A q \in 1..k : f[i + 1][q] = f[i][q]
          /\ f[i + 1][k + 1] = seq[i + 1]
      <4>1. Len(f[i]) = k
        BY <2>2
      <4>2. /\ Len(Append(f[i], seq[i + 1])) = Len(f[i]) + 1
            /\ \A q \in 1..Len(f[i]) : Append(f[i], seq[i + 1])[q] = f[i][q]
            /\ Append(f[i], seq[i + 1])[Len(f[i]) + 1] = seq[i + 1]
        BY <2>3, <3>3, AppendAt
      <4> QED BY <3>3, <4>1, <4>2
    <3>5. \A q \in 1..(k + 1) : idx[q] <= i + 1 /\ f[i + 1][q] = seq[idx[q]]
      <4>1. ASSUME NEW q \in 1..k PROVE idx[q] <= i + 1 /\ f[i + 1][q] = seq[idx[q]]
        <5>1. q \in 1..m /\ idx[q] \in 1..n
          BY <1>1
        <5> QED BY <1>1, <2>1, <2>2, <3>4, <5>1
      <4>2. idx[k + 1] <= i + 1 /\ f[i + 1][k + 1] = seq[idx[k + 1]]
        BY <2>1, <3>1, <3>2, <3>4
      <4>3. \A q \in 1..(k + 1) : q \in 1..k \/ q = k + 1
        BY <1>1
      <4> QED BY <4>1, <4>2, <4>3
    <3>6. \A q \in 1..m : q > k + 1 => idx[q] > i + 1
      BY <1>1, <3>1, <3>2
    <3>7. Upto(i + 1, k + 1) /\ k + 1 \in 0..m
      BY <1>1, <3>2, <3>4, <3>5, <3>6
    <3> HIDE DEF Upto
    <3> QED BY <2>1, <3>7
  <2>5. CASE i + 1 \notin at
    <3>1. f[i + 1] = f[i]
      BY <2>3, <2>5 DEF PickStep
    <3>2. \A q \in 1..m : idx[q] # i + 1
      BY <1>1, <2>1, <2>5
    <3>3. \A q \in 1..m : q > k => idx[q] > i + 1
      <4>1. \A q \in 1..m : q > k => idx[q] > i /\ idx[q] \in 1..n
        BY <1>1, <2>2
      <4> QED BY <2>1, <3>2, <4>1
    <3>4. \A q \in 1..k : idx[q] <= i + 1 /\ f[i + 1][q] = seq[idx[q]]
      <4>1. \A q \in 1..k : q \in 1..m /\ idx[q] \in 1..n /\ idx[q] <= i /\ f[i][q] = seq[idx[q]]
        BY <1>1, <2>2
      <4> QED BY <2>1, <3>1, <4>1
    <3>5. Upto(i + 1, k)
      BY <2>2, <3>1, <3>3, <3>4
    <3> HIDE DEF Upto
    <3> QED BY <2>1, <3>5
  <2> QED BY <2>4, <2>5
<1> HIDE DEF T
<1>6. 0..n \subseteq T
  BY <1>1, <1>4, <1>5, Induction
<1>7. PICK k \in 0..m : Upto(n, k)
  <2>1. n \in T
    BY <1>1, <1>6
  <2> HIDE DEF Upto
  <2> QED BY <2>1 DEF T
<1>8. k = m
  <2>1. ASSUME k < m PROVE FALSE
    <3>1. m \in 1..m /\ m > k
      BY <1>1, <2>1
    <3>2. idx[m] > n /\ idx[m] \in 1..n
      BY <1>1, <1>7, <3>1
    <3> QED BY <1>1, <3>2
  <2> QED BY <1>1, <2>1
<1>9. f[n] \in Seq(A) /\ Len(f[n]) = m /\ \A j \in 1..m : f[n][j] = seq[idx[j]]
  <2>1. n \in 0..n
    BY <1>1
  <2> QED BY <1>3, <1>7, <1>8, <2>1
<1> HIDE DEF Upto
<1> QED
  BY <1>2, <1>9 DEF m

\* If all are picked.
LEMMA PickedAll ==
  ASSUME NEW A, NEW seq \in Seq(A), NEW at, 1..Len(seq) \subseteq at
  PROVE  Picked(seq, at) = seq
<1> DEFINE n == Len(seq)
           idx == [i \in 1..n |-> i]
<1>1. n \in Nat
  OBVIOUS
<1>2. idx \in [1..n -> 1..n]
  OBVIOUS
<1>3. idx \in Seq(1..n) /\ Len(idx) = n /\ \A i \in 1..n : idx[i] = i
  <2> HIDE DEF n
  <2>1. idx \in Seq(1..n) /\ Len(idx) = n
    <3> HIDE DEF idx
    <3> QED BY <1>1, <1>2, IsSeqOf
  <2> QED BY <2>1
<1> HIDE DEF idx
<1>4. Lists(idx, at, n)
  BY <1>1, <1>3 DEF Lists, Rising
<1>5. /\ Picked(seq, at) \in Seq(A) /\ Len(Picked(seq, at)) = Len(idx)
      /\ \A j \in 1..Len(idx) : Picked(seq, at)[j] = seq[idx[j]]
  BY <1>4, PickedListed
<1>6. \A j \in 1..n : Picked(seq, at)[j] = seq[j]
  BY <1>3, <1>5
<1> DEFINE r == Picked(seq, at)
<1>7. r \in Seq(A) /\ Len(r) = Len(seq) /\ \A j \in 1..Len(r) : r[j] = seq[j]
  BY <1>3, <1>5, <1>6
<1> HIDE DEF r
<1>8. r = seq
  BY <1>7, SeqEqual
<1> QED
  BY <1>8 DEF r
-----------------------------------------------------------------------------
(* Dot segments *)

Dots == {Dot, DotDot}

\* _resolve_dot_segments, segment by segment, for segments of B.
DotRun(f, segs, B) ==
  /\ f \in [0..Len(segs) -> Seq(B)] /\ f[0] = <<>>
  /\ \A i \in 1..Len(segs) : f[i] = DotStep(f[i - 1], segs[i])

LEMMA DotStepType ==
  ASSUME NEW B, NEW out \in Seq(B), NEW seg, seg \notin Dots => seg \in B
  PROVE  DotStep(out, seg) \in Seq(B)
<1>1. CASE seg \notin Dots
  <2>1. Append(out, seg) \in Seq(B)
    BY <1>1, AppendProperties
  <2> QED BY <1>1, <2>1 DEF DotStep, Dots
<1>2. CASE seg \in Dots
  <2>1. out # <<>> => Front(out) \in Seq(B)
    BY FrontAt
  <2> QED BY <1>2, <2>1 DEF DotStep, Dots
<1> QED
  BY <1>1, <1>2

LEMMA DotRuns ==
  ASSUME NEW A, NEW segs \in Seq(A), NEW B,
         \A i \in 1..Len(segs) : segs[i] \notin Dots => segs[i] \in B
  PROVE  \E f : /\ DotRun(f, segs, B)
                /\ ResolveDotSegments(segs) =
                     IF f[Len(segs)] = <<>> THEN << <<>> >> ELSE f[Len(segs)]
<1> DEFINE N == Len(segs)
           S == Seq(B)
           none == <<>>
           Rec(f) == [n \in 0..N |-> IF n = 0 THEN none ELSE DotStep(f[n - 1], segs[n])]
           step == [p \in S \X (1..N) |-> DotStep(p[1], segs[p[2]])]
           g == CHOOSE f : f = Rec(f)
<1>1. N \in Nat
  OBVIOUS
<1>2. none \in S
  OBVIOUS
<1>3. \A out \in S, i \in 1..N : DotStep(out, segs[i]) \in S
  BY DotStepType
<1>4. Scan(segs, <<>>, DotStep) = g[N]
  BY DEF Scan
<1>5. ResolveDotSegments(segs) = IF g[N] = <<>> THEN << <<>> >> ELSE g[N]
  BY <1>4 DEF ResolveDotSegments
<1> HIDE DEF S, N, none
<1>6. /\ step \in [S \X (1..N) -> S]
      /\ \A out \in S, i \in 1..N : step[<<out, i>>] = DotStep(out, segs[i])
  BY <1>3
<1> HIDE DEF step
<1>7. g = Rec(g)
  <2>1. PICK f : Recurses(f, N, S, none, step)
    BY <1>1, <1>2, <1>6, Recursion
  <2>2. f \in [0..N -> S] /\ f[0] = none /\ \A i \in 1..N : f[i] = step[<<f[i - 1], i>>]
    BY <2>1 DEF Recurses
  <2>3. \A i \in 1..N : f[i - 1] \in S
    BY <2>2, <1>1
  <2>4. \A i \in 1..N : f[i] = DotStep(f[i - 1], segs[i])
    BY <2>2, <2>3, <1>6
  <2>5. f = Rec(f)
    BY <2>2, <2>4, <1>1
  <2> HIDE DEF Rec
  <2> QED BY <2>5
<1> HIDE DEF g
<1>8. /\ DOMAIN g = 0..N /\ g = [n \in 0..N |-> g[n]] /\ g[0] = none
      /\ \A i \in 1..N : g[i] = DotStep(g[i - 1], segs[i])
  BY <1>1, <1>7
<1> DEFINE T == {i \in 0..N : g[i] \in S}
<1>9. 0..N \subseteq T
  <2>1. 0 \in T
    BY <1>1, <1>2, <1>8
  <2>2. ASSUME NEW i \in 0..(N - 1), i \in T PROVE i + 1 \in T
    <3>1. i + 1 \in 1..N /\ (i + 1) - 1 = i /\ i + 1 \in 0..N
      BY <1>1
    <3>2. g[i + 1] = DotStep(g[i], segs[i + 1])
      BY <1>8, <3>1
    <3> QED BY <1>3, <2>2, <3>1, <3>2
  <2> HIDE DEF T
  <2> QED BY <1>1, <2>1, <2>2, Induction
<1>10. g \in [0..N -> S]
  BY <1>8, <1>9
<1>11. DotRun(g, segs, B)
  BY <1>8, <1>10 DEF DotRun, N, S, none
<1> QED
  BY <1>5, <1>11 DEF N

LEMMA ResolvedType ==
  ASSUME NEW A, NEW segs \in Seq(A), NEW B, <<>> \in B,
         \A i \in 1..Len(segs) : segs[i] \notin Dots => segs[i] \in B
  PROVE  ResolveDotSegments(segs) \in Seq(B) \ {<<>>}
<1>1. PICK f : /\ DotRun(f, segs, B)
               /\ ResolveDotSegments(segs) =
                    IF f[Len(segs)] = <<>> THEN << <<>> >> ELSE f[Len(segs)]
  BY DotRuns
<1>2. f[Len(segs)] \in Seq(B)
  <2>1. Len(segs) \in 0..Len(segs)
    OBVIOUS
  <2> QED BY <1>1, <2>1 DEF DotRun
<1>3. << <<>> >> \in Seq(B) \ {<<>>}
  OBVIOUS
<1> QED
  BY <1>1, <1>2, <1>3

\* Where there are none nothing is resolved.
LEMMA ResolvedStays ==
  ASSUME NEW A, NEW segs \in Seq(A), segs # <<>>, \A i \in 1..Len(segs) : segs[i] \notin Dots
  PROVE  ResolveDotSegments(segs) = segs
<1> DEFINE n == Len(segs)
<1>1. n \in Nat /\ \A i \in 1..n : segs[i] \in A
  OBVIOUS
<1>2. PICK f : /\ DotRun(f, segs, A)
               /\ ResolveDotSegments(segs) = IF f[n] = <<>> THEN << <<>> >> ELSE f[n]
  BY <1>1, DotRuns
<1>3. /\ f \in [0..n -> Seq(A)] /\ f[0] = <<>>
      /\ \A i \in 1..n : f[i] = DotStep(f[i - 1], segs[i])
  BY <1>2 DEF DotRun
<1> HIDE DEF n
<1> DEFINE T == {i \in 0..n : Len(f[i]) = i /\ \A j \in 1..i : f[i][j] = segs[j]}
<1>4. 0 \in T
  BY <1>1, <1>3
<1>5. ASSUME NEW i \in 0..(n - 1), i \in T PROVE i + 1 \in T
  <2>1. i + 1 \in 1..n /\ (i + 1) - 1 = i /\ i + 1 \in 0..n /\ i \in 0..n /\ i \in Nat
    BY <1>1
  <2>2. f[i] \in Seq(A) /\ f[i + 1] = DotStep(f[i], segs[i + 1]) /\ segs[i + 1] \in A
    BY <1>1, <1>3, <2>1
  <2>3. f[i + 1] = Append(f[i], segs[i + 1])
    <3>1. segs[i + 1] \notin Dots
      BY <2>1 DEF n
    <3> QED BY <2>2, <3>1 DEF DotStep, Dots
  <2>4. /\ Len(Append(f[i], segs[i + 1])) = Len(f[i]) + 1
        /\ \A q \in 1..Len(f[i]) : Append(f[i], segs[i + 1])[q] = f[i][q]
        /\ Append(f[i], segs[i + 1])[Len(f[i]) + 1] = segs[i + 1]
    BY <2>2, AppendAt
  <2>5. Len(f[i]) = i /\ \A j \in 1..i : f[i][j] = segs[j]
    BY <1>5
  <2>6. /\ Len(f[i + 1]) = i + 1 /\ f[i + 1][i + 1] = segs[i + 1]
        /\ \A q \in 1..i : f[i + 1][q] = segs[q]
    BY <2>3, <2>4, <2>5
  <2>7. \A q \in 1..(i + 1) : q \in 1..i \/ q = i + 1
    BY <2>1
  <2> QED BY <2>1, <2>6, <2>7
<1> HIDE DEF T
<1>6. 0..n \subseteq T
  BY <1>1, <1>4, <1>5, Induction
<1> DEFINE r == f[n]
<1>7. r \in Seq(A) /\ Len(r) = n /\ \A j \in 1..n : r[j] = segs[j]
  <2>1. n \in T /\ n \in 0..n
    BY <1>1, <1>6
  <2> QED BY <1>3, <2>1 DEF T
<1> HIDE DEF r
<1>8. r = segs
  BY <1>7, SeqEqual DEF n
<1> QED
  BY <1>2, <1>8 DEF r
-----------------------------------------------------------------------------
(* The segments that are left are those that are not cancelled *)

Ups(segs) == {k \in DOMAIN segs : segs[k] = DotDot}
Stays(segs) == {k \in DOMAIN segs : segs[k] \notin Dots}

Count(i, j, K) == Cardinality({k \in i..j : k \in K})

\* Of the first n segments, those that are ordinary and not cancelled by the
\* n-th.
Left(n, up, stay) ==
  {i \in 1..n : i \in stay /\ \A j \in i..n : Count(i, j, up) < Count(i, j, stay)}

LEMMA CountStep ==
  ASSUME NEW K, NEW n \in Nat, NEW i \in 1..(n + 1)
  PROVE  /\ Count(i, n, K) \in Nat /\ Count(i, n + 1, K) \in Nat
         /\ n + 1 \in K => Count(i, n + 1, K) = Count(i, n, K) + 1
         /\ n + 1 \notin K => Count(i, n + 1, K) = Count(i, n, K)
         /\ i = n + 1 => Count(i, n, K) = 0
<1> DEFINE S == {k \in i..n : k \in K}
           T == {k \in i..(n + 1) : k \in K}
<1>1. IsFiniteSet(S) /\ IsFiniteSet(T)
  <2>1. IsFiniteSet(i..n) /\ IsFiniteSet(i..(n + 1))
    BY FS_Interval
  <2>2. S \subseteq i..n /\ T \subseteq i..(n + 1)
    OBVIOUS
  <2> HIDE DEF S, T
  <2> QED BY <2>1, <2>2, FS_Subset
<1>2. n + 1 \notin S /\ i..(n + 1) = (i..n) \cup {n + 1}
  OBVIOUS
<1>3. n + 1 \in K => T = S \cup {n + 1}
  BY <1>2
<1>4. n + 1 \notin K => T = S
  BY <1>2
<1>5. i = n + 1 => S = {}
  OBVIOUS
<1>6. Count(i, n, K) = Cardinality(S) /\ Count(i, n + 1, K) = Cardinality(T)
  BY DEF Count
<1> HIDE DEF S, T
<1>7. Cardinality(S) \in Nat /\ Cardinality(T) \in Nat
  BY <1>1, FS_CardinalityType
<1>8. n + 1 \in K => Cardinality(T) = Cardinality(S) + 1
  BY <1>1, <1>2, <1>3, FS_AddElement
<1>9. i = n + 1 => Cardinality(S) = 0
  BY <1>5, FS_EmptySet
<1> QED
  BY <1>4, <1>6, <1>7, <1>8, <1>9

LEMMA CountType ==
  ASSUME NEW K, NEW i \in Nat, NEW j \in Nat
  PROVE  Count(i, j, K) \in Nat
<1>1. IsFiniteSet(i..j)
  BY FS_Interval
<1>2. {k \in i..j : k \in K} \subseteq i..j
  OBVIOUS
<1>3. IsFiniteSet({k \in i..j : k \in K})
  BY <1>1, <1>2, FS_Subset
<1> QED
  BY <1>3, FS_CardinalityType DEF Count

\* What one segment more changes.
LEMMA LeftStep ==
  ASSUME NEW n \in Nat, NEW up, NEW stay
  PROVE  /\ \A i \in 1..n : i \in Left(n + 1, up, stay) <=>
              /\ i \in Left(n, up, stay)
              /\ Count(i, n + 1, up) < Count(i, n + 1, stay)
         /\ n + 1 \in stay /\ n + 1 \notin up => n + 1 \in Left(n + 1, up, stay)
         /\ n + 1 \notin stay => n + 1 \notin Left(n + 1, up, stay)
<1>1. ASSUME NEW i \in 1..n
      PROVE  i \in Left(n + 1, up, stay) <=>
               /\ i \in Left(n, up, stay)
               /\ Count(i, n + 1, up) < Count(i, n + 1, stay)
  <2>1. i..(n + 1) = (i..n) \cup {n + 1} /\ i \in 1..(n + 1)
    OBVIOUS
  <2> QED BY <2>1 DEF Left
<1>2. ASSUME n + 1 \in stay, n + 1 \notin up PROVE n + 1 \in Left(n + 1, up, stay)
  <2>1. n + 1 \in 1..(n + 1) /\ (n + 1)..(n + 1) = {n + 1}
    OBVIOUS
  <2>2. Count(n + 1, n + 1, up) = 0 /\ Count(n + 1, n + 1, stay) = 1
    <3>1. /\ Count(n + 1, n + 1, up) = Count(n + 1, n, up) /\ Count(n + 1, n, up) = 0
          /\ Count(n + 1, n + 1, stay) = Count(n + 1, n, stay) + 1 /\ Count(n + 1, n, stay) = 0
      BY <1>2, <2>1, CountStep
    <3> QED BY <3>1
  <2> QED BY <1>2, <2>1, <2>2 DEF Left
<1>3. n + 1 \notin stay => n + 1 \notin Left(n + 1, up, stay)
  BY DEF Left
<1> QED
  BY <1>1, <1>2, <1>3

\* idx lists the segments that are left, and each has as many ordinary ones
\* from it on, less the "..", as there are left from it on.
Stack(idx, n, up, stay) ==
  /\ Lists(idx, Left(n, up, stay), n)
  /\ \A j \in 1..Len(idx) :
       Count(idx[j], n, stay) = Count(idx[j], n, up) + ((Len(idx) - j) + 1)

LEMMA StackFacts ==
  ASSUME NEW idx, NEW n \in Nat, NEW up, NEW stay, Stack(idx, n, up, stay)
  PROVE  /\ idx \in Seq(1..n) /\ Len(idx) \in Nat
         /\ \A j \in 1..Len(idx) : idx[j] \in 1..n
         /\ \A j, k \in 1..Len(idx) : j < k => idx[j] < idx[k]
         /\ \A i \in 1..n : i \in Left(n, up, stay) <=> \E j \in 1..Len(idx) : idx[j] = i
         /\ \A j \in 1..Len(idx) :
              Count(idx[j], n, stay) = Count(idx[j], n, up) + ((Len(idx) - j) + 1)
BY DEF Stack, Lists, Rising

LEMMA SkipStack ==
  ASSUME NEW idx, NEW n \in Nat, NEW up, NEW stay, Stack(idx, n, up, stay),
         n + 1 \notin stay, n + 1 \in up => idx = <<>>
  PROVE  Stack(idx, n + 1, up, stay)
<1> DEFINE m == Len(idx)
<1>1. /\ idx \in Seq(1..n) /\ m \in Nat
      /\ \A j \in 1..m : idx[j] \in 1..n
      /\ \A j, k \in 1..m : j < k => idx[j] < idx[k]
      /\ \A i \in 1..n : i \in Left(n, up, stay) <=> \E j \in 1..m : idx[j] = i
      /\ \A j \in 1..m : Count(idx[j], n, stay) = Count(idx[j], n, up) + ((m - j) + 1)
  BY StackFacts
<1>2. n + 1 \in up => m = 0
  OBVIOUS
<1> HIDE DEF m
<1>3. ASSUME NEW j \in 1..m
      PROVE  /\ Count(idx[j], n + 1, stay) = Count(idx[j], n + 1, up) + ((m - j) + 1)
             /\ Count(idx[j], n + 1, up) < Count(idx[j], n + 1, stay)
  <2>1. idx[j] \in 1..(n + 1) /\ n + 1 \notin up
    BY <1>1, <1>2
  <2> DEFINE i == idx[j]
  <2>2. Count(i, n, stay) = Count(i, n, up) + ((m - j) + 1)
    BY <1>1
  <2> HIDE DEF i
  <2>3. /\ Count(i, n + 1, stay) = Count(i, n, stay) /\ Count(i, n + 1, up) = Count(i, n, up)
        /\ Count(i, n, up) \in Nat
    BY <2>1, CountStep DEF i
  <2>4. (m - j) + 1 >= 1 /\ (m - j) + 1 \in Nat
    BY <1>1
  <2>5. /\ Count(i, n + 1, stay) = Count(i, n + 1, up) + ((m - j) + 1)
        /\ Count(i, n + 1, up) < Count(i, n + 1, stay)
    BY <2>2, <2>3, <2>4
  <2> QED BY <2>5 DEF i
<1>4. idx \in Seq(1..(n + 1))
  <2>1. 1..n \subseteq 1..(n + 1)
    OBVIOUS
  <2> QED BY <1>1, <2>1, SeqMonotonic
<1>5. ASSUME NEW i \in 1..(n + 1)
      PROVE  i \in Left(n + 1, up, stay) <=> \E j \in 1..m : idx[j] = i
  <2>1. CASE i = n + 1
    <3>1. i \notin Left(n + 1, up, stay)
      BY <2>1, LeftStep
    <3>2. \A j \in 1..m : idx[j] # i
      BY <1>1, <2>1
    <3> QED BY <3>1, <3>2
  <2>2. CASE i # n + 1
    <3>1. i \in 1..n
      BY <2>2
    <3>2. i \in Left(n + 1, up, stay) <=>
            i \in Left(n, up, stay) /\ Count(i, n + 1, up) < Count(i, n + 1, stay)
      BY <3>1, LeftStep
    <3> QED BY <1>1, <1>3, <3>1, <3>2
  <2> QED BY <2>1, <2>2
<1>6. Rising(idx, n + 1) /\ Lists(idx, Left(n + 1, up, stay), n + 1)
  BY <1>1, <1>4, <1>5 DEF Lists, Rising, m
<1> QED
  BY <1>3, <1>6 DEF Stack, m

LEMMA PushStack ==
  ASSUME NEW idx, NEW n \in Nat, NEW up, NEW stay, Stack(idx, n, up, stay),
         n + 1 \in stay, n + 1 \notin up
  PROVE  Stack(Append(idx, n + 1), n + 1, up, stay)
<1> DEFINE m == Len(idx)
           new == Append(idx, n + 1)
<1>1. /\ idx \in Seq(1..n) /\ m \in Nat
      /\ \A j \in 1..m : idx[j] \in 1..n
      /\ \A j, k \in 1..m : j < k => idx[j] < idx[k]
      /\ \A i \in 1..n : i \in Left(n, up, stay) <=> \E j \in 1..m : idx[j] = i
      /\ \A j \in 1..m : Count(idx[j], n, stay) = Count(idx[j], n, up) + ((m - j) + 1)
  BY StackFacts
<1>2. idx \in Seq(1..(n + 1)) /\ n + 1 \in 1..(n + 1)
  <2>1. 1..n \subseteq 1..(n + 1) /\ n + 1 \in 1..(n + 1)
    OBVIOUS
  <2> QED BY <1>1, <2>1, SeqMonotonic
<1>3. /\ new \in Seq(1..(n + 1)) /\ Len(new) = m + 1 /\ new[m + 1] = n + 1
      /\ \A j \in 1..m : new[j] = idx[j]
  BY <1>2, AppendAt
<1> HIDE DEF m, new
<1>4. \A j \in 1..(m + 1) : j \in 1..m \/ j = m + 1
  BY <1>1
<1>5. ASSUME NEW j \in 1..(m + 1)
      PROVE  /\ new[j] \in 1..(n + 1)
             /\ Count(new[j], n + 1, stay) = Count(new[j], n + 1, up) + (((m + 1) - j) + 1)
             /\ Count(new[j], n + 1, up) < Count(new[j], n + 1, stay)
  <2> DEFINE i == new[j]
  <2>0. (j \in 1..m /\ i = idx[j]) \/ (j = m + 1 /\ i = n + 1)
    BY <1>3, <1>4
  <2>1. i \in 1..(n + 1)
    BY <1>1, <2>0
  <2>2. Count(i, n, stay) = Count(i, n, up) + ((m - j) + 1)
    <3>1. CASE j \in 1..m /\ i = idx[j]
      BY <1>1, <3>1
    <3>2. CASE j = m + 1 /\ i = n + 1
      <4> HIDE DEF i
      <4>1. Count(i, n, stay) = 0 /\ Count(i, n, up) = 0
        BY <2>1, <3>2, CountStep
      <4> QED BY <1>1, <3>2, <4>1
    <3> QED BY <2>0, <3>1, <3>2
  <2> HIDE DEF i
  <2>3. /\ Count(i, n + 1, stay) = Count(i, n, stay) + 1 /\ Count(i, n + 1, up) = Count(i, n, up)
        /\ Count(i, n, up) \in Nat
    BY <2>1, CountStep
  <2>4. (m - j) + 1 >= 0 /\ (m - j) + 1 \in Int /\ ((m + 1) - j) + 1 = ((m - j) + 1) + 1
    BY <1>1
  <2>5. /\ Count(i, n + 1, stay) = Count(i, n + 1, up) + (((m + 1) - j) + 1)
        /\ Count(i, n + 1, up) < Count(i, n + 1, stay)
    BY <2>2, <2>3, <2>4
  <2> QED BY <2>1, <2>5 DEF i
<1>6. ASSUME NEW i \in 1..(n + 1)
      PROVE  i \in Left(n + 1, up, stay) <=> \E j \in 1..(m + 1) : new[j] = i
  <2>1. CASE i = n + 1
    <3>1. i \in Left(n + 1, up, stay)
      BY <2>1, LeftStep
    <3>2. m + 1 \in 1..(m + 1) /\ new[m + 1] = i
      BY <1>1, <1>3, <2>1
    <3> QED BY <3>1, <3>2
  <2>2. CASE i # n + 1
    <3>1. i \in 1..n
      BY <2>2
    <3>2. i \in Left(n + 1, up, stay) <=>
            i \in Left(n, up, stay) /\ Count(i, n + 1, up) < Count(i, n + 1, stay)
      BY <3>1, LeftStep
    <3>3. (\E j \in 1..(m + 1) : new[j] = i) <=> \E j \in 1..m : idx[j] = i
      <4>1. ASSUME NEW j \in 1..(m + 1), new[j] = i PROVE j \in 1..m /\ idx[j] = i
        BY <1>3, <1>4, <2>2, <4>1
      <4>2. ASSUME NEW j \in 1..m, idx[j] = i PROVE j \in 1..(m + 1) /\ new[j] = i
        BY <1>1, <1>3, <4>2
      <4> QED BY <4>1, <4>2
    <3>4. ASSUME NEW j \in 1..(m + 1), new[j] = i
          PROVE  Count(i, n + 1, up) < Count(i, n + 1, stay)
      BY <1>5, <3>4
    <3> QED BY <1>1, <3>1, <3>2, <3>3, <3>4
  <2> QED BY <2>1, <2>2
<1>7. ASSUME NEW j \in 1..(m + 1), NEW k \in 1..(m + 1), j < k PROVE new[j] < new[k]
  <2>1. j \in 1..m /\ new[j] = idx[j] /\ idx[j] \in 1..n
    BY <1>1, <1>3, <1>7
  <2>2. (k \in 1..m /\ new[k] = idx[k]) \/ (k = m + 1 /\ new[k] = n + 1)
    BY <1>3, <1>4
  <2> QED BY <1>1, <1>7, <2>1, <2>2
<1>8. Rising(new, n + 1) /\ Lists(new, Left(n + 1, up, stay), n + 1)
  BY <1>3, <1>6, <1>7 DEF Lists, Rising
<1>9. Stack(new, n + 1, up, stay)
  BY <1>3, <1>5, <1>8 DEF Stack
<1> QED
  BY <1>9 DEF new

LEMMA PopStack ==
  ASSUME NEW idx, NEW n \in Nat, NEW up, NEW stay, Stack(idx, n, up, stay),
         n + 1 \in up, n + 1 \notin stay, idx # <<>>
  PROVE  Stack(Front(idx), n + 1, up, stay)
<1> DEFINE m == Len(idx)
           new == Front(idx)
<1>1. /\ idx \in Seq(1..n) /\ m \in Nat
      /\ \A j \in 1..m : idx[j] \in 1..n
      /\ \A j, k \in 1..m : j < k => idx[j] < idx[k]
      /\ \A i \in 1..n : i \in Left(n, up, stay) <=> \E j \in 1..m : idx[j] = i
      /\ \A j \in 1..m : Count(idx[j], n, stay) = Count(idx[j], n, up) + ((m - j) + 1)
  BY StackFacts
<1>2. /\ m \in Nat \ {0} /\ new \in Seq(1..n) /\ Len(new) = m - 1
      /\ \A j \in 1..(m - 1) : new[j] = idx[j]
  BY <1>1, FrontAt
<1>3. new \in Seq(1..(n + 1))
  <2>1. 1..n \subseteq 1..(n + 1)
    OBVIOUS
  <2> HIDE DEF new
  <2> QED BY <1>2, <2>1, SeqMonotonic
<1> HIDE DEF m, new
<1>4. ASSUME NEW j \in 1..m
      PROVE  Count(idx[j], n + 1, stay) = Count(idx[j], n + 1, up) + (((m - 1) - j) + 1)
             /\ Count(idx[j], n + 1, up) \in Nat
  <2> DEFINE i == idx[j]
  <2>1. i \in 1..(n + 1) /\ Count(i, n, stay) = Count(i, n, up) + ((m - j) + 1)
    BY <1>1
  <2> HIDE DEF i
  <2>2. /\ Count(i, n + 1, stay) = Count(i, n, stay) /\ Count(i, n + 1, up) = Count(i, n, up) + 1
        /\ Count(i, n, up) \in Nat
    BY <2>1, CountStep
  <2>3. (m - j) + 1 = (((m - 1) - j) + 1) + 1 /\ (((m - 1) - j) + 1) \in Int
    BY <1>1
  <2>4. Count(i, n + 1, stay) = Count(i, n + 1, up) + (((m - 1) - j) + 1)
        /\ Count(i, n + 1, up) \in Nat
    BY <2>1, <2>2, <2>3
  <2> QED BY <2>4 DEF i
<1>5. ASSUME NEW j \in 1..m
      PROVE  Count(idx[j], n + 1, up) < Count(idx[j], n + 1, stay) <=> j \in 1..(m - 1)
  <2>1. j \in 1..(m - 1) <=> ((m - 1) - j) + 1 > 0
    BY <1>1
  <2> QED BY <1>1, <1>4, <2>1
<1>6. ASSUME NEW i \in 1..(n + 1)
      PROVE  i \in Left(n + 1, up, stay) <=> \E j \in 1..(m - 1) : new[j] = i
  <2>1. CASE i = n + 1
    <3>1. i \notin Left(n + 1, up, stay)
      BY <2>1, LeftStep
    <3>2. \A j \in 1..(m - 1) : new[j] = idx[j] /\ j \in 1..m
      BY <1>1, <1>2
    <3>3. \A j \in 1..(m - 1) : new[j] # i
      BY <1>1, <2>1, <3>2
    <3> QED BY <3>1, <3>3
  <2>2. CASE i # n + 1
    <3>1. i \in 1..n
      BY <2>2
    <3>2. i \in Left(n + 1, up, stay) <=>
            i \in Left(n, up, stay) /\ Count(i, n + 1, up) < Count(i, n + 1, stay)
      BY <3>1, LeftStep
    <3>3. i \in Left(n, up, stay) <=> \E j \in 1..m : idx[j] = i
      BY <1>1, <3>1
    <3>4. \A j \in 1..(m - 1) : j \in 1..m /\ new[j] = idx[j]
      BY <1>1, <1>2
    <3>5. ASSUME i \in Left(n + 1, up, stay) PROVE \E j \in 1..(m - 1) : new[j] = i
      <4>1. PICK j \in 1..m : idx[j] = i
        BY <3>2, <3>3, <3>5
      <4>2. j \in 1..(m - 1)
        BY <1>5, <3>2, <3>5, <4>1
      <4> QED BY <3>4, <4>1, <4>2
    <3>6. ASSUME NEW j \in 1..(m - 1), new[j] = i PROVE i \in Left(n + 1, up, stay)
      <4>1. j \in 1..m /\ idx[j] = i
        BY <3>4, <3>6
      <4>2. Count(i, n + 1, up) < Count(i, n + 1, stay)
        BY <1>5, <4>1
      <4> QED BY <3>2, <3>3, <4>1, <4>2
    <3> QED BY <3>5, <3>6
  <2> QED BY <2>1, <2>2
<1>7. ASSUME NEW j \in 1..(m - 1), NEW k \in 1..(m - 1), j < k PROVE new[j] < new[k]
  <2>1. j \in 1..m /\ k \in 1..m /\ new[j] = idx[j] /\ new[k] = idx[k]
    BY <1>1, <1>2
  <2> QED BY <1>1, <1>7, <2>1
<1>8. Rising(new, n + 1) /\ Lists(new, Left(n + 1, up, stay), n + 1)
  BY <1>2, <1>3, <1>6, <1>7 DEF Lists, Rising
<1>9. \A j \in 1..(m - 1) :
        Count(new[j], n + 1, stay) = Count(new[j], n + 1, up) + (((m - 1) - j) + 1)
  <2>1. \A j \in 1..(m - 1) : j \in 1..m /\ new[j] = idx[j]
    BY <1>1, <1>2
  <2> QED BY <1>4, <2>1
<1>10. Stack(new, n + 1, up, stay)
  BY <1>2, <1>8, <1>9 DEF Stack
<1> QED
  BY <1>10 DEF new
LEMMA DotsDiffer == Dot # DotDot /\ Dot # <<>> /\ DotDot # <<>>
<1>1. Len(Dot) = 1 /\ Len(DotDot) = 2 /\ Len(<<>>) = 0
  BY DEF Dot, DotDot
<1> QED
  BY <1>1

LEMMA Classes ==
  ASSUME NEW A, NEW segs \in Seq(A), NEW i \in 1..Len(segs)
  PROVE  /\ i \in Ups(segs) <=> segs[i] = DotDot
         /\ i \in Stays(segs) <=> segs[i] \notin Dots
         /\ ~(i \in Ups(segs) /\ i \in Stays(segs))
BY DEF Ups, Stays, Dots

\* Where no empty segment stands before a "..", as in UrlIdentity!PlainPath,
\* and the path does not end in a dot segment.
NoneHidden(segs) ==
  /\ segs # <<>> /\ segs[Len(segs)] \notin Dots
  /\ \A i, j \in 1..Len(segs) : i < j /\ segs[i] = <<>> => segs[j] # DotDot

LeftOf(segs) == Left(Len(segs), Ups(segs), Stays(segs))

\* A stack of segments: those of segs at the positions idx.
Shows(out, segs, idx) ==
  Len(out) = Len(idx) /\ \A j \in 1..Len(idx) : out[j] = segs[idx[j]]

LEMMA ResolveStep ==
  ASSUME NEW A, NEW segs \in Seq(A), NoneHidden(segs), NEW n \in 0..(Len(segs) - 1),
         NEW out \in Seq(A), NEW idx, Stack(idx, n, Ups(segs), Stays(segs)), Shows(out, segs, idx)
  PROVE  \E new : /\ Stack(new, n + 1, Ups(segs), Stays(segs))
                  /\ Shows(DotStep(out, segs[n + 1]), segs, new)
<1> DEFINE seg == segs[n + 1]
           m == Len(idx)
<1>1. n \in Nat /\ n + 1 \in 1..Len(segs) /\ seg \in A /\ Len(segs) \in Nat
  OBVIOUS
<1>2. /\ idx \in Seq(1..n) /\ m \in Nat /\ \A j \in 1..m : idx[j] \in 1..n
  BY <1>1, StackFacts
<1>3. Len(out) = m /\ \A j \in 1..m : out[j] = segs[idx[j]]
  BY DEF Shows
<1>4. /\ n + 1 \in Ups(segs) <=> seg = DotDot
      /\ n + 1 \in Stays(segs) <=> seg \notin Dots
  BY <1>1, Classes
<1> HIDE DEF seg, m
<1>5. CASE seg \notin Dots
  <2> DEFINE new == Append(idx, n + 1)
             now == Append(out, seg)
  <2>1. DotStep(out, seg) = now
    BY <1>5 DEF DotStep, Dots
  <2>2. Stack(new, n + 1, Ups(segs), Stays(segs))
    BY <1>1, <1>4, <1>5, PushStack DEF Dots
  <2>3. /\ Len(new) = m + 1 /\ new[m + 1] = n + 1 /\ \A j \in 1..m : new[j] = idx[j]
    <3>1. idx \in Seq(1..(n + 1)) /\ n + 1 \in 1..(n + 1)
      <4>1. 1..n \subseteq 1..(n + 1) /\ n + 1 \in 1..(n + 1)
        BY <1>1
      <4> QED BY <1>2, <4>1, SeqMonotonic
    <3> QED BY <3>1, AppendAt DEF m
  <2>4. /\ Len(now) = m + 1 /\ now[m + 1] = seg /\ \A j \in 1..m : now[j] = out[j]
    <3>1. /\ Len(now) = Len(out) + 1 /\ now[Len(out) + 1] = seg
          /\ \A j \in 1..Len(out) : now[j] = out[j]
      BY <1>1, AppendAt
    <3> HIDE DEF now
    <3> QED BY <1>3, <3>1
  <2> HIDE DEF new, now
  <2>5. \A j \in 1..(m + 1) : j \in 1..m \/ j = m + 1
    BY <1>2
  <2>6. \A j \in 1..(m + 1) : now[j] = segs[new[j]]
    BY <1>3, <2>3, <2>4, <2>5 DEF seg
  <2>7. Shows(now, segs, new)
    BY <2>3, <2>4, <2>6 DEF Shows
  <2> QED BY <2>1, <2>2, <2>7 DEF seg
<1>6. CASE seg \in Dots /\ (seg = DotDot => out = <<>>)
  <2>1. DotStep(out, seg) = out
    BY <1>6 DEF DotStep, Dots
  <2>2. seg = DotDot => idx = <<>>
    BY <1>2, <1>3, <1>6 DEF m
  <2>3. Stack(idx, n + 1, Ups(segs), Stays(segs))
    BY <1>1, <1>4, <1>6, <2>2, SkipStack
  <2> QED BY <2>1, <2>3 DEF seg
<1>7. CASE seg = DotDot /\ out # <<>>
  <2> DEFINE new == Front(idx)
             now == Front(out)
  <2>1. idx # <<>> /\ m \in 1..m
    BY <1>2, <1>3, <1>7 DEF m
  <2>2. Last(out) = segs[idx[m]]
    <3>1. Last(out) = out[Len(out)]
      BY <1>7, FrontAt
    <3> QED BY <1>3, <2>1, <3>1
  <2>3. segs[idx[m]] # <<>>
    <3>1. idx[m] \in 1..n /\ idx[m] < n + 1 /\ idx[m] \in 1..Len(segs)
      BY <1>1, <1>2, <2>1
    <3> QED BY <1>1, <1>7, <3>1 DEF NoneHidden, seg
  <2>4. DotStep(out, seg) = now
    BY <1>7, <2>2, <2>3 DEF DotStep, Dots
  <2>5. n + 1 \in Ups(segs) /\ n + 1 \notin Stays(segs)
    BY <1>4, <1>7 DEF Dots
  <2>6. Stack(new, n + 1, Ups(segs), Stays(segs))
    BY <1>1, <2>1, <2>5, PopStack
  <2>7. Len(new) = m - 1 /\ \A j \in 1..(m - 1) : new[j] = idx[j]
    <3>1. /\ Len(new) = Len(idx) - 1 /\ \A j \in 1..(Len(idx) - 1) : new[j] = idx[j]
      BY <1>2, <2>1, FrontAt
    <3> QED BY <3>1 DEF m
  <2>8. Len(now) = m - 1 /\ \A j \in 1..(m - 1) : now[j] = out[j]
    <3>1. /\ Len(now) = Len(out) - 1 /\ \A j \in 1..(Len(out) - 1) : now[j] = out[j]
      BY <1>7, FrontAt
    <3> HIDE DEF now
    <3> QED BY <1>3, <3>1
  <2> HIDE DEF new, now
  <2>9. \A j \in 1..(m - 1) : now[j] = segs[new[j]]
    <3>1. \A j \in 1..(m - 1) : j \in 1..m
      BY <1>2
    <3> QED BY <1>3, <2>7, <2>8, <3>1
  <2>10. Shows(now, segs, new)
    BY <2>7, <2>8, <2>9 DEF Shows
  <2> QED BY <2>4, <2>6, <2>10 DEF seg
<1> QED
  BY <1>5, <1>6, <1>7 DEF Dots

LEMMA EndIsLeft ==
  ASSUME NEW A, NEW segs \in Seq(A), segs # <<>>, segs[Len(segs)] \notin Dots
  PROVE  Len(segs) \in LeftOf(segs)
<1> DEFINE n == Len(segs) - 1
<1>1. n \in Nat /\ n + 1 = Len(segs) /\ Len(segs) \in 1..Len(segs)
  OBVIOUS
<1>2. Len(segs) \in Stays(segs) /\ Len(segs) \notin Ups(segs)
  BY <1>1, Classes
<1> DEFINE up == Ups(segs)
           stay == Stays(segs)
<1>3. n + 1 \in stay /\ n + 1 \notin up
  BY <1>1, <1>2
<1>4. n \in Nat
  BY <1>1
<1>5. Left(Len(segs), up, stay) = Left(n + 1, up, stay)
  BY <1>1
<1> HIDE DEF n, up, stay
<1>6. n + 1 \in Left(n + 1, up, stay)
  BY <1>3, <1>4, LeftStep
<1> QED
  BY <1>1, <1>5, <1>6 DEF LeftOf, up, stay

\* What the stack of the code comes to.
LEMMA ResolveKept ==
  ASSUME NEW A, NEW segs \in Seq(A), NoneHidden(segs)
  PROVE  \E idx : /\ Lists(idx, LeftOf(segs), Len(segs))
                  /\ ResolveDotSegments(segs) \in Seq(A)
                  /\ Shows(ResolveDotSegments(segs), segs, idx)
<1> DEFINE n == Len(segs)
           up == Ups(segs)
           stay == Stays(segs)
<1>1. n \in Nat /\ \A i \in 1..n : segs[i] \in A
  OBVIOUS
<1>2. PICK f : /\ DotRun(f, segs, A)
               /\ ResolveDotSegments(segs) = IF f[n] = <<>> THEN << <<>> >> ELSE f[n]
  BY <1>1, DotRuns
<1>3. /\ f \in [0..n -> Seq(A)] /\ f[0] = <<>>
      /\ \A i \in 1..n : f[i] = DotStep(f[i - 1], segs[i])
  BY <1>2 DEF DotRun
<1> DEFINE T == {i \in 0..n : \E idx : Stack(idx, i, up, stay) /\ Shows(f[i], segs, idx)}
<1>4. 0 \in T
  <2>1. Left(0, up, stay) = {} /\ <<>> \in Seq(1..0) /\ Len(<<>>) = 0
    BY DEF Left
  <2>2. Stack(<<>>, 0, up, stay)
    BY <2>1 DEF Stack, Lists, Rising
  <2>3. Shows(f[0], segs, <<>>)
    BY <1>3, <2>1 DEF Shows
  <2>4. 0 \in 0..n
    BY <1>1
  <2> QED BY <2>2, <2>3, <2>4
<1>5. ASSUME NEW i \in 0..(n - 1), i \in T PROVE i + 1 \in T
  <2>1. i + 1 \in 1..n /\ (i + 1) - 1 = i /\ i + 1 \in 0..n /\ i \in 0..n
    BY <1>1
  <2>2. f[i] \in Seq(A) /\ f[i + 1] = DotStep(f[i], segs[i + 1])
    BY <1>3, <2>1
  <2>3. PICK idx : Stack(idx, i, up, stay) /\ Shows(f[i], segs, idx)
    BY <1>5
  <2>4. \E new : Stack(new, i + 1, up, stay) /\ Shows(DotStep(f[i], segs[i + 1]), segs, new)
    BY <2>2, <2>3, ResolveStep
  <2> QED BY <2>1, <2>2, <2>4
<1> HIDE DEF n, T
<1>6. 0..n \subseteq T
  BY <1>1, <1>4, <1>5, Induction
<1>7. PICK idx : Stack(idx, n, up, stay) /\ Shows(f[n], segs, idx)
  <2>1. n \in T
    BY <1>1, <1>6
  <2> QED BY <2>1 DEF T
<1>8. Lists(idx, LeftOf(segs), n) /\ idx \in Seq(1..n)
  BY <1>7 DEF Stack, Lists, Rising, LeftOf, n
<1>9. f[n] \in Seq(A) /\ f[n] # <<>>
  <2>1. n \in LeftOf(segs) /\ n \in 1..n
    <3>1. segs # <<>> /\ segs[Len(segs)] \notin Dots
      BY DEF NoneHidden
    <3>2. n # 0
      BY <3>1 DEF n
    <3> QED BY <1>1, <3>1, <3>2, EndIsLeft DEF n
  <2>2. PICK j \in 1..Len(idx) : idx[j] = n
    BY <1>8, <2>1 DEF Lists
  <2>3. Len(f[n]) = Len(idx) /\ Len(idx) \in Nat
    BY <1>7, <1>8 DEF Shows
  <2>4. Len(f[n]) # 0
    BY <2>2, <2>3
  <2>5. f[n] \in Seq(A)
    BY <1>1, <1>3
  <2> QED BY <2>4, <2>5
<1> QED
  BY <1>2, <1>7, <1>8, <1>9 DEF n

\* And what the origin server is asked for.
LEMMA DirectoryPicks ==
  ASSUME NEW A, NEW segs \in Seq(A), segs # <<>>, segs[Len(segs)] \notin Dots
  PROVE  Directory(segs) = Picked(segs, LeftOf(segs))
<1> DEFINE n == Len(segs)
           left == {i \in DOMAIN segs : segs[i] \notin {Dot, DotDot} /\ ~Cancelled(segs, i)}
<1>1. n \in Nat /\ DOMAIN segs = 1..n
  OBVIOUS
<1>2. ASSUME NEW i \in 1..n, NEW j \in i..n
      PROVE  /\ {k \in i..j : segs[k] = DotDot} = {k \in i..j : k \in Ups(segs)}
             /\ {k \in i..j : segs[k] \notin {Dot, DotDot}} = {k \in i..j : k \in Stays(segs)}
  <2>1. i..j \subseteq DOMAIN segs
    BY <1>1
  <2> QED BY <2>1 DEF Ups, Stays, Dots
<1>3. ASSUME NEW i \in 1..n
      PROVE  Cancelled(segs, i) <=>
               \E j \in (i + 1)..n : ~(Count(i, j, Ups(segs)) < Count(i, j, Stays(segs)))
  <2>1. ASSUME NEW j \in (i + 1)..n
        PROVE  Cardinality({k \in i..j : segs[k] = DotDot})
                   >= Cardinality({k \in i..j : segs[k] \notin {Dot, DotDot}})
                 <=> ~(Count(i, j, Ups(segs)) < Count(i, j, Stays(segs)))
    <3>1. j \in i..n /\ i \in Nat /\ j \in Nat
      BY <1>1
    <3>2. Count(i, j, Ups(segs)) \in Nat /\ Count(i, j, Stays(segs)) \in Nat
      BY <3>1, CountType
    <3>3. /\ Cardinality({k \in i..j : segs[k] = DotDot}) = Count(i, j, Ups(segs))
          /\ Cardinality({k \in i..j : segs[k] \notin {Dot, DotDot}}) = Count(i, j, Stays(segs))
      BY <1>2, <3>1 DEF Count
    <3> QED BY <3>2, <3>3
  <2> QED BY <2>1 DEF Cancelled
<1>4. ASSUME NEW i \in 1..n, i \in Stays(segs)
      PROVE  Count(i, i, Ups(segs)) < Count(i, i, Stays(segs))
  <2> DEFINE p == i - 1
  <2>1. p \in Nat /\ p + 1 = i /\ i \in 1..(p + 1) /\ i \notin Ups(segs)
    BY <1>4, Classes
  <2> HIDE DEF p
  <2>2. /\ Count(i, p + 1, Ups(segs)) = Count(i, p, Ups(segs)) /\ Count(i, p, Ups(segs)) = 0
        /\ Count(i, p + 1, Stays(segs)) = Count(i, p, Stays(segs)) + 1
        /\ Count(i, p, Stays(segs)) = 0
    BY <1>4, <2>1, CountStep
  <2> QED BY <2>1, <2>2
<1>5. ASSUME NEW i \in 1..n PROVE i \in left <=> i \in LeftOf(segs)
  <2>1. i..n = {i} \cup ((i + 1)..n)
    BY <1>1
  <2>2. i \in Stays(segs) <=> segs[i] \notin {Dot, DotDot}
    BY Classes DEF Dots
  <2>3. i \in left <=> i \in Stays(segs) /\ ~Cancelled(segs, i)
    BY <1>1, <2>2
  <2>4. i \in LeftOf(segs) <=>
          /\ i \in Stays(segs)
          /\ \A j \in i..n : Count(i, j, Ups(segs)) < Count(i, j, Stays(segs))
    BY DEF LeftOf, Left
  <2> HIDE DEF left, n
  <2> QED BY <1>3, <1>4, <2>1, <2>3, <2>4
<1>6. left = LeftOf(segs)
  <2>1. left \subseteq 1..n /\ LeftOf(segs) \subseteq 1..n
    BY DEF LeftOf, Left
  <2> HIDE DEF left, n
  <2> QED BY <1>5, <2>1
<1>7. left # {}
  BY <1>6, EndIsLeft
<1>8. Last(segs) \notin {Dot, DotDot}
  BY FrontAt DEF Dots
<1>9. Directory(segs) = Picked(segs, left)
  <2>1. Directory(segs) = IF Last(segs) \in {Dot, DotDot} \/ left = {}
                          THEN Append(Picked(segs, left), <<>>) ELSE Picked(segs, left)
    BY DEF Directory
  <2> HIDE DEF left
  <2> QED BY <1>7, <1>8, <2>1
<1> HIDE DEF left
<1> QED
  BY <1>6, <1>9

-----------------------------------------------------------------------------
(* Keys and values *)

\* Text as parse_qsl sees it.
Spaced(s) == [i \in DOMAIN s |-> IF s[i] = Plus THEN Space ELSE s[i]]

LEMMA SpacedType ==
  ASSUME NEW s \in Strings
  PROVE  /\ Spaced(s) \in Strings /\ Len(Spaced(s)) = Len(s)
         /\ Parsed(s) = Unquote(Spaced(s))
         /\ (\A k \in DOMAIN s : s[k] # Plus) => Spaced(s) = s
<1>1. Len(s) \in Nat /\ DOMAIN s = 1..Len(s) /\ \A i \in 1..Len(s) : s[i] \in Octets
  BY DEF Strings
<1>2. Space \in Octets
  BY Digits
<1>3. Spaced(s) \in [1..Len(s) -> Octets]
  BY <1>1, <1>2 DEF Spaced
<1>4. Spaced(s) \in Seq(Octets) /\ Len(Spaced(s)) = Len(s)
  BY <1>1, <1>3, IsSeqOf
<1>5. ASSUME \A k \in DOMAIN s : s[k] # Plus PROVE Spaced(s) = s
  <2>1. s = [i \in DOMAIN s |-> s[i]]
    BY DEF Strings
  <2>2. Spaced(s) = [i \in DOMAIN s |-> s[i]]
    BY <1>5 DEF Spaced
  <2> QED BY <2>1, <2>2
<1>6. Parsed(s) = Unquote(Spaced(s))
  BY DEF Parsed, Spaced
<1> QED
  BY <1>4, <1>5, <1>6 DEF Strings

LEMMA ParsedType ==
  ASSUME NEW s \in Text
  PROVE  s \in Strings /\ Parsed(s) \in Strings /\ (Parsed(s) = <<>> <=> s = <<>>)
<1>1. s \in Strings
  BY TextStrings
<1>2. Spaced(s) \in Strings /\ Len(Spaced(s)) = Len(s) /\ Parsed(s) = Unquote(Spaced(s))
  BY <1>1, SpacedType
<1>3. Spaced(s) = <<>> <=> s = <<>>
  BY <1>1, <1>2 DEF Strings
<1>4. Parsed(s) \in Strings
  BY <1>2, QuoteType
<1>5. Parsed(s) = <<>> <=> Spaced(s) = <<>>
  BY <1>2, NotEmpty, EmptyTexts
<1> QED
  BY <1>1, <1>3, <1>4, <1>5

\* What the normal form quotes is read back.
LEMMA ParsedQuote ==
  ASSUME NEW x \in Strings
  PROVE  Parsed(Quote(x)) = x
<1>1. Quote(x) \in Strings /\ Legible(Quote(x))
  BY QuoteNormal
<1>2. \A k \in DOMAIN Quote(x) : Quote(x)[k] # Plus
  BY <1>1, LegibleText
<1>3. Parsed(Quote(x)) = Unquote(Quote(x))
  BY <1>1, <1>2, SpacedType
<1> QED
  BY <1>3, UnquoteQuote

LEMMA CanonicalQuote ==
  ASSUME NEW x \in Strings
  PROVE  Canonical(x) = Quote(Unquote(x)) /\ Unquote(x) \in Strings
<1>1. Unquote(x) \in Strings
  BY QuoteType
<1>2. NormalisePercentEncoding(Quote(Unquote(x))) = Quote(Unquote(x))
  BY <1>1, QuoteNormal
<1> QED
  BY <1>1, <1>2 DEF Canonical

\* A text of unreserved bytes stands for itself.
LEMMA UnreservedQuote ==
  \A x \in Strings : (\A k \in DOMAIN x : x[k] \in Unreserved) => Quote(x) = x
<1> DEFINE Clear(x) == \A k \in DOMAIN x : x[k] \in Unreserved
           T == {x \in Strings : Clear(x) => Quote(x) = x}
<1>1. <<>> \in T
  BY EmptyTexts, LegibleEmpty
<1>2. ASSUME NEW c \in Octets, NEW t \in Strings, t \in T
      PROVE  <<c>> \o t \in T
  <2> DEFINE s == <<c>> \o t
  <2>1. /\ s \in Strings /\ s[1] = c /\ Len(t) \in Nat
        /\ \A k \in 1..Len(t) : s[k + 1] = t[k]
    BY ConsAt
  <2>2. DOMAIN t = 1..Len(t) /\ DOMAIN s = 1..(Len(t) + 1)
    BY ConsBehind
  <2>3. Quote(s) = Quoted[c] \o Quote(t)
    BY QuoteByte
  <2> HIDE DEF s
  <2>4. ASSUME Clear(s) PROVE Quote(s) = s
    <3>1. 1 \in DOMAIN s /\ \A k \in DOMAIN t : k + 1 \in DOMAIN s
      BY <2>1, <2>2
    <3>2. c \in Unreserved /\ Clear(t)
      BY <2>1, <2>2, <2>4, <3>1
    <3>3. Quoted[c] = <<c>>
      BY <3>2, TableEntries
    <3>4. Quote(t) = t
      BY <1>2, <3>2
    <3> QED BY <2>3, <3>3, <3>4 DEF s
  <2>5. s \in T
    BY <2>1, <2>4
  <2> QED BY <2>5 DEF s
<1> HIDE DEF T
<1>3. Strings \subseteq T
  BY <1>1, <1>2, ByteInduction
<1> QED
  BY <1>3 DEF T

LEMMA UnreservedText ==
  ASSUME NEW s \in Strings, \A k \in DOMAIN s : s[k] \in Unreserved
  PROVE  Quote(s) = s /\ Unquote(s) = s /\ Parsed(s) = s
<1>1. Quote(s) = s
  BY UnreservedQuote
<1> QED
  BY <1>1, UnquoteQuote, ParsedQuote

LEMMA LowerTwice ==
  ASSUME NEW s \in Strings
  PROVE  LowerCase(LowerCase(s)) = LowerCase(s)
<1>1. DOMAIN s = 1..Len(s) /\ \A i \in 1..Len(s) : s[i] \in Octets
  BY DEF Strings
<1>2. \A i \in DOMAIN s : s[i] \in Nat
  <2>1. \A c \in Octets : c \in Nat
    BY DEF Octets
  <2> QED BY <1>1, <2>1
<1> QED
  BY <1>2 DEF LowerCase

-----------------------------------------------------------------------------
(* What normalise returns *)

LEMMA PartFields ==
  ASSUME NEW p \in PartType
  PROVE  /\ p.key \in Text /\ p.value \in Text /\ p.valued \in BOOLEAN
         /\ ~p.valued => p.key # <<>> /\ p.value = <<>>
         /\ Parsed(p.key) \in Strings /\ Parsed(p.value) \in Strings
<1>1. /\ p.key \in Text /\ p.value \in Text /\ p.valued \in BOOLEAN
      /\ ~p.valued => p.key # <<>> /\ p.value = <<>>
  BY DEF PartType
<1> QED
  BY <1>1, ParsedType

Kept(q) == Picked(q, {i \in DOMAIN q : ~Tracks(q[i])})
Valueless(q) == {q[i].key : i \in {j \in DOMAIN q : ~q[j].valued}}

FormPart(q, p) ==
  [key |-> Canonical(Parsed(p.key)),
   value |-> Canonical(Parsed(p.value)),
   valued |-> Parsed(p.key) \notin Valueless(q) \/ p.value # <<>>]

LEMMA QueryForm ==
  ASSUME NEW q \in Seq(PartType)
  PROVE  /\ Kept(q) \in Seq(PartType)
         /\ NormaliseQuery(q) = [i \in DOMAIN Kept(q) |-> FormPart(q, Kept(q)[i])]
<1>1. \A i \in 1..Len(q) : q[i] \in PartType
  OBVIOUS
<1>2. Kept(q) \in Seq(PartType)
  BY <1>1, PickedType DEF Kept
<1> QED
  BY <1>2 DEF NormaliseQuery, Kept, FormPart, Valueless

LEMMA FormPartType ==
  ASSUME NEW q \in Seq(PartType), NEW p \in PartType
  PROVE  /\ FormPart(q, p) \in PartType
         /\ Legible(FormPart(q, p).key) /\ Legible(FormPart(q, p).value)
<1> DEFINE k == Parsed(p.key)
           v == Parsed(p.value)
<1>1. /\ p.key \in Text /\ p.value \in Text /\ k \in Strings /\ v \in Strings
  BY PartFields
<1>2. /\ Canonical(k) = Quote(Unquote(k)) /\ Unquote(k) \in Strings
      /\ Canonical(v) = Quote(Unquote(v)) /\ Unquote(v) \in Strings
  BY <1>1, CanonicalQuote
<1>3. /\ Canonical(k) \in Text /\ Canonical(v) \in Text
      /\ Legible(Canonical(k)) /\ Legible(Canonical(v))
  BY <1>2, QuoteNormal
<1>4. ASSUME k \in Valueless(q), p.value = <<>>
      PROVE  Canonical(k) # <<>> /\ Canonical(v) = <<>>
  <2>1. PICK i \in DOMAIN q : ~q[i].valued /\ k = q[i].key
    BY <1>4 DEF Valueless
  <2>2. q[i] \in PartType
    BY <2>1
  <2>3. k # <<>>
    BY <2>1, <2>2, PartFields
  <2>4. Unquote(k) # <<>>
    BY <1>1, <2>3, NotEmpty
  <2>5. Canonical(k) # <<>>
    BY <1>2, <2>4, NotEmpty
  <2>6. v = <<>>
    BY <1>1, <1>4, ParsedType
  <2> QED BY <1>2, <2>5, <2>6, EmptyTexts
<1> DEFINE w == k \notin Valueless(q) \/ p.value # <<>>
<1>5. FormPart(q, p) = [key |-> Canonical(k), value |-> Canonical(v), valued |-> w]
  BY DEF FormPart
<1>6. w \in BOOLEAN /\ (~w => Canonical(k) # <<>> /\ Canonical(v) = <<>>)
  BY <1>4
<1> HIDE DEF k, v, w
<1>7. [key |-> Canonical(k), value |-> Canonical(v), valued |-> w] \in PartType
  BY <1>3, <1>6 DEF PartType
<1> QED
  BY <1>3, <1>5, <1>7

\* The segments of a form.
Clean == {s \in Text : Legible(s) /\ s \notin Dots}

LEMMA FormPath ==
  ASSUME NEW segs \in Seq(Text)
  PROVE  LET v == [i \in DOMAIN segs |-> NormalisePercentEncoding(segs[i])]
         IN  v \in Seq(Text) /\ ResolveDotSegments(v) \in Seq(Clean) \ {<<>>}
<1> DEFINE v == [i \in DOMAIN segs |-> NormalisePercentEncoding(segs[i])]
<1>1. Len(segs) \in Nat /\ DOMAIN segs = 1..Len(segs)
      /\ \A i \in 1..Len(segs) : segs[i] \in Text
  OBVIOUS
<1>2. \A i \in 1..Len(segs) : v[i] \in Text /\ Legible(v[i])
  BY <1>1, TextStrings, NormalLegible
<1>3. v \in [1..Len(segs) -> Text]
  BY <1>1, <1>2
<1> HIDE DEF v
<1>4. v \in Seq(Text) /\ Len(v) = Len(segs)
  BY <1>1, <1>3, IsSeqOf
<1>5. \A i \in 1..Len(v) : v[i] \notin Dots => v[i] \in Clean
  BY <1>2, <1>4 DEF Clean
<1>6. <<>> \in Clean
  BY LegibleEmpty, DotsDiffer DEF Clean, Dots
<1>7. ResolveDotSegments(v) \in Seq(Clean) \ {<<>>}
  BY <1>4, <1>5, <1>6, ResolvedType
<1> QED
  BY <1>4, <1>7 DEF v

LEMMA FormQueryType ==
  ASSUME NEW q \in Seq(PartType)
  PROVE  /\ NormaliseQuery(q) \in Seq(PartType)
         /\ \A i \in DOMAIN NormaliseQuery(q) :
              Legible(NormaliseQuery(q)[i].key) /\ Legible(NormaliseQuery(q)[i].value)
<1> DEFINE kept == Kept(q)
           out == [i \in DOMAIN kept |-> FormPart(q, kept[i])]
<1>1. kept \in Seq(PartType) /\ NormaliseQuery(q) = out
  BY QueryForm
<1> HIDE DEF kept
<1>2. Len(kept) \in Nat /\ DOMAIN kept = 1..Len(kept)
      /\ \A i \in 1..Len(kept) : kept[i] \in PartType
  BY <1>1
<1>3. \A i \in 1..Len(kept) :
        /\ out[i] \in PartType /\ Legible(out[i].key) /\ Legible(out[i].value)
  BY <1>2, FormPartType
<1>4. out \in [1..Len(kept) -> PartType] /\ DOMAIN out = 1..Len(kept)
  BY <1>2, <1>3
<1> HIDE DEF out
<1>5. out \in Seq(PartType)
  BY <1>2, <1>4, IsSeqOf
<1> QED
  BY <1>1, <1>3, <1>4, <1>5

LEMMA UrlFields ==
  ASSUME NEW u \in Url
  PROVE  /\ u.scheme \in {"http", "https"} /\ u.host \in Hosts /\ u.plain \in BOOLEAN
         /\ u.port \in Ports \cup {NoPort} /\ u.fragment \in BOOLEAN
         /\ u.path \in Seq(Text) /\ u.path # <<>>
         /\ u.query \in Seq(PartType)
BY DEF Url

LEMMA DefaultPort ==
  ASSUME NEW scheme \in {"http", "https"}
  PROVE  DefaultPorts[scheme] \in {80, 443} /\ DefaultPorts[scheme] # NoPort
<1>1. NoPort # 80 /\ NoPort # 443
  BY UrlAssumption
<1>2. CASE scheme = "http"
  BY <1>1, <1>2 DEF DefaultPorts
<1>3. CASE scheme = "https"
  BY <1>1, <1>3 DEF DefaultPorts
<1> QED
  BY <1>2, <1>3

LEMMA NormaliseType ==
  ASSUME NEW u \in Url
  PROVE  LET form == Normalise(u)
         IN  /\ form \in Url
             /\ form.path \in Seq(Clean)
             /\ \A i \in DOMAIN form.query :
                  Legible(form.query[i].key) /\ Legible(form.query[i].value)
             /\ form.port # DefaultPorts[form.scheme]
<1> DEFINE path == ResolveDotSegments([i \in DOMAIN u.path |->
                                         NormalisePercentEncoding(u.path[i])])
           query == NormaliseQuery(u.query)
           port == IF u.port = DefaultPorts[u.scheme] THEN NoPort ELSE u.port
           form == [scheme |-> u.scheme, host |-> u.host, plain |-> TRUE, port |-> port,
                    path |-> path, query |-> query, fragment |-> FALSE]
<1>1. /\ u.scheme \in {"http", "https"} /\ u.host \in Hosts
      /\ u.port \in Ports \cup {NoPort}
      /\ u.path \in Seq(Text) /\ u.query \in Seq(PartType)
  BY UrlFields
<1>2. path \in Seq(Clean) /\ path # <<>>
  <2>1. path \in Seq(Clean) \ {<<>>}
    BY <1>1, FormPath
  <2> QED BY <2>1
<1>3. /\ query \in Seq(PartType)
      /\ \A i \in DOMAIN query : Legible(query[i].key) /\ Legible(query[i].value)
  BY <1>1, FormQueryType
<1>4. port \in Ports \cup {NoPort} /\ port # DefaultPorts[u.scheme]
  BY <1>1, DefaultPort
<1>5. Normalise(u) = form
  BY DEF Normalise
<1> HIDE DEF path, query, port
<1>6. path \in Seq(Text)
  BY <1>2 DEF Clean
<1>7. form \in Url
  BY <1>1, <1>2, <1>3, <1>4, <1>6 DEF Url
<1>8. form.path = path /\ form.query = query /\ form.port = port /\ form.scheme = u.scheme
  OBVIOUS
<1> HIDE DEF form
<1> QED
  BY <1>2, <1>3, <1>4, <1>5, <1>7, <1>8

-----------------------------------------------------------------------------
(* The walk stays among URLs *)

UrlTypeOK ==
  /\ origin \in Url
  /\ url \in Url
  /\ edits \in 0..MaxEdits

LEMMA EscapeText ==
  ASSUME NEW c \in Byte
  PROVE  Escape(c) \in Text /\ Len(Escape(c)) = 3
<1>1. c \in Octets
  BY Digits
<1>2. PICK h \in HexDigits, l \in HexDigits : Escape(c) = <<PercentSign, h, l>>
  BY <1>1, OctetDigits
<1>3. h \in Byte /\ l \in Byte /\ PercentSign \in Byte
  BY Digits
<1> QED
  BY <1>2, <1>3 DEF Text

\* A part of a text, another text and the rest.
LEMMA InsertedText ==
  ASSUME NEW A, NEW s \in Seq(A), NEW t \in Seq(A), NEW i \in 1..(Len(s) + 1),
         NEW j \in 1..(Len(s) + 1)
  PROVE  /\ SubSeq(s, 1, i - 1) \o t \o SubSeq(s, j, Len(s)) \in Seq(A)
         /\ t # <<>> => SubSeq(s, 1, i - 1) \o t \o SubSeq(s, j, Len(s)) # <<>>
<1> DEFINE x == SubSeq(s, 1, i - 1)
           y == SubSeq(s, j, Len(s))
<1>1. x \in Seq(A) /\ y \in Seq(A)
  OBVIOUS
<1> HIDE DEF x, y
<1>2. x \o t \in Seq(A) /\ Len(x \o t) = Len(x) + Len(t) /\ Len(x) \in Nat /\ Len(t) \in Nat
  BY <1>1
<1> DEFINE xt == x \o t
<1> HIDE DEF xt
<1>3. xt \o y \in Seq(A) /\ Len(xt \o y) = Len(xt) + Len(y) /\ Len(y) \in Nat
  BY <1>1, <1>2 DEF xt
<1>4. t # <<>> => Len(t) # 0
  OBVIOUS
<1>5. t # <<>> => xt \o y # <<>>
  BY <1>2, <1>3, <1>4 DEF xt
<1> QED
  BY <1>3, <1>5 DEF x, y, xt

LEMMA SpellingText ==
  ASSUME NEW s \in Text, NEW t \in Spellings(s)
  PROVE  t \in Text /\ t # <<>> /\ s # <<>>
<1>1. Len(s) \in Nat /\ DOMAIN s = 1..Len(s) /\ \A i \in 1..Len(s) : s[i] \in Byte
  BY DEF Text
<1>2. ASSUME NEW i \in DOMAIN s,
             t = SubSeq(s, 1, i - 1) \o Escape(s[i]) \o SubSeq(s, i + 1, Len(s))
      PROVE  t \in Text /\ t # <<>> /\ s # <<>>
  <2> DEFINE e == Escape(s[i])
             j == i + 1
  <2>1. s \in Seq(Byte) /\ i \in 1..(Len(s) + 1) /\ j \in 1..(Len(s) + 1) /\ s # <<>>
    BY <1>1 DEF Text
  <2>2. e \in Seq(Byte) /\ e # <<>>
    <3>1. s[i] \in Byte
      BY <1>1
    <3>2. e \in Seq(Byte) /\ Len(e) = 3
      BY <3>1, EscapeText DEF Text
    <3> HIDE DEF e
    <3> QED BY <3>2
  <2> HIDE DEF e, j
  <2>3. /\ SubSeq(s, 1, i - 1) \o e \o SubSeq(s, j, Len(s)) \in Seq(Byte)
        /\ SubSeq(s, 1, i - 1) \o e \o SubSeq(s, j, Len(s)) # <<>>
    BY <2>1, <2>2, InsertedText
  <2> QED BY <1>2, <2>1, <2>3 DEF Text, e, j
<1>3. ASSUME NEW i \in {j \in DOMAIN s : s[j] \in 65..70}, t = [s EXCEPT ![i] = @ + 32]
      PROVE  t \in Text /\ t # <<>> /\ s # <<>>
  <2>1. i \in 1..Len(s) /\ s[i] + 32 \in Byte
    <3>1. i \in 1..Len(s) /\ s[i] \in 65..70
      BY <1>1
    <3>2. \A c \in 65..70 : c + 32 \in Byte
      BY DEF Byte
    <3> QED BY <3>1, <3>2
  <2>2. t \in [1..Len(s) -> Byte]
    BY <1>1, <1>3, <2>1
  <2>3. t \in Seq(Byte) /\ Len(t) = Len(s)
    BY <1>1, <2>2, IsSeqOf
  <2> QED BY <1>1, <2>1, <2>3 DEF Text
<1> QED
  BY <1>2, <1>3 DEF Spellings

LEMMA PathGiven ==
  ASSUME NEW u \in Url, NEW p \in Seq(Text), p # <<>>
  PROVE  [u EXCEPT !.path = p] \in Url
BY DEF Url

LEMMA QueryGiven ==
  ASSUME NEW u \in Url, NEW q \in Seq(PartType)
  PROVE  [u EXCEPT !.query = q] \in Url
BY DEF Url

LEMMA SegmentGiven ==
  ASSUME NEW u \in Url, NEW i \in DOMAIN u.path, NEW t \in Text
  PROVE  [u EXCEPT !.path[i] = t] \in Url
<1> DEFINE p == [u.path EXCEPT ![i] = t]
<1>1. u.path \in Seq(Text) /\ u.path # <<>>
  BY UrlFields
<1>2. p \in Seq(Text) /\ p # <<>>
  BY <1>1
<1>3. [u EXCEPT !.path[i] = t] = [u EXCEPT !.path = p]
  BY DEF Url
<1> HIDE DEF p
<1> QED
  BY <1>2, <1>3, PathGiven

LEMMA PartGiven ==
  ASSUME NEW u \in Url, NEW i \in DOMAIN u.query, NEW p \in PartType
  PROVE  [u EXCEPT !.query[i] = p] \in Url
<1> DEFINE q == [u.query EXCEPT ![i] = p]
<1>1. u.query \in Seq(PartType)
  BY UrlFields
<1>2. q \in Seq(PartType)
  BY <1>1
<1>3. [u EXCEPT !.query[i] = p] = [u EXCEPT !.query = q]
  BY DEF Url
<1> HIDE DEF q
<1> QED
  BY <1>2, <1>3, QueryGiven

\* A part with other fields.
LEMMA PartSpelled ==
  ASSUME NEW u \in Url, NEW i \in DOMAIN u.query
  PROVE  /\ \A t \in Spellings(u.query[i].key) : [u EXCEPT !.query[i].key = t] \in Url
         /\ \A t \in Spellings(u.query[i].value) : [u EXCEPT !.query[i].value = t] \in Url
         /\ u.query[i].key # <<>> /\ u.query[i].value = <<>> =>
              [u EXCEPT !.query[i].valued = ~@] \in Url
<1> DEFINE p == u.query[i]
<1>1. u.query \in Seq(PartType) /\ p \in PartType
  BY UrlFields
<1>2. /\ p.key \in Text /\ p.value \in Text /\ p.valued \in BOOLEAN
      /\ ~p.valued => p.key # <<>> /\ p.value = <<>>
  BY <1>1, PartFields
<1>3. ASSUME NEW t \in Spellings(p.key) PROVE [u EXCEPT !.query[i].key = t] \in Url
  <2> DEFINE r == [p EXCEPT !.key = t]
  <2>1. t \in Text /\ t # <<>>
    BY <1>2, SpellingText
  <2>2. r \in PartType
    BY <1>1, <2>1 DEF PartType
  <2>3. [u EXCEPT !.query[i] = r] \in Url
    BY <2>2, PartGiven
  <2>4. [u EXCEPT !.query[i].key = t] = [u EXCEPT !.query[i] = r]
    OBVIOUS
  <2> QED BY <2>3, <2>4
<1>4. ASSUME NEW t \in Spellings(p.value) PROVE [u EXCEPT !.query[i].value = t] \in Url
  <2> DEFINE r == [p EXCEPT !.value = t]
  <2>1. t \in Text /\ p.value # <<>>
    BY <1>2, SpellingText
  <2>2. r \in PartType
    BY <1>1, <2>1 DEF PartType
  <2>3. [u EXCEPT !.query[i] = r] \in Url
    BY <2>2, PartGiven
  <2>4. [u EXCEPT !.query[i].value = t] = [u EXCEPT !.query[i] = r]
    OBVIOUS
  <2> QED BY <2>3, <2>4
<1>5. ASSUME p.key # <<>>, p.value = <<>> PROVE [u EXCEPT !.query[i].valued = ~@] \in Url
  <2> DEFINE r == [p EXCEPT !.valued = ~p.valued]
  <2>1. r \in PartType
    BY <1>1, <1>5 DEF PartType
  <2>2. [u EXCEPT !.query[i] = r] \in Url
    BY <2>1, PartGiven
  <2>3. [u EXCEPT !.query[i].valued = ~@] = [u EXCEPT !.query[i] = r]
    OBVIOUS
  <2> QED BY <2>2, <2>3
<1> QED
  BY <1>3, <1>4, <1>5

LEMMA SegmentsAdded ==
  ASSUME NEW u \in Url, NEW extra \in Seq(Text), extra # <<>>
  PROVE  /\ [u EXCEPT !.path = @ \o extra] \in Url
         /\ \A i \in DOMAIN u.path :
              [u EXCEPT !.path = SubSeq(@, 1, i - 1) \o extra \o SubSeq(@, i, Len(@))] \in Url
<1>1. u.path \in Seq(Text) /\ DOMAIN u.path = 1..Len(u.path) /\ Len(u.path) \in Nat
  BY UrlFields
<1>2. u.path \o extra \in Seq(Text) /\ u.path \o extra # <<>>
  <2>1. /\ u.path \o extra \in Seq(Text) /\ Len(u.path \o extra) = Len(u.path) + Len(extra)
    BY <1>1
  <2>2. Len(extra) \in Nat \ {0}
    OBVIOUS
  <2>3. Len(u.path \o extra) # 0
    BY <1>1, <2>1, <2>2
  <2> QED BY <2>1, <2>3
<1>3. [u EXCEPT !.path = @ \o extra] \in Url
  BY <1>2, PathGiven
<1>4. ASSUME NEW i \in DOMAIN u.path
      PROVE  [u EXCEPT !.path = SubSeq(@, 1, i - 1) \o extra \o SubSeq(@, i, Len(@))] \in Url
  <2> DEFINE new == SubSeq(u.path, 1, i - 1) \o extra \o SubSeq(u.path, i, Len(u.path))
  <2>1. u.path \in Seq(Text) /\ i \in 1..(Len(u.path) + 1)
    BY <1>1
  <2>2. new \in Seq(Text) /\ new # <<>>
    BY <2>1, InsertedText
  <2> HIDE DEF new
  <2>3. [u EXCEPT !.path = new] \in Url
    BY <2>2, PathGiven
  <2> QED BY <2>3 DEF new
<1> QED
  BY <1>3, <1>4

LEMMA PartsChanged ==
  ASSUME NEW u \in Url
  PROVE  /\ \A i \in 1..(Len(u.query) + 1), p \in PartType :
              [u EXCEPT !.query = InsertAt(@, i, p)] \in Url
         /\ \A i \in 1..(Len(u.query) - 1) :
              [u EXCEPT !.query[i] = u.query[i + 1], !.query[i + 1] = u.query[i]] \in Url
<1>1. u.query \in Seq(PartType) /\ Len(u.query) \in Nat /\ DOMAIN u.query = 1..Len(u.query)
  BY UrlFields
<1>2. ASSUME NEW i \in 1..(Len(u.query) + 1), NEW p \in PartType
      PROVE  [u EXCEPT !.query = InsertAt(@, i, p)] \in Url
  <2> DEFINE new == InsertAt(u.query, i, p)
             one == <<p>>
  <2>1. one \in Seq(PartType) /\ u.query \in Seq(PartType)
    BY <1>1
  <2> HIDE DEF one
  <2>2. SubSeq(u.query, 1, i - 1) \o one \o SubSeq(u.query, i, Len(u.query)) \in Seq(PartType)
    BY <2>1, InsertedText
  <2>3. new \in Seq(PartType)
    BY <2>2 DEF InsertAt, one
  <2> HIDE DEF new
  <2>4. [u EXCEPT !.query = new] \in Url
    BY <2>3, QueryGiven
  <2> QED BY <2>4 DEF new
<1>3. ASSUME NEW i \in 1..(Len(u.query) - 1)
      PROVE  [u EXCEPT !.query[i] = u.query[i + 1], !.query[i + 1] = u.query[i]] \in Url
  <2> DEFINE j == i + 1
             v == [u EXCEPT !.query[i] = u.query[j]]
  <2>1. i \in DOMAIN u.query /\ j \in DOMAIN u.query
    BY <1>1
  <2>2. u.query[i] \in PartType /\ u.query[j] \in PartType
    BY <1>1, <2>1
  <2> HIDE DEF j
  <2>3. v \in Url
    BY <2>1, <2>2, PartGiven
  <2>4. DOMAIN v.query = DOMAIN u.query
    BY DEF Url
  <2> DEFINE w == [v EXCEPT !.query[j] = u.query[i]]
  <2>5. [u EXCEPT !.query[i] = u.query[j], !.query[j] = u.query[i]] = w
    OBVIOUS
  <2> HIDE DEF v
  <2>6. w \in Url
    BY <2>1, <2>2, <2>3, <2>4, PartGiven
  <2> QED BY <2>5, <2>6 DEF j
<1> QED
  BY <1>2, <1>3

LEMMA AuthorityGiven ==
  ASSUME NEW u \in Url
  PROVE  /\ [u EXCEPT !.plain = ~@] \in Url /\ [u EXCEPT !.fragment = ~@] \in Url
         /\ \A p \in Ports \cup {NoPort} : [u EXCEPT !.port = p] \in Url
BY DEF Url

LEMMA BecomeType ==
  ASSUME UrlTypeOK, NEW u \in Url, Become(u)
  PROVE  UrlTypeOK'
<1>1. edits \in 0..MaxEdits /\ MaxEdits \in Nat
  BY UrlAssumption DEF UrlTypeOK
<1>2. edits < MaxEdits /\ edits' = edits + 1 /\ url' = u /\ origin' = origin
  BY DEF Become
<1>3. edits' \in 0..MaxEdits
  BY <1>1, <1>2
<1> QED
  BY <1>2, <1>3 DEF UrlTypeOK

LEMMA UrlTypeStep == UrlTypeOK /\ [Next]_vars => UrlTypeOK'
<1> SUFFICES ASSUME UrlTypeOK, [Next]_vars PROVE UrlTypeOK'
  OBVIOUS
<1>1. url \in Url /\ url.path \in Seq(Text) /\ url.query \in Seq(PartType)
  BY UrlFields DEF UrlTypeOK
<1>2. CASE SpellSegment
  <2>1. PICK i \in DOMAIN url.path :
          \E t \in Spellings(url.path[i]) : Become([url EXCEPT !.path[i] = t])
    BY <1>2 DEF SpellSegment
  <2>2. PICK t \in Spellings(url.path[i]) : Become([url EXCEPT !.path[i] = t])
    BY <2>1
  <2>3. url.path[i] \in Text
    BY <1>1
  <2>4. [url EXCEPT !.path[i] = t] \in Url
    BY <1>1, <2>3, SpellingText, SegmentGiven
  <2> QED BY <2>2, <2>4, BecomeType
<1>3. CASE AddSegments
  <2>1. /\ <<Dot>> \in Seq(Text) /\ <<DotDot>> \in Seq(Text)
        /\ << <<97>>, DotDot>> \in Seq(Text) /\ << <<>> >> \in Seq(Text)
    BY DEF Text, Dot, DotDot, Byte
  <2>2. \A extra \in {<<Dot>>, <<DotDot>>, << <<97>>, DotDot>>, << <<>> >>} :
          extra \in Seq(Text) /\ extra # <<>>
    <3>1. /\ <<Dot>> # <<>> /\ <<DotDot>> # <<>> /\ << <<97>>, DotDot>> # <<>>
          /\ << <<>> >> # <<>>
      OBVIOUS
    <3> QED BY <2>1, <3>1
  <2>3. CASE \E i \in DOMAIN url.path,
                extra \in {<<Dot>>, <<DotDot>>, << <<97>>, DotDot>>, << <<>> >>} :
               Become([url EXCEPT !.path =
                         SubSeq(@, 1, i - 1) \o extra \o SubSeq(@, i, Len(@))])
    <3>1. PICK i \in DOMAIN url.path,
               extra \in {<<Dot>>, <<DotDot>>, << <<97>>, DotDot>>, << <<>> >>} :
               Become([url EXCEPT !.path =
                         SubSeq(@, 1, i - 1) \o extra \o SubSeq(@, i, Len(@))])
      BY <2>3
    <3>2. extra \in Seq(Text) /\ extra # <<>>
      BY <2>2
    <3>3. [url EXCEPT !.path = SubSeq(@, 1, i - 1) \o extra \o SubSeq(@, i, Len(@))] \in Url
      BY <1>1, <3>2, SegmentsAdded
    <3> QED BY <3>1, <3>3, BecomeType
  <2>4. CASE \E extra \in {<<DotDot>>, << <<97>>, DotDot>>} :
               Become([url EXCEPT !.path = @ \o extra])
    <3>1. PICK extra \in {<<DotDot>>, << <<97>>, DotDot>>} :
               Become([url EXCEPT !.path = @ \o extra])
      BY <2>4
    <3>2. extra \in Seq(Text) /\ extra # <<>>
      BY <2>2
    <3>3. [url EXCEPT !.path = @ \o extra] \in Url
      BY <1>1, <3>2, SegmentsAdded
    <3> QED BY <3>1, <3>3, BecomeType
  <2> QED BY <1>3, <2>3, <2>4 DEF AddSegments
<1>4. CASE SpellPart
  <2>1. PICK i \in DOMAIN url.query :
          \/ \E t \in Spellings(url.query[i].key) : Become([url EXCEPT !.query[i].key = t])
          \/ \E t \in Spellings(url.query[i].value) : Become([url EXCEPT !.query[i].value = t])
    BY <1>4 DEF SpellPart
  <2>2. /\ \A t \in Spellings(url.query[i].key) : [url EXCEPT !.query[i].key = t] \in Url
        /\ \A t \in Spellings(url.query[i].value) : [url EXCEPT !.query[i].value = t] \in Url
    BY <1>1, PartSpelled
  <2>3. \E u \in Url : Become(u)
    BY <2>1, <2>2
  <2> QED BY <2>3, BecomeType
<1>5. CASE ToggleEquals
  <2>1. PICK i \in DOMAIN url.query :
          /\ url.query[i].key # <<>> /\ url.query[i].value = <<>>
          /\ Become([url EXCEPT !.query[i].valued = ~@])
    BY <1>5 DEF ToggleEquals
  <2>2. [url EXCEPT !.query[i].valued = ~@] \in Url
    BY <1>1, <2>1, PartSpelled
  <2> QED BY <2>1, <2>2, BecomeType
<1>6. CASE AddTracking
  <2>1. PICK i \in 1..(Len(url.query) + 1), t \in TrackingParams :
          Become([url EXCEPT !.query =
                    InsertAt(@, i, [key |-> t, value |-> <<>>, valued |-> TRUE])])
    BY <1>6 DEF AddTracking
  <2>2. [key |-> t, value |-> <<>>, valued |-> TRUE] \in PartType
    <3>1. t \in Text
      BY UrlAssumption
    <3>2. <<>> \in Text
      BY LegibleEmpty
    <3> QED BY <3>1, <3>2 DEF PartType
  <2>3. [url EXCEPT !.query =
           InsertAt(@, i, [key |-> t, value |-> <<>>, valued |-> TRUE])] \in Url
    BY <1>1, <2>2, PartsChanged
  <2> QED BY <2>1, <2>3, BecomeType
<1>7. CASE SwapParts
  <2>1. PICK i \in 1..(Len(url.query) - 1) :
          Become([url EXCEPT !.query[i] = url.query[i + 1], !.query[i + 1] = url.query[i]])
    BY <1>7 DEF SwapParts
  <2>2. [url EXCEPT !.query[i] = url.query[i + 1], !.query[i + 1] = url.query[i]] \in Url
    BY <1>1, PartsChanged
  <2> QED BY <2>1, <2>2, BecomeType
<1>8. CASE SpellAuthority
  <2>1. /\ [url EXCEPT !.plain = ~@] \in Url /\ [url EXCEPT !.fragment = ~@] \in Url
        /\ \A p \in Ports \cup {NoPort} : [url EXCEPT !.port = p] \in Url
    BY <1>1, AuthorityGiven
  <2>2. \E u \in Url : Become(u)
    BY <1>8, <2>1 DEF SpellAuthority
  <2> QED BY <2>2, BecomeType
<1>9. CASE Requeue
  <2>1. Normalise(url) \in Url
    BY <1>1, NormaliseType
  <2> QED BY <1>9, <2>1 DEF Requeue, UrlTypeOK
<1>10. CASE UNCHANGED vars
  BY <1>10 DEF vars, UrlTypeOK
<1> QED
  BY <1>2, <1>3, <1>4, <1>5, <1>6, <1>7, <1>8, <1>9, <1>10 DEF Next

(***************************************************************************)
(* Whatever respellings and passes a URL goes through, it stays a URL: an  *)
(* absolute one with at least one segment, parts of which those without    *)
(* "=" have a key and no value, and texts of ASCII bytes.                  *)
(***************************************************************************)
THEOREM StaysUrl == Spec => []UrlTypeOK
<1>1. Init => UrlTypeOK
  BY UrlAssumption DEF Init, UrlTypeOK
<1> QED
  BY <1>1, UrlTypeStep, PTL DEF Spec

-----------------------------------------------------------------------------
(* A form is read back as it was written *)

LEMMA UrlReparses ==
  ASSUME url \in Url
  PROVE  FormReparses
<1> DEFINE form == Normalise(url)
<1>1. /\ form \in Url /\ form.path \in Seq(Clean)
      /\ \A i \in DOMAIN form.query :
           Legible(form.query[i].key) /\ Legible(form.query[i].value)
      /\ form.port # DefaultPorts[form.scheme]
  BY NormaliseType
<1> HIDE DEF form
<1>2. \A i \in DOMAIN form.path : form.path[i] \in Clean
  BY <1>1
<1>3. \A i \in DOMAIN form.path : Legible(form.path[i]) /\ form.path[i] \notin {Dot, DotDot}
  BY <1>2 DEF Clean, Dots
<1> QED
  BY <1>1, <1>3 DEF FormReparses, form

(***************************************************************************)
(* The form of a URL is a URL, of unreserved bytes and escapes alone,      *)
(* without dot segments and without a default port: normalise, which ends  *)
(* in building a text, loses no boundary that parsing it would find.       *)
(***************************************************************************)
THEOREM FormsReparse == Spec => []FormReparses
<1>1. UrlTypeOK => FormReparses
  BY UrlReparses DEF UrlTypeOK
<1> QED
  BY <1>1, StaysUrl, PTL

-----------------------------------------------------------------------------
(* A query that is so spelled *)

PlainQuery(q) == \A i \in DOMAIN q : PlainPart(q, i)

MeantPart(p) == [key |-> Parsed(p.key), value |-> Parsed(p.value), valued |-> p.valued]
QuotedPart(p) ==
  [key |-> Quote(Parsed(p.key)), value |-> Quote(Parsed(p.value)), valued |-> p.valued]

LEMMA OnceEncoded ==
  ASSUME NEW s \in Text, EncodedOnce(s)
  PROVE  Parsed(s) \in Strings /\ Canonical(Parsed(s)) = Quote(Parsed(s))
<1>1. Parsed(s) \in Strings
  BY ParsedType
<1>2. Unquote(Parsed(s)) = Parsed(s)
  BY <1>1, NothingToDecode DEF EncodedOnce
<1> QED
  BY <1>1, <1>2, CanonicalQuote

\* Keys without "=" in such a query.
LEMMA PlainKey ==
  ASSUME NEW q \in Seq(PartType), PlainQuery(q), NEW i \in DOMAIN q, ~q[i].valued
  PROVE  /\ q[i].value = <<>> /\ \A k \in DOMAIN q[i].key : q[i].key[k] \in Unreserved
         /\ Parsed(q[i].key) = q[i].key /\ Quote(q[i].key) = q[i].key
<1>1. q[i] \in PartType
  OBVIOUS
<1>2. q[i].key \in Text /\ q[i].value = <<>>
  BY <1>1, PartFields
<1>3. \A k \in DOMAIN q[i].key : q[i].key[k] \in Unreserved
  BY DEF PlainQuery, PlainPart
<1>4. q[i].key \in Strings
  BY <1>2, TextStrings
<1>5. Parsed(q[i].key) = q[i].key /\ Quote(q[i].key) = q[i].key
  BY <1>3, <1>4, UnreservedText
<1> QED
  BY <1>2, <1>3, <1>5

\* A part keeps its "=", and is decoded once.
LEMMA PlainPartForm ==
  ASSUME NEW q \in Seq(PartType), PlainQuery(q), NEW i \in DOMAIN q
  PROVE  FormPart(q, q[i]) = QuotedPart(q[i])
<1>1. q[i] \in PartType /\ PlainPart(q, i)
  BY DEF PlainQuery
<1>2. q[i].key \in Text /\ q[i].value \in Text /\ q[i].valued \in BOOLEAN
  BY <1>1, PartFields
<1>3. EncodedOnce(q[i].key) /\ EncodedOnce(q[i].value)
  BY <1>1 DEF PlainPart
<1>4. /\ Canonical(Parsed(q[i].key)) = Quote(Parsed(q[i].key))
      /\ Canonical(Parsed(q[i].value)) = Quote(Parsed(q[i].value))
  BY <1>2, <1>3, OnceEncoded
<1>5. CASE ~q[i].valued
  <2>1. q[i].value = <<>> /\ Parsed(q[i].key) = q[i].key
    BY <1>5, PlainKey
  <2>2. q[i].key \in Valueless(q)
    BY <1>5 DEF Valueless
  <2> QED BY <1>2, <1>4, <1>5, <2>1, <2>2 DEF FormPart, QuotedPart
<1>6. CASE q[i].valued /\ q[i].value # <<>>
  BY <1>2, <1>4, <1>6 DEF FormPart, QuotedPart
<1>7. CASE q[i].valued /\ q[i].value = <<>>
  <2>1. ASSUME Parsed(q[i].key) \in Valueless(q) PROVE FALSE
    <3>1. PICK j \in DOMAIN q : ~q[j].valued /\ Parsed(q[i].key) = q[j].key
      BY <2>1 DEF Valueless
    <3>2. PlainPart(q, j)
      BY DEF PlainQuery
    <3> QED BY <1>7, <3>1, <3>2 DEF PlainPart
  <2> QED BY <1>2, <1>4, <1>7, <2>1 DEF FormPart, QuotedPart
<1> QED
  BY <1>2, <1>5, <1>6, <1>7

\* What is kept of it.
LEMMA KeptParts ==
  ASSUME NEW q \in Seq(PartType)
  PROVE  /\ Kept(q) \in Seq(PartType) /\ Len(Kept(q)) \in Nat
         /\ DOMAIN Kept(q) = 1..Len(Kept(q))
         /\ \A j \in DOMAIN Kept(q) : \E i \in DOMAIN q : Kept(q)[j] = q[i] /\ ~Tracks(q[i])
<1> DEFINE at == {i \in DOMAIN q : ~Tracks(q[i])}
           B == {q[i] : i \in at}
<1>1. \A i \in 1..Len(q) : i \in at => q[i] \in B
  OBVIOUS
<1> HIDE DEF at, B
<1>2. Picked(q, at) \in Seq(B)
  BY <1>1, PickedType
<1>3. Kept(q) \in Seq(B)
  BY <1>2 DEF Kept, at
<1>4. /\ Len(Kept(q)) \in Nat /\ DOMAIN Kept(q) = 1..Len(Kept(q))
      /\ \A j \in DOMAIN Kept(q) : Kept(q)[j] \in B
  BY <1>3
<1>5. \A b \in B : \E i \in DOMAIN q : b = q[i] /\ ~Tracks(q[i])
  BY DEF B, at
<1> QED
  BY <1>4, <1>5, QueryForm

LEMMA PlainQueryForm ==
  ASSUME NEW q \in Seq(PartType), PlainQuery(q)
  PROVE  NormaliseQuery(q) = [j \in DOMAIN Kept(q) |-> QuotedPart(Kept(q)[j])]
<1>1. NormaliseQuery(q) = [j \in DOMAIN Kept(q) |-> FormPart(q, Kept(q)[j])]
  BY QueryForm
<1>2. ASSUME NEW j \in DOMAIN Kept(q) PROVE FormPart(q, Kept(q)[j]) = QuotedPart(Kept(q)[j])
  <2>1. PICK i \in DOMAIN q : Kept(q)[j] = q[i]
    BY KeptParts
  <2> QED BY <2>1, PlainPartForm
<1> QED
  BY <1>1, <1>2

\* Its form is so spelled too, with no parameter left to be stripped.
LEMMA QuotedAgain ==
  ASSUME NEW q \in Seq(PartType), PlainQuery(q), NEW i \in DOMAIN q
  PROVE  LET r == QuotedPart(q[i])
         IN  /\ Parsed(r.key) = Parsed(q[i].key) /\ Parsed(r.value) = Parsed(q[i].value)
             /\ QuotedPart(r) = r /\ EncodedOnce(r.key) /\ EncodedOnce(r.value)
             /\ Tracks(r) <=> Tracks(q[i])
             /\ IsTracking(r) <=> IsTracking(q[i])
             /\ r.value = <<>> => q[i].value = <<>>
             /\ ~q[i].valued => r.key = q[i].key
             /\ r.valued = q[i].valued
<1> DEFINE r == QuotedPart(q[i])
           x == Parsed(q[i].key)
           y == Parsed(q[i].value)
<1>1. q[i] \in PartType /\ PlainPart(q, i)
  BY DEF PlainQuery
<1>2. q[i].key \in Text /\ q[i].value \in Text /\ x \in Strings /\ y \in Strings
  BY <1>1, PartFields
<1>3. r.key = Quote(x) /\ r.value = Quote(y) /\ r.valued = q[i].valued
  BY DEF QuotedPart
<1>4. Parsed(r.key) = x /\ Parsed(r.value) = y
  BY <1>2, <1>3, ParsedQuote
<1>5. QuotedPart(r) = r
  BY <1>4 DEF QuotedPart
<1>6. EncodedOnce(r.key) /\ EncodedOnce(r.value)
  <2>1. EncodedOnce(q[i].key) /\ EncodedOnce(q[i].value)
    BY <1>1 DEF PlainPart
  <2> QED BY <1>4, <2>1 DEF EncodedOnce
<1>7. (Tracks(r) <=> Tracks(q[i])) /\ (IsTracking(r) <=> IsTracking(q[i]))
  BY <1>4 DEF Tracks, IsTracking
<1>8. r.value = <<>> => q[i].value = <<>>
  <2>1. y # <<>> => r.value # <<>>
    BY <1>2, <1>3, NotEmpty
  <2>2. y = <<>> => q[i].value = <<>>
    BY <1>2, ParsedType
  <2> QED BY <2>1, <2>2
<1>9. ~q[i].valued => r.key = q[i].key
  BY <1>3, PlainKey
<1> QED
  BY <1>3, <1>4, <1>5, <1>6, <1>7, <1>8, <1>9

LEMMA QueryStays ==
  ASSUME NEW q \in Seq(PartType), PlainQuery(q)
  PROVE  /\ PlainQuery(NormaliseQuery(q))
         /\ NormaliseQuery(NormaliseQuery(q)) = NormaliseQuery(q)
<1> DEFINE kept == Kept(q)
           out == NormaliseQuery(q)
<1>1. /\ Len(kept) \in Nat /\ DOMAIN kept = 1..Len(kept)
      /\ \A j \in DOMAIN kept : \E i \in DOMAIN q : kept[j] = q[i] /\ ~Tracks(q[i])
  BY KeptParts
<1>2. out = [j \in DOMAIN kept |-> QuotedPart(kept[j])] /\ out \in Seq(PartType)
  BY PlainQueryForm, FormQueryType
<1> HIDE DEF out, kept
<1>3. DOMAIN out = DOMAIN kept /\ \A j \in DOMAIN out : out[j] = QuotedPart(kept[j])
  BY <1>2
<1>4. ASSUME NEW j \in DOMAIN out
      PROVE  \E i \in DOMAIN q :
               /\ Parsed(out[j].key) = Parsed(q[i].key) /\ ~Tracks(out[j])
               /\ QuotedPart(out[j]) = out[j]
               /\ EncodedOnce(out[j].key) /\ EncodedOnce(out[j].value)
               /\ IsTracking(out[j]) <=> IsTracking(q[i])
               /\ ~Tracks(q[i])
               /\ out[j].value = <<>> => q[i].value = <<>>
               /\ out[j].valued = q[i].valued
               /\ ~q[i].valued => out[j].key = q[i].key
  <2>1. PICK i \in DOMAIN q : kept[j] = q[i] /\ ~Tracks(q[i])
    BY <1>1, <1>3
  <2>2. out[j] = QuotedPart(q[i])
    BY <1>3, <2>1
  <2>3. /\ Parsed(out[j].key) = Parsed(q[i].key)
        /\ QuotedPart(out[j]) = out[j]
        /\ EncodedOnce(out[j].key) /\ EncodedOnce(out[j].value)
        /\ Tracks(out[j]) <=> Tracks(q[i])
        /\ IsTracking(out[j]) <=> IsTracking(q[i])
        /\ out[j].value = <<>> => q[i].value = <<>>
        /\ ~q[i].valued => out[j].key = q[i].key
        /\ out[j].valued = q[i].valued
    BY <2>2, QuotedAgain
  <2> QED BY <2>1, <2>3
<1>5. ASSUME NEW j \in DOMAIN out PROVE PlainPart(out, j)
  <2>1. PICK i \in DOMAIN q :
               /\ EncodedOnce(out[j].key) /\ EncodedOnce(out[j].value)
               /\ IsTracking(out[j]) <=> IsTracking(q[i])
               /\ ~Tracks(q[i])
               /\ out[j].valued = q[i].valued
               /\ ~q[i].valued => out[j].key = q[i].key
    BY <1>4
  <2>2. PlainPart(q, i)
    BY DEF PlainQuery
  <2>3. ~IsTracking(out[j])
    BY <2>1, <2>2 DEF PlainPart
  <2>4. ASSUME ~out[j].valued
        PROVE  \A k \in DOMAIN out[j].key : out[j].key[k] \in Unreserved
    BY <2>1, <2>4, PlainKey
  <2>5. ASSUME ~out[j].valued, NEW k \in DOMAIN out, out[k].valued, out[k].value = <<>>
        PROVE  Parsed(out[k].key) # out[j].key
    <3>1. PICK h \in DOMAIN q : /\ Parsed(out[k].key) = Parsed(q[h].key)
                                /\ out[k].value = <<>> => q[h].value = <<>>
                                /\ out[k].valued = q[h].valued
      BY <1>4
    <3>2. q[h].valued /\ q[h].value = <<>>
      BY <2>5, <3>1
    <3>3. Parsed(q[h].key) # q[i].key
      BY <2>1, <2>2, <2>5, <3>2 DEF PlainPart
    <3> QED BY <2>1, <2>5, <3>1, <3>3
  <2> QED BY <2>1, <2>3, <2>4, <2>5 DEF PlainPart
<1>6. PlainQuery(out)
  BY <1>5 DEF PlainQuery
<1>7. Kept(out) = out
  <2> DEFINE at == {j \in DOMAIN out : ~Tracks(out[j])}
  <2>1. DOMAIN out = 1..Len(out)
    BY <1>2
  <2>2. 1..Len(out) \subseteq at
    BY <1>4, <2>1
  <2> HIDE DEF at
  <2>3. Picked(out, at) = out
    BY <1>2, <2>2, PickedAll
  <2> QED BY <2>3 DEF Kept, at
<1>8. NormaliseQuery(out) = [j \in DOMAIN out |-> QuotedPart(out[j])]
  BY <1>2, <1>6, <1>7, PlainQueryForm
<1>9. \A j \in DOMAIN out : QuotedPart(out[j]) = out[j]
  BY <1>4
<1>10. out = [j \in DOMAIN out |-> out[j]]
  BY <1>2
<1> QED
  BY <1>6, <1>8, <1>9, <1>10 DEF out

-----------------------------------------------------------------------------
(* A path that is so spelled *)

LEMMA PlainSegments ==
  ASSUME NEW segs \in Seq(Text), segs # <<>>, PlainPath(segs)
  PROVE  /\ Len(segs) \in Nat \ {0} /\ DOMAIN segs = 1..Len(segs)
         /\ Unquote(segs[Len(segs)]) \notin Dots
         /\ \A i \in 1..Len(segs) :
              /\ segs[i] \in Strings /\ Unquote(segs[i]) \in Strings
              /\ NormalisePercentEncoding(segs[i]) = Quote(Unquote(segs[i]))
<1>1. Len(segs) \in Nat \ {0} /\ DOMAIN segs = 1..Len(segs)
      /\ \A i \in 1..Len(segs) : segs[i] \in Text
  OBVIOUS
<1>2. Last(segs) = segs[Len(segs)]
  BY FrontAt
<1>3. ASSUME NEW i \in 1..Len(segs)
      PROVE  /\ segs[i] \in Strings /\ Unquote(segs[i]) \in Strings
             /\ NormalisePercentEncoding(segs[i]) = Quote(Unquote(segs[i]))
  <2>1. segs[i] \in Strings
    BY <1>1, TextStrings
  <2>2. PlainText(segs[i])
    BY <1>1 DEF PlainPath, PlainText
  <2> QED BY <2>1, <2>2, PlainNormal, QuoteType
<1> QED
  BY <1>1, <1>2, <1>3 DEF PlainPath, Dots

\* Segments that the second pass leaves alone.
Settled == {s \in Text : s \notin Dots /\ NormalisePercentEncoding(s) = s}

LEMMA PathStays ==
  ASSUME NEW segs \in Seq(Text), segs # <<>>, PlainPath(segs)
  PROVE  LET path == ResolveDotSegments([i \in DOMAIN segs |-> NormalisePercentEncoding(segs[i])])
         IN  ResolveDotSegments([i \in DOMAIN path |-> NormalisePercentEncoding(path[i])]) = path
<1> DEFINE v == [i \in DOMAIN segs |-> NormalisePercentEncoding(segs[i])]
           path == ResolveDotSegments(v)
           again == [i \in DOMAIN path |-> NormalisePercentEncoding(path[i])]
<1>1. v \in Seq(Text) /\ DOMAIN segs = 1..Len(segs)
  BY FormPath
<1>2. \A i \in 1..Len(segs) : v[i] \in Text /\ NormalisePercentEncoding(v[i]) = v[i]
  <2>1. ASSUME NEW i \in 1..Len(segs)
        PROVE  v[i] \in Text /\ NormalisePercentEncoding(v[i]) = v[i]
    <3>1. v[i] = Quote(Unquote(segs[i])) /\ Unquote(segs[i]) \in Strings
      BY <1>1, PlainSegments
    <3> HIDE DEF v
    <3> QED BY <3>1, QuoteNormal
  <2> QED BY <2>1
<1>3. Len(v) = Len(segs)
  BY <1>1
<1> HIDE DEF v
<1>4. \A i \in 1..Len(v) : v[i] \notin Dots => v[i] \in Settled
  BY <1>2, <1>3 DEF Settled
<1>5. <<>> \in Settled
  <2>1. NormalisePercentEncoding(<<>>) = <<>>
    BY LegibleEmpty, EmptyTexts, QuoteNormal
  <2> QED BY <2>1, LegibleEmpty, DotsDiffer DEF Settled, Dots
<1>6. path \in Seq(Settled) \ {<<>>}
  BY <1>1, <1>4, <1>5, ResolvedType
<1> HIDE DEF path
<1>7. \A i \in DOMAIN path : NormalisePercentEncoding(path[i]) = path[i] /\ path[i] \notin Dots
  BY <1>6 DEF Settled
<1>8. path = [i \in DOMAIN path |-> path[i]]
  BY <1>6
<1>9. again = path
  BY <1>7, <1>8
<1>10. path \in Seq(Settled) /\ path # <<>> /\ \A i \in 1..Len(path) : path[i] \notin Dots
  BY <1>6, <1>7
<1>11. ResolveDotSegments(path) = path
  BY <1>10, ResolvedStays
<1> QED
  BY <1>9, <1>11 DEF path, v

LEMMA OnePass ==
  ASSUME NEW u \in Url, WellSpelled(u)
  PROVE  Normalise(Normalise(u)) = Normalise(u)
<1> DEFINE form == Normalise(u)
<1>1. /\ u.path \in Seq(Text) /\ u.path # <<>> /\ u.query \in Seq(PartType)
      /\ PlainPath(u.path) /\ PlainQuery(u.query)
  BY UrlFields DEF WellSpelled, PlainQuery
<1>2. NormaliseQuery(form.query) = form.query
  BY <1>1, QueryStays DEF Normalise
<1>3. ResolveDotSegments([i \in DOMAIN form.path |->
                            NormalisePercentEncoding(form.path[i])]) = form.path
  BY <1>1, PathStays DEF Normalise
<1>4. form.port # DefaultPorts[form.scheme]
  BY NormaliseType
<1>5. form = [scheme |-> form.scheme, host |-> form.host, plain |-> TRUE, port |-> form.port,
              path |-> form.path, query |-> form.query, fragment |-> FALSE]
  BY DEF Normalise
<1> HIDE DEF form
<1>6. Normalise(form) =
        [scheme |-> form.scheme, host |-> form.host, plain |-> TRUE, port |-> form.port,
         path |-> form.path, query |-> form.query, fragment |-> FALSE]
  BY <1>2, <1>3, <1>4 DEF Normalise
<1> QED
  BY <1>5, <1>6 DEF form

(***************************************************************************)
(* A retry finds a URL under the same hash: what is so spelled is at its   *)
(* form after one pass.                                                    *)
(***************************************************************************)
THEOREM OnePassIsEnough == Spec => []OnePassSettles
<1>1. UrlTypeOK => OnePassSettles
  BY OnePass DEF UrlTypeOK, OnePassSettles
<1> QED
  BY <1>1, StaysUrl, PTL

-----------------------------------------------------------------------------
(* The form is what the origin server is asked for, quoted *)

LEMMA QuoteInjective ==
  ASSUME NEW x \in Strings, NEW y \in Strings, Quote(x) = Quote(y)
  PROVE  x = y
BY UnquoteQuote

LEMMA QuotedDots == Quote(Dot) = Dot /\ Quote(DotDot) = DotDot /\ Dots \subseteq Strings
<1>1. /\ Dot \in Strings /\ \A k \in DOMAIN Dot : Dot[k] \in Unreserved
      /\ DotDot \in Strings /\ \A k \in DOMAIN DotDot : DotDot[k] \in Unreserved
  BY DEF Dot, DotDot, Strings, Octets, Unreserved
<1> QED
  BY <1>1, UnreservedQuote DEF Dots

LEMMA PathMeaning ==
  ASSUME NEW segs \in Seq(Text), segs # <<>>, PlainPath(segs)
  PROVE  LET d == Directory([i \in DOMAIN segs |-> Unquote(segs[i])])
         IN  /\ d \in Seq(Strings)
             /\ ResolveDotSegments([i \in DOMAIN segs |-> NormalisePercentEncoding(segs[i])])
                  = [j \in DOMAIN d |-> Quote(d[j])]
<1> DEFINE n == Len(segs)
           v == [i \in DOMAIN segs |-> NormalisePercentEncoding(segs[i])]
           w == [i \in DOMAIN segs |-> Unquote(segs[i])]
<1>1. /\ n \in Nat \ {0} /\ DOMAIN segs = 1..n
      /\ Unquote(segs[n]) \notin Dots
      /\ \A i \in 1..n : /\ segs[i] \in Strings /\ Unquote(segs[i]) \in Strings
                         /\ NormalisePercentEncoding(segs[i]) = Quote(Unquote(segs[i]))
  BY PlainSegments
<1>2. w \in Seq(Strings) /\ Len(w) = n
  <2>1. w \in [1..n -> Strings]
    BY <1>1
  <2> HIDE DEF w, n
  <2> QED BY <1>1, <2>1, IsSeqOf
<1>3. v \in Seq(Text) /\ Len(v) = n
  <2>1. v \in Seq(Text)
    BY FormPath
  <2>2. DOMAIN v = 1..n
    BY <1>1
  <2> HIDE DEF v, n
  <2> QED BY <1>1, <2>1, <2>2
<1>4. \A i \in 1..n : v[i] = Quote(w[i]) /\ w[i] = Unquote(segs[i]) /\ w[i] \in Strings
  BY <1>1
<1>5. \A i, j \in 1..n : i < j /\ w[i] = <<>> => w[j] # DotDot
  <2>1. ASSUME NEW i \in 1..n, NEW j \in 1..n, i < j, w[i] = <<>> PROVE w[j] # DotDot
    <3>1. segs[i] \in Strings /\ Unquote(segs[i]) = <<>>
      BY <1>1, <1>4, <2>1
    <3>2. segs[i] = <<>>
      BY <3>1, NotEmpty
    <3>3. Unquote(segs[j]) # DotDot
      BY <1>1, <2>1, <3>2 DEF PlainPath
    <3> QED BY <1>4, <3>3
  <2> QED BY <2>1
<1>6. w[n] \notin Dots
  BY <1>1, <1>4
<1> HIDE DEF n, v, w
<1>7. \A i \in 1..n : /\ v[i] = Dot <=> w[i] = Dot
                      /\ v[i] = DotDot <=> w[i] = DotDot
                      /\ v[i] = <<>> <=> w[i] = <<>>
  <2>1. ASSUME NEW x \in Strings
        PROVE  /\ Quote(x) = Dot <=> x = Dot
               /\ Quote(x) = DotDot <=> x = DotDot
               /\ Quote(x) = <<>> <=> x = <<>>
    BY QuotedDots, QuoteInjective, EmptyTexts, NotEmpty DEF Dots
  <2> QED BY <1>4, <2>1
<1>8. DOMAIN v = 1..n /\ DOMAIN w = 1..n
  BY <1>2, <1>3
<1>9. LeftOf(v) = LeftOf(w)
  <2>1. Ups(v) = Ups(w) /\ Stays(v) = Stays(w)
    BY <1>7, <1>8 DEF Ups, Stays, Dots
  <2> QED BY <1>2, <1>3, <2>1 DEF LeftOf
<1>10. v # <<>> /\ w # <<>>
  BY <1>1, <1>2, <1>3
<1>11. NoneHidden(v)
  <2>1. v[n] \notin Dots
    BY <1>1, <1>6, <1>7 DEF Dots
  <2>2. \A i, j \in 1..n : i < j /\ v[i] = <<>> => v[j] # DotDot
    BY <1>5, <1>7
  <2> QED BY <1>3, <1>10, <2>1, <2>2 DEF NoneHidden
<1> DEFINE path == ResolveDotSegments(v)
           d == Directory(w)
<1>12. PICK idx : Lists(idx, LeftOf(v), Len(v)) /\ path \in Seq(Text) /\ Shows(path, v, idx)
  BY <1>3, <1>11, ResolveKept
<1>13. d = Picked(w, LeftOf(w))
  BY <1>2, <1>6, <1>10, DirectoryPicks
<1>14. Lists(idx, LeftOf(w), Len(w))
  BY <1>2, <1>3, <1>9, <1>12
<1>15. /\ d \in Seq(Strings) /\ Len(d) = Len(idx)
       /\ \A j \in 1..Len(idx) : d[j] = w[idx[j]]
  BY <1>2, <1>13, <1>14, PickedListed
<1>16. \A j \in 1..Len(idx) : idx[j] \in 1..n
  <2> DEFINE S == 1..n
  <2>1. idx \in Seq(S)
    BY <1>3, <1>12 DEF Lists, Rising
  <2> HIDE DEF S
  <2>2. \A j \in 1..Len(idx) : idx[j] \in S
    BY <2>1
  <2> QED BY <2>2 DEF S
<1>17. Len(path) = Len(idx) /\ \A j \in 1..Len(idx) : path[j] = v[idx[j]]
  BY <1>12 DEF Shows
<1>18. path \in Seq(Text)
  BY <1>12
<1> HIDE DEF path, d
<1>19. \A j \in 1..Len(idx) : path[j] = Quote(d[j])
  BY <1>4, <1>15, <1>16, <1>17
<1>20. path = [j \in DOMAIN d |-> Quote(d[j])]
  <2>1. DOMAIN path = 1..Len(idx) /\ DOMAIN d = 1..Len(idx) /\ path = [j \in DOMAIN path |-> path[j]]
    BY <1>15, <1>17, <1>18
  <2> QED BY <1>19, <2>1
<1> QED
  BY <1>15, <1>20 DEF path, d, v, w

LEMMA QueryMeaning ==
  ASSUME NEW u \in Url, PlainQuery(u.query)
  PROVE  /\ Normalise(u).query = [j \in DOMAIN Kept(u.query) |-> QuotedPart(Kept(u.query)[j])]
         /\ Meaning(u).query = [j \in DOMAIN Kept(u.query) |-> MeantPart(Kept(u.query)[j])]
<1> DEFINE q == u.query
<1>1. q \in Seq(PartType)
  BY UrlFields
<1>2. \A i \in DOMAIN q : Tracks(q[i]) <=> IsTracking(q[i])
  <2>1. ASSUME NEW i \in DOMAIN q, Tracks(q[i]) PROVE IsTracking(q[i])
    <3>1. q[i] \in PartType
      BY <1>1
    <3>2. Parsed(q[i].key) \in Strings
      BY <3>1, PartFields
    <3>3. LowerCase(LowerCase(Parsed(q[i].key))) = LowerCase(Parsed(q[i].key))
      BY <3>2, LowerTwice
    <3> QED BY <2>1, <3>3 DEF Tracks, IsTracking
  <2>2. ASSUME NEW i \in DOMAIN q, IsTracking(q[i]) PROVE Tracks(q[i])
    BY <2>2 DEF PlainQuery, PlainPart
  <2> QED BY <2>1, <2>2
<1>3. {i \in DOMAIN q : ~IsTracking(q[i])} = {i \in DOMAIN q : ~Tracks(q[i])}
  BY <1>2
<1>4. Picked(q, {i \in DOMAIN q : ~IsTracking(q[i])}) = Kept(q)
  BY <1>3 DEF Kept
<1>5. Normalise(u).query = NormaliseQuery(q)
  BY DEF Normalise
<1>6. NormaliseQuery(q) = [j \in DOMAIN Kept(q) |-> QuotedPart(Kept(q)[j])]
  BY <1>1, PlainQueryForm
<1>7. Meaning(u).query = [j \in DOMAIN Kept(q) |-> MeantPart(Kept(q)[j])]
  BY <1>4 DEF Meaning, MeantPart
<1> QED
  BY <1>5, <1>6, <1>7

LEMMA QuotedEqual ==
  ASSUME NEW a \in Seq(Strings), NEW b \in Seq(Strings)
  PROVE  a = b <=> [j \in DOMAIN a |-> Quote(a[j])] = [j \in DOMAIN b |-> Quote(b[j])]
<1> DEFINE f == [j \in DOMAIN a |-> Quote(a[j])]
           g == [j \in DOMAIN b |-> Quote(b[j])]
<1>1. ASSUME f = g PROVE a = b
  <2>1. DOMAIN a = DOMAIN b
    BY <1>1
  <2>2. ASSUME NEW j \in DOMAIN a PROVE a[j] = b[j]
    <3>1. Quote(a[j]) = Quote(b[j])
      <4>1. f[j] = Quote(a[j]) /\ g[j] = Quote(b[j])
        BY <2>1
      <4> HIDE DEF f, g
      <4> QED BY <1>1, <4>1
    <3>2. a[j] \in Strings /\ b[j] \in Strings
      BY <2>1
    <3> QED BY <3>1, <3>2, QuoteInjective
  <2> QED BY <2>1, <2>2
<1> QED
  BY <1>1

LEMMA PartsEqual ==
  ASSUME NEW a \in Seq(PartType), NEW b \in Seq(PartType)
  PROVE  [j \in DOMAIN a |-> MeantPart(a[j])] = [j \in DOMAIN b |-> MeantPart(b[j])]
           <=> [j \in DOMAIN a |-> QuotedPart(a[j])] = [j \in DOMAIN b |-> QuotedPart(b[j])]
<1> DEFINE M(s) == [j \in DOMAIN s |-> MeantPart(s[j])]
           F(s) == [j \in DOMAIN s |-> QuotedPart(s[j])]
<1>1. ASSUME NEW p \in PartType, NEW r \in PartType
      PROVE  MeantPart(p) = MeantPart(r) <=> QuotedPart(p) = QuotedPart(r)
  <2>1. /\ Parsed(p.key) \in Strings /\ Parsed(p.value) \in Strings
        /\ Parsed(r.key) \in Strings /\ Parsed(r.value) \in Strings
    BY PartFields
  <2>2. /\ Quote(Parsed(p.key)) = Quote(Parsed(r.key)) <=> Parsed(p.key) = Parsed(r.key)
        /\ Quote(Parsed(p.value)) = Quote(Parsed(r.value)) <=> Parsed(p.value) = Parsed(r.value)
    BY <2>1, QuoteInjective
  <2> QED BY <2>2 DEF MeantPart, QuotedPart
<1>2. \A j \in DOMAIN a : a[j] \in PartType
  OBVIOUS
<1>3. \A j \in DOMAIN b : b[j] \in PartType
  OBVIOUS
<1>4. /\ DOMAIN M(a) = DOMAIN a /\ DOMAIN F(a) = DOMAIN a
      /\ DOMAIN M(b) = DOMAIN b /\ DOMAIN F(b) = DOMAIN b
      /\ \A j \in DOMAIN a : M(a)[j] = MeantPart(a[j]) /\ F(a)[j] = QuotedPart(a[j])
      /\ \A j \in DOMAIN b : M(b)[j] = MeantPart(b[j]) /\ F(b)[j] = QuotedPart(b[j])
  OBVIOUS
<1>5. ASSUME M(a) = M(b) PROVE F(a) = F(b)
  <2>1. DOMAIN a = DOMAIN b
    BY <1>4, <1>5
  <2>2. ASSUME NEW j \in DOMAIN a PROVE QuotedPart(a[j]) = QuotedPart(b[j])
    <3>1. MeantPart(a[j]) = MeantPart(b[j])
      BY <1>4, <1>5, <2>1
    <3> QED BY <1>1, <1>2, <1>3, <2>1, <3>1
  <2> QED BY <2>1, <2>2
<1>6. ASSUME F(a) = F(b) PROVE M(a) = M(b)
  <2>1. DOMAIN a = DOMAIN b
    BY <1>4, <1>6
  <2>2. ASSUME NEW j \in DOMAIN a PROVE MeantPart(a[j]) = MeantPart(b[j])
    <3>1. QuotedPart(a[j]) = QuotedPart(b[j])
      BY <1>4, <1>6, <2>1
    <3> QED BY <1>1, <1>2, <1>3, <2>1, <3>1
  <2> QED BY <2>1, <2>2
<1> QED
  BY <1>5, <1>6

\* A port that is written, if it is the scheme's own, goes without saying.
LEMMA PortsEqual ==
  ASSUME NEW u \in Url, NEW w \in Url, u.scheme = w.scheme
  PROVE  Normalise(u).port = Normalise(w).port <=> Meaning(u).port = Meaning(w).port
<1> DEFINE default == DefaultPorts[u.scheme]
<1>1. u.scheme \in {"http", "https"}
  BY UrlFields
<1>2. default # NoPort
  BY <1>1, DefaultPort
<1>3. /\ Normalise(u).port = IF u.port = default THEN NoPort ELSE u.port
      /\ Normalise(w).port = IF w.port = default THEN NoPort ELSE w.port
  BY DEF Normalise
<1>4. /\ Meaning(u).port = IF u.port = NoPort THEN default ELSE u.port
      /\ Meaning(w).port = IF w.port = NoPort THEN default ELSE w.port
  BY DEF Meaning
<1> HIDE DEF default
<1> QED
  BY <1>2, <1>3, <1>4

LEMMA IdentityExact ==
  ASSUME NEW u \in Url, NEW w \in Url, WellSpelled(u), WellSpelled(w)
  PROVE  Normalise(u) = Normalise(w) <=> Meaning(u) = Meaning(w)
<1> DEFINE D(x) == Directory([i \in DOMAIN x.path |-> Unquote(x.path[i])])
           P(x) == ResolveDotSegments([i \in DOMAIN x.path |-> NormalisePercentEncoding(x.path[i])])
<1>1. /\ u.path \in Seq(Text) /\ u.path # <<>> /\ u.query \in Seq(PartType)
      /\ PlainPath(u.path) /\ PlainQuery(u.query)
      /\ w.path \in Seq(Text) /\ w.path # <<>> /\ w.query \in Seq(PartType)
      /\ PlainPath(w.path) /\ PlainQuery(w.query)
  BY UrlFields DEF WellSpelled, PlainQuery
<1>2. /\ D(u) \in Seq(Strings) /\ P(u) = [j \in DOMAIN D(u) |-> Quote(D(u)[j])]
      /\ D(w) \in Seq(Strings) /\ P(w) = [j \in DOMAIN D(w) |-> Quote(D(w)[j])]
  BY <1>1, PathMeaning
<1>3. P(u) = P(w) <=> D(u) = D(w)
  <2> DEFINE a == D(u)
             b == D(w)
  <2>1. a \in Seq(Strings) /\ b \in Seq(Strings)
    BY <1>2
  <2>2. P(u) = [j \in DOMAIN a |-> Quote(a[j])] /\ P(w) = [j \in DOMAIN b |-> Quote(b[j])]
    BY <1>2
  <2> HIDE DEF a, b, P
  <2>3. a = b <=> [j \in DOMAIN a |-> Quote(a[j])] = [j \in DOMAIN b |-> Quote(b[j])]
    BY <2>1, QuotedEqual
  <2>4. P(u) = P(w) <=> a = b
    BY <2>2, <2>3
  <2> QED BY <2>4 DEF a, b
<1>4. Normalise(u).query = Normalise(w).query <=> Meaning(u).query = Meaning(w).query
  <2> DEFINE a == Kept(u.query)
             b == Kept(w.query)
  <2>1. a \in Seq(PartType) /\ b \in Seq(PartType)
    BY <1>1, QueryForm
  <2>2. /\ Normalise(u).query = [j \in DOMAIN a |-> QuotedPart(a[j])]
        /\ Normalise(w).query = [j \in DOMAIN b |-> QuotedPart(b[j])]
        /\ Meaning(u).query = [j \in DOMAIN a |-> MeantPart(a[j])]
        /\ Meaning(w).query = [j \in DOMAIN b |-> MeantPart(b[j])]
    BY <1>1, QueryMeaning
  <2> HIDE DEF a, b
  <2>3. [j \in DOMAIN a |-> MeantPart(a[j])] = [j \in DOMAIN b |-> MeantPart(b[j])]
          <=> [j \in DOMAIN a |-> QuotedPart(a[j])] = [j \in DOMAIN b |-> QuotedPart(b[j])]
    BY <2>1, PartsEqual
  <2> QED BY <2>2, <2>3
<1>5. u.scheme = w.scheme =>
        (Normalise(u).port = Normalise(w).port <=> Meaning(u).port = Meaning(w).port)
  BY PortsEqual
<1>6. ASSUME NEW x \in Url
      PROVE  /\ Normalise(x) = [scheme |-> x.scheme, host |-> x.host, plain |-> TRUE,
                                port |-> Normalise(x).port, path |-> P(x),
                                query |-> Normalise(x).query, fragment |-> FALSE]
             /\ Meaning(x) = [scheme |-> x.scheme, host |-> x.host, port |-> Meaning(x).port,
                              path |-> D(x), query |-> Meaning(x).query]
  BY DEF Normalise, Meaning
<1> HIDE DEF D, P
<1>7. Normalise(u) = Normalise(w) <=>
        /\ u.scheme = w.scheme /\ u.host = w.host /\ Normalise(u).port = Normalise(w).port
        /\ P(u) = P(w) /\ Normalise(u).query = Normalise(w).query
  <2> DEFINE nu == Normalise(u)
             nw == Normalise(w)
  <2>1. /\ nu = [scheme |-> u.scheme, host |-> u.host, plain |-> TRUE, port |-> nu.port,
                 path |-> P(u), query |-> nu.query, fragment |-> FALSE]
        /\ nw = [scheme |-> w.scheme, host |-> w.host, plain |-> TRUE, port |-> nw.port,
                 path |-> P(w), query |-> nw.query, fragment |-> FALSE]
    BY <1>6
  <2> HIDE DEF nu, nw
  <2>2. /\ nu.scheme = u.scheme /\ nu.host = u.host /\ nu.path = P(u)
        /\ nw.scheme = w.scheme /\ nw.host = w.host /\ nw.path = P(w)
    BY <2>1
  <2>3. nu = nw <=> /\ u.scheme = w.scheme /\ u.host = w.host /\ nu.port = nw.port
                    /\ P(u) = P(w) /\ nu.query = nw.query
    BY <2>1, <2>2
  <2> QED BY <2>3 DEF nu, nw
<1>8. Meaning(u) = Meaning(w) <=>
        /\ u.scheme = w.scheme /\ u.host = w.host /\ Meaning(u).port = Meaning(w).port
        /\ D(u) = D(w) /\ Meaning(u).query = Meaning(w).query
  <2> DEFINE mu == Meaning(u)
             mw == Meaning(w)
  <2>1. /\ mu = [scheme |-> u.scheme, host |-> u.host, port |-> mu.port,
                 path |-> D(u), query |-> mu.query]
        /\ mw = [scheme |-> w.scheme, host |-> w.host, port |-> mw.port,
                 path |-> D(w), query |-> mw.query]
    BY <1>6
  <2> HIDE DEF mu, mw
  <2>2. /\ mu.scheme = u.scheme /\ mu.host = u.host /\ mu.path = D(u)
        /\ mw.scheme = w.scheme /\ mw.host = w.host /\ mw.path = D(w)
    BY <2>1
  <2>3. mu = mw <=> /\ u.scheme = w.scheme /\ u.host = w.host /\ mu.port = mw.port
                    /\ D(u) = D(w) /\ mu.query = mw.query
    BY <2>1, <2>2
  <2> QED BY <2>3 DEF mu, mw
<1> QED
  BY <1>3, <1>4, <1>5, <1>7, <1>8

(***************************************************************************)
(* normalise is "the definition of URL identity everywhere": the form of   *)
(* what was respelled, edited and put through the pipeline again is that   *)
(* of the URL as it was found exactly when the origin server is asked for  *)
(* the same, for URLs of any length.                                       *)
(***************************************************************************)
THEOREM IdentityHolds == Spec => []OneIdentity
<1>1. UrlTypeOK => OneIdentity
  BY IdentityExact DEF UrlTypeOK, OneIdentity
<1> QED
  BY <1>1, StaysUrl, PTL

\* A form is so spelled, if the URL was.
LEMMA FormSpelled ==
  ASSUME NEW u \in Url, WellSpelled(u)
  PROVE  WellSpelled(Normalise(u))
<1> DEFINE form == Normalise(u)
           path == form.path
           d == Directory([i \in DOMAIN u.path |-> Unquote(u.path[i])])
<1>1. /\ u.path \in Seq(Text) /\ u.path # <<>> /\ u.query \in Seq(PartType)
      /\ PlainPath(u.path) /\ PlainQuery(u.query)
  BY UrlFields DEF WellSpelled, PlainQuery
<1>2. PlainQuery(form.query)
  BY <1>1, QueryStays DEF Normalise
<1>3. d \in Seq(Strings) /\ path = [j \in DOMAIN d |-> Quote(d[j])]
  BY <1>1, PathMeaning DEF Normalise
<1>4. form \in Url /\ path \in Seq(Clean)
  BY NormaliseType
<1>5. path # <<>>
  BY <1>4, UrlFields
<1> HIDE DEF form, path, d
<1>6. ASSUME NEW i \in DOMAIN path
      PROVE  PlainText(path[i]) /\ Unquote(path[i]) \notin Dots
  <2>1. path[i] \in Clean /\ i \in DOMAIN d /\ path[i] = Quote(d[i])
    BY <1>3, <1>4
  <2>2. d[i] \in Strings
    BY <1>3, <2>1
  <2>3. path[i] \in Strings /\ Legible(path[i]) /\ path[i] \notin Dots
    BY <2>1, TextStrings DEF Clean
  <2>4. PlainText(path[i])
    BY <2>3, LegibleText
  <2>5. d[i] \in Dots => Quote(d[i]) \in Dots
    BY QuotedDots DEF Dots
  <2>6. Unquote(path[i]) = d[i]
    BY <2>1, <2>2, UnquoteQuote
  <2> QED BY <2>1, <2>3, <2>4, <2>5, <2>6
<1>7. Last(path) = path[Len(path)] /\ Len(path) \in DOMAIN path
  <2>1. path \in Seq(Clean)
    BY <1>4
  <2>2. Last(path) = path[Len(path)] /\ Len(path) \in Nat \ {0}
    BY <1>5, <2>1, FrontAt
  <2>3. DOMAIN path = 1..Len(path)
    BY <2>1
  <2> QED BY <2>2, <2>3
<1>8. PlainPath(path)
  BY <1>6, <1>7 DEF PlainPath, PlainText, Dots
<1> QED
  BY <1>2, <1>8 DEF WellSpelled, PlainQuery, form, path

\* Whichever way a URL is put through the pipeline, the server is asked for
\* what it was asked for.
PassKeepsMeaning ==
  Requeue /\ WellSpelled(url) => WellSpelled(url') /\ Meaning(url') = Meaning(url)

(***************************************************************************)
(* A pass of the pipeline (normalise, run again on what is stored) does    *)
(* not change which resource is fetched, and leaves a URL spelled so that  *)
(* the next pass does not either.                                          *)
(***************************************************************************)
THEOREM PassesKeepMeaning == Spec => [][PassKeepsMeaning]_vars
<1>1. UrlTypeOK /\ [Next]_vars => [PassKeepsMeaning]_vars
  <2> SUFFICES ASSUME UrlTypeOK, Requeue, WellSpelled(url)
               PROVE  WellSpelled(url') /\ Meaning(url') = Meaning(url)
    BY DEF PassKeepsMeaning
  <2>1. url \in Url /\ Normalise(url) \in Url
    BY NormaliseType DEF UrlTypeOK
  <2>2. WellSpelled(Normalise(url))
    BY <2>1, FormSpelled
  <2>3. Normalise(Normalise(url)) = Normalise(url)
    BY <2>1, OnePass
  <2>4. Meaning(Normalise(url)) = Meaning(url)
    BY <2>1, <2>2, <2>3, IdentityExact
  <2>5. url' = Normalise(url)
    BY DEF Requeue
  <2> QED BY <2>2, <2>4, <2>5
<1> QED
  BY <1>1, StaysUrl, PTL DEF Spec
=============================================================================
