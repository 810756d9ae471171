----------------------------- MODULE ScanLemmas -----------------------------
(***************************************************************************)
(* What the proofs about texts and names need, which are read from left to *)
(* right: induction and recursion over 0..n, stated with sets and          *)
(* functions in the place of operators so that first-order provers can use *)
(* them, and what it means to end with a sequence.                         *)
(***************************************************************************)
EXTENDS Scans, SequencesExt, SequenceTheorems, WellFoundedInduction, TLAPS

LEMMA Least ==
  ASSUME NEW T, T \subseteq Nat, T # {}
  PROVE  \E m \in T : \A k \in T : m <= k
<1> DEFINE R == OpToRel(<, Nat)
<1>1. IsWellFoundedOn(R, Nat)
  BY NatLessThanWellFounded, Zenon
<1>2. \A x, y \in Nat : <<x, y>> \in R <=> x < y
  BY DEF OpToRel
<1> HIDE DEF R
<1>3. PICK m \in T : \A k \in T : ~(<<k, m>> \in R)
  BY <1>1, WFMin
<1>4. ASSUME NEW k \in T PROVE m <= k
  <2>1. ~(k < m) /\ k \in Nat /\ m \in Nat
    BY <1>2, <1>3
  <2> QED BY <2>1
<1> QED BY <1>4

\* A set that holds 0, and i + 1 with every i below n, holds 0..n.
LEMMA Induction ==
  ASSUME NEW n \in Nat, NEW T, 0 \in T,
         \A i \in 0..(n - 1) : i \in T => i + 1 \in T
  PROVE  0..n \subseteq T
<1> DEFINE bad == (0..n) \ T
<1> SUFFICES ASSUME bad # {} PROVE FALSE
  OBVIOUS
<1>1. bad \subseteq Nat
  OBVIOUS
<1>2. PICK m \in bad : \A k \in bad : m <= k
  <2> HIDE DEF bad
  <2> QED BY <1>1, Least
<1>3. m - 1 \in 0..(n - 1) /\ m - 1 \in T
  BY <1>2
<1> QED BY <1>2, <1>3

\* f is what a recursion on 0..k from base with this step comes to.
Recurses(f, k, S, base, step) ==
  /\ f \in [0..k -> S] /\ f[0] = base
  /\ \A i \in 1..k : f[i] = step[<<f[i - 1], i>>]

\* There is such a function.
LEMMA Recursion ==
  ASSUME NEW n \in Nat, NEW S, NEW base \in S, NEW step \in [S \X (1..n) -> S]
  PROVE  \E f : Recurses(f, n, S, base, step)
<1> DEFINE T == {k \in 0..n : \E f : Recurses(f, k, S, base, step)}
<1>1. 0 \in T
  <2>1. Recurses([i \in 0..0 |-> base], 0, S, base, step)
    BY DEF Recurses
  <2>2. \E f : Recurses(f, 0, S, base, step)
    BY <2>1
  <2> QED BY <2>2
<1>2. ASSUME NEW k \in 0..(n - 1), k \in T PROVE k + 1 \in T
  <2>1. PICK f : Recurses(f, k, S, base, step)
    BY <1>2
  <2> DEFINE g == [i \in 0..(k + 1) |-> IF i <= k THEN f[i] ELSE step[<<f[k], k + 1>>]]
  <2>2. step[<<f[k], k + 1>>] \in S
    BY <2>1 DEF Recurses
  <2>3. g \in [0..(k + 1) -> S] /\ g[0] = base
    BY <2>1, <2>2 DEF Recurses
  <2>4. ASSUME NEW i \in 1..(k + 1) PROVE g[i] = step[<<g[i - 1], i>>]
    <3>1. CASE i <= k
      <4>1. g[i] = f[i] /\ g[i - 1] = f[i - 1] /\ i \in 1..k
        BY <3>1
      <4> QED BY <2>1, <4>1 DEF Recurses
    <3>2. CASE i = k + 1
      <4>1. g[i] = step[<<f[k], k + 1>>] /\ g[i - 1] = f[k]
        BY <3>2
      <4> QED BY <3>2, <4>1
    <3> QED BY <3>1, <3>2
  <2> HIDE DEF g
  <2>5. Recurses(g, k + 1, S, base, step)
    BY <2>3, <2>4 DEF Recurses
  <2>6. \E h : Recurses(h, k + 1, S, base, step)
    BY <2>5
  <2> QED BY <2>6
<1>3. n \in 0..n
  OBVIOUS
<1>4. 0..n \subseteq T
  <2> HIDE DEF T
  <2> QED BY <1>1, <1>2, Induction
<1> QED BY <1>3, <1>4

-----------------------------------------------------------------------------

LEMMA IsSeqOf ==
  ASSUME NEW S, NEW n \in Nat, NEW f \in [1..n -> S]
  PROVE  f \in Seq(S) /\ Len(f) = n
OBVIOUS

\* A concatenation, element by element.
LEMMA JoinedAt ==
  ASSUME NEW A, NEW s \in Seq(A), NEW t \in Seq(A)
  PROVE  /\ s \o t \in Seq(A) /\ Len(s) \in Nat /\ Len(t) \in Nat
         /\ Len(s \o t) = Len(s) + Len(t)
         /\ \A i \in 1..Len(s) : (s \o t)[i] = s[i]
         /\ \A i \in 1..Len(t) : (s \o t)[Len(s) + i] = t[i]
<1> DEFINE u == s \o t
           m == Len(s)
           n == Len(t)
<1>1. m \in Nat /\ n \in Nat
  OBVIOUS
<1>2. /\ u \in Seq(A) /\ Len(u) = m + n
      /\ \A i \in 1..(m + n) : u[i] = IF i <= m THEN s[i] ELSE t[i - m]
  BY ConcatProperties
<1> HIDE DEF u, m, n
<1>3. ASSUME NEW i \in 1..m PROVE u[i] = s[i]
  BY <1>1, <1>2
<1>4. ASSUME NEW i \in 1..n PROVE u[m + i] = t[i]
  <2>1. m + i \in 1..(m + n) /\ ~(m + i <= m) /\ (m + i) - m = i
    BY <1>1
  <2> QED BY <1>2, <2>1
<1> QED BY <1>1, <1>2, <1>3, <1>4 DEF u, m, n

LEMMA ReverseProperties ==
  ASSUME NEW A, NEW s \in Seq(A)
  PROVE  /\ Reverse(s) \in Seq(A) /\ Len(Reverse(s)) = Len(s)
         /\ \A i \in 1..Len(s) : Reverse(s)[i] = s[Len(s) - i + 1]
<1> DEFINE r == Reverse(s)
           n == Len(s)
<1>1. n \in Nat /\ \A i \in 1..n : s[i] \in A
  OBVIOUS
<1>2. r = [i \in 1..n |-> s[(n - i) + 1]]
  BY DEF Reverse
<1> HIDE DEF r, n
<1>3. \A i \in 1..n : r[i] = s[(n - i) + 1] /\ (n - i) + 1 \in 1..n
  BY <1>1, <1>2
<1>4. r \in [1..n -> A]
  BY <1>1, <1>2, <1>3
<1>5. r \in Seq(A) /\ Len(r) = n
  BY <1>1, <1>4, IsSeqOf
<1> QED BY <1>3, <1>5 DEF r, n

\* IsSuffix, element by element.
LEMMA SuffixAt ==
  ASSUME NEW A, NEW s \in Seq(A), NEW t \in Seq(A)
  PROVE  IsSuffix(s, t) <=>
           Len(s) <= Len(t) /\ \A i \in 1..Len(s) : t[(Len(t) - Len(s)) + i] = s[i]
<1> DEFINE r == Reverse(s)
           q == Reverse(t)
           n == Len(s)
           k == Len(t)
           u == SubSeq(r, 1, n)
           v == SubSeq(q, 1, n)
<1>1. /\ r \in Seq(A) /\ Len(r) = n /\ n \in Nat
      /\ \A i \in 1..n : r[i] = s[n - i + 1]
  BY ReverseProperties
<1>2. /\ q \in Seq(A) /\ Len(q) = k /\ k \in Nat
      /\ \A i \in 1..k : q[i] = t[k - i + 1]
  BY ReverseProperties
<1>3. IsSuffix(s, t) <=> n <= k /\ u = v
  BY <1>1, <1>2 DEF IsSuffix, IsPrefix
<1> SUFFICES ASSUME n <= k
             PROVE  u = v <=> \A i \in 1..n : t[(k - n) + i] = s[i]
  <2> HIDE DEF u, v, n, k
  <2> QED BY <1>3 DEF n, k
<1> HIDE DEF r, q, n, k
<1>4. u \in Seq(A) /\ Len(u) = n /\ \A i \in 1..n : u[i] = r[i]
  <2>1. \A i \in 1..n : r[i] \in A
    BY <1>1
  <2> QED BY <1>1, <2>1, SubSeqProperties
<1>5. v \in Seq(A) /\ Len(v) = n /\ \A i \in 1..n : v[i] = q[i]
  <2>1. \A i \in 1..n : q[i] \in A
    BY <1>1, <1>2
  <2> QED BY <1>1, <2>1, SubSeqProperties
<1> HIDE DEF u, v
<1>6. u = v <=> \A i \in 1..n : r[i] = q[i]
  <2>1. ASSUME \A i \in 1..n : r[i] = q[i] PROVE u = v
    BY <1>4, <1>5, <2>1, SeqEqual
  <2> QED BY <1>4, <1>5, <2>1
<1>7. ASSUME \A i \in 1..n : r[i] = q[i], NEW i \in 1..n PROVE t[(k - n) + i] = s[i]
  <2>1. n - i + 1 \in 1..n /\ n - i + 1 \in 1..k /\ n - (n - i + 1) + 1 = i
        /\ k - (n - i + 1) + 1 = (k - n) + i
    BY <1>1, <1>2
  <2>2. r[n - i + 1] = s[n - (n - i + 1) + 1]
    BY <1>1, <2>1
  <2>3. q[n - i + 1] = t[k - (n - i + 1) + 1]
    BY <1>2, <2>1
  <2>4. r[n - i + 1] = q[n - i + 1]
    BY <1>7, <2>1
  <2> QED BY <2>1, <2>2, <2>3, <2>4
<1>8. ASSUME \A i \in 1..n : t[(k - n) + i] = s[i], NEW i \in 1..n PROVE r[i] = q[i]
  <2>1. n - i + 1 \in 1..n /\ i \in 1..k /\ (k - n) + (n - i + 1) = k - i + 1
    BY <1>1, <1>2
  <2>2. r[i] = s[n - i + 1]
    BY <1>1
  <2>3. q[i] = t[k - i + 1]
    BY <1>2, <2>1
  <2>4. t[(k - n) + (n - i + 1)] = s[n - i + 1]
    BY <1>8, <2>1
  <2> QED BY <2>1, <2>2, <2>3, <2>4
<1> QED BY <1>6, <1>7, <1>8
\* A sequence without its last element, and with one more.
LEMMA FrontAt ==
  ASSUME NEW A, NEW s \in Seq(A), s # <<>>
  PROVE  /\ Len(s) \in Nat \ {0} /\ Last(s) = s[Len(s)] /\ Last(s) \in A
         /\ Front(s) \in Seq(A) /\ Len(Front(s)) = Len(s) - 1
         /\ \A i \in 1..(Len(s) - 1) : Front(s)[i] = s[i]
<1> DEFINE n == Len(s) - 1
           t == SubSeq(s, 1, n)
<1>1. Len(s) \in Nat \ {0} /\ n \in Nat /\ \A i \in 1..Len(s) : s[i] \in A
  OBVIOUS
<1>2. Front(s) = t /\ Last(s) = s[Len(s)]
  BY DEF Front, Last
<1>3. \A i \in 1..n : s[i] \in A
  BY <1>1
<1>4. t \in Seq(A) /\ Len(t) = n /\ \A i \in 1..n : t[i] = s[i]
  <2> HIDE DEF n
  <2> QED BY <1>1, <1>3, SubSeqProperties
<1> HIDE DEF t
<1> QED
  BY <1>1, <1>2, <1>4

LEMMA AppendAt ==
  ASSUME NEW A, NEW s \in Seq(A), NEW e \in A
  PROVE  /\ Append(s, e) \in Seq(A) /\ Len(s) \in Nat /\ Len(Append(s, e)) = Len(s) + 1
         /\ \A i \in 1..Len(s) : Append(s, e)[i] = s[i]
         /\ Append(s, e)[Len(s) + 1] = e
BY AppendProperties
=============================================================================
