------------------------ MODULE ImportClosureProofs ------------------------
(***************************************************************************)
(* Theorems about ImportClosure, for any packages, names and import        *)
(* graphs.                                                                 *)
(***************************************************************************)
EXTENDS ImportClosure, FiniteSetTheorems, SequenceTheorems, TLAPS

USE NameAssumption

-----------------------------------------------------------------------------
(* The worklist *)

\* list(S) is a sequence of the members of S, empty only for an empty S.
LEMMA OrderedMembers ==
  ASSUME NEW S \in SUBSET Names, NEW q \in Ordered(S)
  PROVE  /\ q \in Seq(Names)
         /\ \A i \in 1..Len(q) : q[i] \in S
         /\ S # {} => q # <<>>
<1>1. IsFiniteSet(S) /\ Cardinality(S) \in Nat
  BY FS_Subset, FS_CardinalityType
<1>2. S # {} => Cardinality(S) # 0
  BY <1>1, FS_EmptySet
<1>3. q \in [1..Cardinality(S) -> S]
  BY DEF Ordered, SetToSeqs
<1>4. q \in Seq(S) /\ Len(q) = Cardinality(S)
  BY <1>1, <1>3
<1> QED
  BY <1>2, <1>3, <1>4

LEMMA PopMembers ==
  ASSUME NEW q \in Seq(Names), q # <<>>
  PROVE  /\ Last(q) \in Names
         /\ Front(q) \in Seq(Names)
         /\ Len(q) \in 1..Len(q) /\ Last(q) = q[Len(q)]
         /\ Len(Front(q)) = Len(q) - 1
         /\ \A i \in 1..Len(Front(q)) : i \in 1..Len(q) /\ Front(q)[i] = q[i]
<1> DEFINE n == Len(q) - 1
<1>1. Len(q) \in Nat \ {0} /\ n \in Nat /\ \A i \in 1..Len(q) : q[i] \in Names
  OBVIOUS
<1>2. \A i \in 1..n : q[i] \in Names
  BY <1>1
<1>3. 1 \in Int /\ n \in Int
  BY <1>1
<1>4. /\ SubSeq(q, 1, n) \in Seq(Names)
      /\ Len(SubSeq(q, 1, n)) = IF 1 <= n THEN n - 1 + 1 ELSE 0
      /\ \A i \in 1..n - 1 + 1 : SubSeq(q, 1, n)[i] = q[1 + i - 1]
  <2> HIDE DEF n
  <2> QED BY <1>2, <1>3, SubSeqProperties
<1>5. Front(q) = SubSeq(q, 1, n) /\ Last(q) = q[Len(q)]
  BY DEF Front, Last
<1>6. Len(Front(q)) = n
  <2> HIDE DEF n
  <2> QED BY <1>1, <1>4, <1>5
<1>7. \A i \in 1..n : i \in 1..Len(q) /\ Front(q)[i] = q[i]
  <2> SUFFICES ASSUME NEW i \in 1..n PROVE i \in 1..Len(q) /\ Front(q)[i] = q[i]
    OBVIOUS
  <2>1. i \in 1..n - 1 + 1 /\ 1 + i - 1 = i /\ i \in 1..Len(q)
    BY <1>1
  <2>2. SubSeq(q, 1, n)[i] = q[1 + i - 1]
    <3> HIDE DEF n
    <3> QED BY <1>4, <2>1
  <2> QED BY <1>5, <2>1, <2>2
<1>8. Last(q) \in Names /\ Last(q) = q[Len(q)] /\ Len(q) \in 1..Len(q)
  BY <1>1, <1>5
<1>9. Front(q) \in Seq(Names)
  BY <1>4, <1>5
<1> HIDE DEF n
<1> QED
  BY <1>6, <1>7, <1>8, <1>9 DEF n

\* What is in the queue after a pop and a push was in it or is new.
LEMMA PushMembers ==
  ASSUME NEW q \in Seq(Names), q # <<>>,
         NEW S \in SUBSET Names, NEW found \in Ordered(S)
  PROVE  /\ Front(q) \o found \in Seq(Names)
         /\ \A i \in 1..Len(Front(q) \o found) :
              \/ (Front(q) \o found)[i] \in S
              \/ \E j \in 1..Len(q) : (Front(q) \o found)[i] = q[j]
<1>1. Front(q) \in Seq(Names) /\ found \in Seq(Names)
  BY PopMembers, OrderedMembers
<1>2. \A i \in 1..Len(found) : found[i] \in S
  BY OrderedMembers
<1>3. \A i \in 1..Len(Front(q)) : \E j \in 1..Len(q) : Front(q)[i] = q[j]
  BY PopMembers
<1> DEFINE r == Front(q) \o found
<1>4. Len(r) = Len(Front(q)) + Len(found)
  BY <1>1
<1>5. ASSUME NEW i \in 1..Len(r)
      PROVE  r[i] \in S \/ \E j \in 1..Len(q) : r[i] = q[j]
  <2>1. CASE i <= Len(Front(q))
    <3>1. r[i] = Front(q)[i] /\ i \in 1..Len(Front(q))
      BY <1>1, <2>1
    <3> QED BY <3>1, <1>3
  <2>2. CASE i > Len(Front(q))
    <3>1. r[i] = found[i - Len(Front(q))] /\ i - Len(Front(q)) \in 1..Len(found)
      BY <1>1, <1>4, <2>2
    <3> QED BY <3>1, <1>2
  <2> QED BY <1>1, <2>1, <2>2
<1> QED BY <1>1, <1>5

-----------------------------------------------------------------------------
(* Types *)

LEMMA InitTypeOK == Init => TypeOK
<1>1. SUFFICES ASSUME Init PROVE TypeOK
  OBVIOUS
<1>2. direct \in SUBSET Names
  BY <1>1 DEF Init
<1>3. queue \in Seq(Names)
  BY <1>1, <1>2, OrderedMembers DEF Init
<1> QED
  BY <1>1, <1>2, <1>3 DEF Init, TypeOK

LEMMA NextTypeOK == TypeOK /\ [Next]_vars => TypeOK'
<1>1. SUFFICES ASSUME TypeOK, [Next]_vars PROVE TypeOK'
  OBVIOUS
<1>2. CASE Skip
  <2>1. Last(queue) \in Names /\ Front(queue) \in Seq(Names)
    BY <1>1, <1>2, PopMembers DEF Skip, TypeOK
  <2> QED BY <1>1, <1>2, <2>1 DEF Skip, TypeOK
<1>3. CASE Expand
  <2>1. Last(queue) \in Names /\ queue \in Seq(Names) /\ queue # <<>>
    BY <1>1, <1>3, PopMembers DEF Expand, TypeOK
  <2>2. Last(queue)[1] \in Packages
    BY <1>3 DEF Expand, Skips, FirstParty
  <2>3. imports[Last(queue)[1]] \in SUBSET Names
    BY <1>1, <2>2 DEF TypeOK
  <2>4. queue' \in Seq(Names)
    BY <1>3, <2>1, <2>3, PushMembers DEF Expand
  <2>5. seen' \subseteq Names
    BY <1>1, <1>3, <2>1, <2>3 DEF Expand, TypeOK
  <2> QED BY <1>1, <1>3, <2>4, <2>5 DEF Expand, TypeOK
<1>4. CASE ParseError
  BY <1>1, <1>4 DEF ParseError, TypeOK
<1>5. CASE Judge
  BY <1>1, <1>5 DEF Judge, TypeOK
<1>6. CASE UNCHANGED vars
  BY <1>1, <1>6 DEF vars, TypeOK
<1> QED
  BY <1>1, <1>2, <1>3, <1>4, <1>5, <1>6 DEF Next, Finished

\* The variables of a check stay in their domains.
THEOREM TypesHold == Spec => []TypeOK
BY InitTypeOK, NextTypeOK, PTL DEF Spec

-----------------------------------------------------------------------------
(* No false alarm *)

\* Every set the file reaches holds what has been seen and what is queued.
Contained ==
  \A S \in SUBSET Names :
    Reaches(S) => /\ seen \subseteq S
                  /\ \A i \in 1..Len(queue) : queue[i] \in S

Judged ==
  /\ verdict = "fail" => Hits(direct \cup seen) # {}
  /\ verdict = "pass" => Hits(direct \cup seen) = {}

LEMMA InitContained == Init => Contained /\ Judged
<1>1. SUFFICES ASSUME Init PROVE Contained /\ Judged
  OBVIOUS
<1>2. \A i \in 1..Len(queue) : queue[i] \in direct
  BY <1>1, OrderedMembers DEF Init
<1> QED
  BY <1>1, <1>2 DEF Init, Contained, Judged, Reaches

LEMMA NextContained ==
  TypeOK /\ Contained /\ [Next]_vars => Contained'
<1>1. SUFFICES ASSUME TypeOK, Contained, [Next]_vars,
                      NEW S \in SUBSET Names, Reaches(S)'
               PROVE  /\ seen' \subseteq S
                      /\ \A i \in 1..Len(queue') : queue'[i] \in S
  BY DEF Contained
<1>2. direct' = direct /\ imports' = imports
  BY <1>1 DEF Next, Skip, Expand, ParseError, Judge, Finished, vars
<1>3. Closed(S) /\ seen \subseteq S /\ \A i \in 1..Len(queue) : queue[i] \in S
  BY <1>1, <1>2 DEF Contained, Reaches, Closed
<1>4. ASSUME queue # <<>>
      PROVE  Last(queue) \in S /\ Top(Last(queue)) \in S
  BY <1>1, <1>3, <1>4, PopMembers DEF Closed, TypeOK
<1>5. CASE Skip
  <2>1. \A i \in 1..Len(Front(queue)) : Front(queue)[i] \in S
    BY <1>1, <1>3, <1>5, PopMembers DEF Skip, TypeOK
  <2> QED BY <1>3, <1>4, <1>5, <2>1 DEF Skip
<1>6. CASE Expand
  <2> DEFINE p == Last(queue)[1]
  <2>1. p \in Packages /\ queue # <<>> /\ queue \in Seq(Names)
    BY <1>1, <1>6 DEF Expand, Skips, FirstParty, TypeOK
  <2>2. imports[p] \in SUBSET Names /\ imports[p] \subseteq S
    BY <1>1, <1>3, <1>4, <2>1 DEF Closed, FirstParty, TypeOK
  <2>3. PICK found \in Ordered(imports[p]) : queue' = Front(queue) \o found
    BY <1>6 DEF Expand
  <2>4. \A i \in 1..Len(queue') :
          queue'[i] \in imports[p] \/ \E j \in 1..Len(queue) : queue'[i] = queue[j]
    BY <2>1, <2>2, <2>3, PushMembers
  <2>5. \A i \in 1..Len(queue') : queue'[i] \in S
    BY <1>3, <2>2, <2>4
  <2> QED BY <1>3, <1>4, <1>6, <2>1, <2>2, <2>5 DEF Expand
<1>7. CASE ParseError \/ Judge \/ UNCHANGED vars
  BY <1>3, <1>7 DEF ParseError, Judge, vars
<1> QED
  BY <1>1, <1>5, <1>6, <1>7 DEF Next, Finished

LEMMA NextJudged == Judged /\ [Next]_vars => Judged'
<1>1. SUFFICES ASSUME Judged, [Next]_vars PROVE Judged'
  OBVIOUS
<1>2. CASE Skip \/ Expand \/ ParseError
  BY <1>1, <1>2 DEF Skip, Expand, ParseError, Judged
<1>3. CASE Judge
  BY <1>1, <1>3 DEF Judge, Judged, Hits
<1>4. CASE UNCHANGED vars
  BY <1>1, <1>4 DEF vars, Judged, Hits
<1> QED
  BY <1>1, <1>2, <1>3, <1>4 DEF Next, Finished

\* A check fails only for a name in every set closed under what the file and
\* the packages import.
THEOREM FailuresAreReal == Spec => []NoFalseAlarm
<1>1. TypeOK /\ Contained /\ Judged => NoFalseAlarm
  <2>1. SUFFICES ASSUME TypeOK, Contained, Judged, verdict = "fail",
                        NEW S \in SUBSET Names, Reaches(S)
                 PROVE  Hits(S) # {}
    BY DEF NoFalseAlarm, Violates
  <2>2. direct \cup seen \subseteq S
    BY <2>1 DEF Contained, Reaches
  <2> QED BY <2>1, <2>2 DEF Judged, Hits
<1> QED
  BY <1>1, InitTypeOK, NextTypeOK, InitContained, NextContained, NextJudged, PTL
     DEF Spec

-----------------------------------------------------------------------------
(* Near misses *)

OnlyPackage(p) == p \in Packages /\ direct # {} /\ \A n \in direct : n[1] = p

\* While the only package a file imports is not expanded, nothing is seen and
\* the queue holds names of that package.
NearExpanded ==
  \A p \in Packages :
    OnlyPackage(p) =>
      \/ imports[p] \subseteq seen
      \/ /\ seen = {} /\ queue # <<>> /\ verdict \in {"none", "fatal"}
         /\ \A i \in 1..Len(queue) : queue[i][1] = p

LEMMA InitNear == Init => NearExpanded
<1>1. SUFFICES ASSUME Init, NEW p \in Packages, OnlyPackage(p)
               PROVE  /\ seen = {} /\ queue # <<>> /\ verdict = "none"
                      /\ \A i \in 1..Len(queue) : queue[i][1] = p
  BY DEF NearExpanded
<1>2. direct \in SUBSET Names /\ direct # {}
  BY <1>1 DEF Init, OnlyPackage
<1>3. queue # <<>> /\ \A i \in 1..Len(queue) : queue[i] \in direct
  BY <1>1, <1>2, OrderedMembers DEF Init
<1> QED BY <1>1, <1>3 DEF Init, OnlyPackage

LEMMA NextNear == TypeOK /\ NearExpanded /\ [Next]_vars => NearExpanded'
<1>1. SUFFICES ASSUME TypeOK, NearExpanded, [Next]_vars,
                      NEW p \in Packages, OnlyPackage(p)'
               PROVE  \/ imports'[p] \subseteq seen'
                      \/ /\ seen' = {} /\ queue' # <<>>
                         /\ verdict' \in {"none", "fatal"}
                         /\ \A i \in 1..Len(queue') : queue'[i][1] = p
  BY DEF NearExpanded
<1>2. direct' = direct /\ imports' = imports /\ seen \subseteq seen'
  BY <1>1 DEF Next, Skip, Expand, ParseError, Judge, Finished, vars
<1>3. CASE imports[p] \subseteq seen
  BY <1>2, <1>3
<1>4. CASE /\ seen = {} /\ queue # <<>> /\ verdict \in {"none", "fatal"}
           /\ \A i \in 1..Len(queue) : queue[i][1] = p
  <2>1. Last(queue)[1] = p
    BY <1>1, <1>4, PopMembers DEF TypeOK
  <2>2. ~Skip
    BY <1>4, <2>1 DEF Skip, Skips, FirstParty
  <2>3. CASE Expand
    BY <1>2, <2>1, <2>3 DEF Expand
  <2>4. CASE ParseError
    BY <1>4, <2>4 DEF ParseError
  <2>5. ~Judge
    BY <1>4 DEF Judge
  <2>6. CASE UNCHANGED vars
    BY <1>4, <2>6 DEF vars
  <2> QED BY <1>1, <2>2, <2>3, <2>4, <2>5, <2>6 DEF Next, Finished
<1> QED
  BY <1>1, <1>2, <1>3, <1>4 DEF NearExpanded, OnlyPackage

\* A forbidden name one import away, through the only package a file imports,
\* never passes.
THEOREM NearMissesFail == Spec => []NearMissesCaught
<1>1. NearExpanded /\ Judged => NearMissesCaught
  <2>1. SUFFICES ASSUME NearExpanded, Judged, verdict = "pass",
                        Hits(direct) # {} \/ FirstStep
                 PROVE  FALSE
    BY DEF NearMissesCaught
  <2>2. Hits(direct \cup seen) = {}
    BY <2>1 DEF Judged
  <2>3. CASE Hits(direct) # {}
    BY <2>2, <2>3 DEF Hits
  <2>4. CASE FirstStep
    <3>1. PICK p \in Packages : OnlyPackage(p) /\ Hits(direct \cup imports[p]) # {}
      BY <2>4 DEF FirstStep, OnlyPackage
    <3>2. imports[p] \subseteq seen
      BY <2>1, <3>1 DEF NearExpanded
    <3> QED BY <2>2, <3>1, <3>2 DEF Hits
  <2> QED BY <2>1, <2>3, <2>4
<1> QED
  BY <1>1, InitTypeOK, NextTypeOK, InitNear, NextNear, InitContained, NextJudged,
     PTL DEF Spec
=============================================================================
