---------------------------- MODULE ReleaseProofs ----------------------------
(***************************************************************************)
(* Theorems about Release, for any number of checkouts, commands and lost  *)
(* connections.  What a plan comes to when it runs alone is computed by    *)
(* TLC (PlansAssumption); that this is what it comes to beside any others  *)
(* is proved here.                                                         *)
(***************************************************************************)
EXTENDS ReleasePlans, FiniteSetTheorems, TLAPS

-----------------------------------------------------------------------------
(* The effect of a plan, statement by statement *)

LEMMA AddedStep ==
  ASSUME NEW plan, NEW n \in Nat
  PROVE  Added(plan, n + 1) = (Added(plan, n) \ plan[n + 1].drops) \cup plan[n + 1].adds
<1>1. ASSUME NEW f \in Added(plan, n + 1)
      PROVE  f \in (Added(plan, n) \ plan[n + 1].drops) \cup plan[n + 1].adds
  <2>1. PICK i \in 1..(n + 1) : /\ f \in plan[i].adds
                                /\ \A j \in (i + 1)..(n + 1) : f \notin plan[j].drops
    BY DEF Added
  <2>2. CASE i = n + 1
    BY <2>1, <2>2
  <2>3. CASE i # n + 1
    <3>1. i \in 1..n /\ n + 1 \in (i + 1)..(n + 1)
      BY <2>3
    <3>2. \A j \in (i + 1)..n : f \notin plan[j].drops
      BY <2>1
    <3> QED BY <2>1, <3>1, <3>2 DEF Added
  <2> QED BY <2>2, <2>3
<1>2. ASSUME NEW f \in plan[n + 1].adds PROVE f \in Added(plan, n + 1)
  <2>1. n + 1 \in 1..(n + 1) /\ (n + 1 + 1)..(n + 1) = {}
    OBVIOUS
  <2> QED BY <1>2, <2>1 DEF Added
<1>3. ASSUME NEW f \in Added(plan, n), f \notin plan[n + 1].drops
      PROVE  f \in Added(plan, n + 1)
  <2>1. PICK i \in 1..n : /\ f \in plan[i].adds
                          /\ \A j \in (i + 1)..n : f \notin plan[j].drops
    BY DEF Added
  <2>2. i \in 1..(n + 1) /\ \A j \in (i + 1)..(n + 1) : j \in (i + 1)..n \/ j = n + 1
    OBVIOUS
  <2> QED BY <1>3, <2>1, <2>2 DEF Added
<1> QED BY <1>1, <1>2, <1>3

LEMMA DroppedStep ==
  ASSUME NEW plan, NEW n \in Nat
  PROVE  Dropped(plan, n + 1) = (Dropped(plan, n) \ plan[n + 1].adds) \cup plan[n + 1].drops
<1>1. ASSUME NEW f \in Dropped(plan, n + 1)
      PROVE  f \in (Dropped(plan, n) \ plan[n + 1].adds) \cup plan[n + 1].drops
  <2>1. PICK i \in 1..(n + 1) : /\ f \in plan[i].drops
                                /\ \A j \in (i + 1)..(n + 1) : f \notin plan[j].adds
    BY DEF Dropped
  <2>2. CASE i = n + 1
    BY <2>1, <2>2
  <2>3. CASE i # n + 1
    <3>1. i \in 1..n /\ n + 1 \in (i + 1)..(n + 1)
      BY <2>3
    <3>2. \A j \in (i + 1)..n : f \notin plan[j].adds
      BY <2>1
    <3> QED BY <2>1, <3>1, <3>2 DEF Dropped
  <2> QED BY <2>2, <2>3
<1>2. ASSUME NEW f \in plan[n + 1].drops PROVE f \in Dropped(plan, n + 1)
  <2>1. n + 1 \in 1..(n + 1) /\ (n + 1 + 1)..(n + 1) = {}
    OBVIOUS
  <2> QED BY <1>2, <2>1 DEF Dropped
<1>3. ASSUME NEW f \in Dropped(plan, n), f \notin plan[n + 1].adds
      PROVE  f \in Dropped(plan, n + 1)
  <2>1. PICK i \in 1..n : /\ f \in plan[i].drops
                          /\ \A j \in (i + 1)..n : f \notin plan[j].adds
    BY DEF Dropped
  <2>2. i \in 1..(n + 1) /\ \A j \in (i + 1)..(n + 1) : j \in (i + 1)..n \/ j = n + 1
    OBVIOUS
  <2> QED BY <1>3, <2>1, <2>2 DEF Dropped
<1> QED BY <1>1, <1>2, <1>3

LEMMA NothingYet == \A plan : Added(plan, 0) = {} /\ Dropped(plan, 0) = {}
BY DEF Added, Dropped

-----------------------------------------------------------------------------
(* The inductive invariant *)

\* An open command runs in a checkout that the coverage check lets through.
Shape ==
  /\ tree \in [Checkout -> Trees]
  /\ run = [c \in Checkout |-> run[c]]
  /\ \A c \in Checkout :
       /\ run[c].command \in {"none", "upgrade", "downgrade"}
       /\ run[c].from \in Versions \cup {"new"}
       /\ run[c].pc \in Nat \ {0}
       /\ ~Open(c) => run[c] = Nothing
       /\ Open(c) => Covered(tree[c])

\* What a command has done so far is what the statements it has run amount to,
\* and it holds every lock they took.
Progress ==
  \A c \in Checkout : Open(c) =>
    /\ run[c].pc <= Len(Plan(c)) + 1
    /\ run[c].adds = Added(Plan(c), run[c].pc - 1)
    /\ run[c].drops = Dropped(Plan(c), run[c].pc - 1)
    /\ \A i \in 1..(run[c].pc - 1) : Plan(c)[i].locks \subseteq run[c].locks

Exclusive == \A c, d \in Checkout : c # d => run[c].locks \cap run[d].locks = {}

\* A version that was checked under the lock is the version still.
Fits ==
  \A c \in Checkout : Open(c) =>
    \A i \in 1..(run[c].pc - 1) :
      ChecksVersion(Plan(c), Start(run[c].from), i) =>
        <<"version", Start(run[c].from)>> \in schema

IsAt(facts, version) ==
  /\ version \in Versions /\ {v \in Versions : <<"version", v>> \in facts} = {version}
  /\ Expected(version) \subseteq facts /\ facts \subseteq Expected(version) \cup Leftover
  /\ version = "0002" => Fact("force", ToSet(PolicyFiles)) \subseteq facts

AtAVersion == \E version \in Versions : IsAt(schema, version)

\* No command has passed a statement that needs what it cannot find.
Fed ==
  \A c \in Checkout : Open(c) =>
    \A i \in 1..(run[c].pc - 1) : ~Starves(Plan(c), i)

\* A head was reached from a tree that declares no more than the shipped list has.
Brought ==
  <<"version", "0002">> \in schema =>
    \E c \in Checkout : Covered(tree[c]) /\ tree[c].tenant \subseteq ToSet(PolicyFiles)

Inv == Shape /\ Progress /\ Exclusive /\ Fits /\ Fed /\ AtAVersion /\ Brought

-----------------------------------------------------------------------------

LEMMA PlanFacts ==
  ASSUME Shape, NEW c \in Checkout, Open(c)
  PROVE  /\ Len(Plan(c)) \in Nat
         /\ \A i \in 1..Len(Plan(c)) : Known(Plan(c)[i].adds \cup Plan(c)[i].drops)
         /\ \/ Plan(c) = <<>>
            \/ \E i \in 1..Len(Plan(c)) : Starves(Plan(c), i)
            \/ /\ LeadsFromTo(Plan(c), Start(run[c].from), Target(run[c].command, run[c].from))
               /\ Target(run[c].command, run[c].from) = "0002" =>
                    tree[c].tenant \subseteq ToSet(PolicyFiles)
         /\ \A i \in 1..Len(Plan(c)) : HasTable \notin Plan(c)[i].drops
         /\ Plan(c) # <<>> /\ run[c].from = "new" => HasTable \in Added(Plan(c), Len(Plan(c)))
         /\ run[c].from \in Versions \cup {"new"}
         /\ run[c].command \in {"upgrade", "downgrade"}
<1>1. /\ tree[c] \in {u \in Trees : Covered(u)}
      /\ run[c].command \in {"upgrade", "downgrade"}
      /\ run[c].from \in Versions \cup {"new"}
  BY DEF Shape, Open
<1> QED BY <1>1, PlansAssumption DEF Plan

\* What may happen to the database and to the open commands.
Advance(c) ==
  /\ Open(c) /\ ~AtEnd(c) /\ ~Blocked(c) /\ Runnable(c)
  /\ run' = [run EXCEPT ![c] =
       [command |-> run[c].command, from |-> run[c].from, pc |-> run[c].pc + 1,
        locks |-> Held(run[c].locks, Now(c)),
        adds |-> (run[c].adds \ Now(c).drops) \cup Now(c).adds,
        drops |-> (run[c].drops \ Now(c).adds) \cup Now(c).drops]]
  /\ UNCHANGED <<schema, tree>>

BeginAny(c) ==
  /\ ~Open(c) /\ Covered(tree[c])
  /\ \E command \in {"upgrade", "downgrade"}, from \in Versions \cup {"new"} :
       /\ run' = [run EXCEPT ![c] = Begun(command, from)]
       /\ from # "new" => HasTable \in schema
  /\ UNCHANGED <<schema, tree>>

LEMMA OneVersion ==
  ASSUME NEW version, IsAt(schema, version)
  PROVE  Version = version
BY DEF IsAt, Version

LEMMA NextCases ==
  ASSUME AtAVersion, [Next]_vars
  PROVE  \/ \E c \in Checkout : BeginAny(c) \/ Advance(c) \/ Rollback(c) \/ Commit(c)
         \/ UNCHANGED <<schema, tree, run>>
<1>1. Version \in Versions
  BY OneVersion DEF AtAVersion
<1>2. ASSUME NEW c \in Checkout, NEW command \in {"upgrade", "downgrade"},
             Covered(tree[c]), Begin(c, command)
      PROVE  BeginAny(c)
  BY <1>1, <1>2 DEF Begin, BeginAny, HasTable
<1>3. ASSUME NEW c \in Checkout, Execute(c) PROVE Advance(c) \/ Rollback(c)
  BY <1>3 DEF Execute, Advance
<1>4. ASSUME NEW c \in Checkout, MakeCheck(c) PROVE UNCHANGED <<schema, tree, run>>
  BY <1>4 DEF MakeCheck
<1>5. CASE UNCHANGED vars
  BY <1>5 DEF vars
<1> QED
  BY <1>2, <1>3, <1>4, <1>5 DEF Next, MakeMigrate, StepDown, DeadlockVictim, Lose

-----------------------------------------------------------------------------
(* It holds at the start and every step keeps it *)

LEMMA InitInv == Init => Inv
<1>1. SUFFICES ASSUME Init PROVE Inv
  OBVIOUS
<1>2. \A c \in Checkout : run[c] = Nothing /\ ~Open(c)
  BY <1>1 DEF Init, Open, Nothing, Begun
<1>3. Shape
  <2>1. /\ Nothing.command \in {"none", "upgrade", "downgrade"}
        /\ Nothing.from \in Versions \cup {"new"} /\ Nothing.pc \in Nat \ {0}
    BY DEF Nothing, Begun, Versions
  <2> QED BY <1>1, <1>2, <2>1 DEF Init, Shape
<1>4. Progress /\ Fits
  BY <1>2 DEF Progress, Fits
<1>5. Exclusive
  BY <1>2 DEF Exclusive, Nothing, Begun
<1>6. IsAt(schema, "base")
  <2>1. schema = {<<"version", "base">>}
    BY <1>1 DEF Init
  <2>2. {v \in Versions : <<"version", v>> \in schema} = {"base"}
    BY <2>1 DEF Versions
  <2>3. Expected("base") = {}
    BY DEF Expected
  <2>4. <<"version", "base">> \in Leftover
    BY DEF Leftover, Fact, Versions
  <2> QED BY <2>1, <2>2, <2>3, <2>4 DEF IsAt, Versions
<1>7. Fed /\ Brought
  BY <1>1, <1>2 DEF Fed, Brought, Init
<1> QED
  BY <1>3, <1>4, <1>5, <1>6, <1>7 DEF Inv, AtAVersion, Versions

LEMMA BeginInv ==
  ASSUME Inv, NEW c \in Checkout, BeginAny(c)
  PROVE  Inv'
<1>1. PICK command \in {"upgrade", "downgrade"}, from \in Versions \cup {"new"} :
        run' = [run EXCEPT ![c] = Begun(command, from)]
  BY DEF BeginAny
<1>2. /\ schema' = schema /\ tree' = tree /\ Covered(tree[c])
      /\ run = [d \in Checkout |-> run[d]]
  BY DEF BeginAny, Inv, Shape
<1>3. /\ run'[c] = Begun(command, from) /\ run' = [d \in Checkout |-> run'[d]]
      /\ \A d \in Checkout \ {c} : run'[d] = run[d]
  BY <1>1, <1>2
<1>4. /\ run'[c].command = command /\ run'[c].from = from /\ run'[c].pc = 1
      /\ run'[c].adds = {} /\ run'[c].drops = {} /\ run'[c].locks = {}
  BY <1>3 DEF Begun
<1>5. \A d \in Checkout \ {c} : /\ Open(d)' <=> Open(d)
                                /\ Plan(d)' = Plan(d)
  BY <1>2, <1>3 DEF Open, Plan
<1>6. Open(c)'
  BY <1>4 DEF Open
<1>7. Shape'
  BY <1>2, <1>3, <1>4, <1>5, <1>6 DEF Inv, Shape
<1>8. Progress'
  <2>1. /\ Len(Plan(c)') \in Nat
        /\ \A i \in 1..(run'[c].pc - 1) : FALSE
    <3>1. Len(Plan(c))' \in Nat
      BY <1>6, <1>7, PlansAssumption DEF Shape, Open, Plan
    <3> QED BY <1>4, <3>1
  <2>2. /\ run'[c].adds = Added(Plan(c)', run'[c].pc - 1)
        /\ run'[c].drops = Dropped(Plan(c)', run'[c].pc - 1)
    BY <1>4, NothingYet
  <2>3. ASSUME NEW d \in Checkout \ {c}, Open(d)'
        PROVE  /\ run'[d].pc <= Len(Plan(d)') + 1
               /\ run'[d].adds = Added(Plan(d)', run'[d].pc - 1)
               /\ run'[d].drops = Dropped(Plan(d)', run'[d].pc - 1)
               /\ \A i \in 1..(run'[d].pc - 1) : Plan(d)'[i].locks \subseteq run'[d].locks
    BY <1>3, <1>5, <2>3 DEF Inv, Progress
  <2>4. run'[c].pc <= Len(Plan(c)') + 1
    BY <1>4, <2>1
  <2> QED BY <2>1, <2>2, <2>3, <2>4 DEF Progress
<1>9. Exclusive'
  BY <1>3, <1>4 DEF Inv, Exclusive
<1>10. Fits'
  <2>1. \A i \in 1..(run'[c].pc - 1) : FALSE
    BY <1>4
  <2> QED BY <1>2, <1>3, <1>5, <2>1 DEF Inv, Fits
<1>11. AtAVersion' /\ Brought'
  BY <1>2 DEF Inv, AtAVersion, Brought
<1>12. Fed'
  <2>1. \A i \in 1..(run'[c].pc - 1) : FALSE
    BY <1>4
  <2> QED BY <1>3, <1>5, <2>1 DEF Inv, Fed
<1> QED BY <1>7, <1>8, <1>9, <1>10, <1>11, <1>12 DEF Inv

\* A command that closes leaves the others as they are.
LEMMA CloseKeeps ==
  ASSUME Inv, NEW c \in Checkout, Close(c)
  PROVE  /\ Shape' /\ Progress' /\ Exclusive' /\ Fed' /\ ~Open(c)' /\ tree' = tree
         /\ \A d \in Checkout \ {c} : /\ run'[d] = run[d] /\ Plan(d)' = Plan(d)
                                      /\ Open(d)' <=> Open(d)
<1>1. /\ run' = [run EXCEPT ![c] = Nothing] /\ tree' = tree
      /\ run = [d \in Checkout |-> run[d]]
  BY DEF Close, Inv, Shape
<1>2. /\ run'[c] = Nothing /\ run' = [d \in Checkout |-> run'[d]]
      /\ \A d \in Checkout \ {c} : run'[d] = run[d]
  BY <1>1
<1>3. /\ Nothing.command = "none" /\ Nothing.from = "base" /\ Nothing.pc = 1
      /\ Nothing.locks = {}
  BY DEF Nothing, Begun
<1>4. ~Open(c)' /\ \A d \in Checkout \ {c} : /\ Open(d)' <=> Open(d)
                                             /\ Plan(d)' = Plan(d)
  BY <1>1, <1>2, <1>3 DEF Open, Plan
<1>5. Shape'
  BY <1>1, <1>2, <1>3, <1>4 DEF Inv, Shape, Versions
<1>6. Progress'
  BY <1>2, <1>4 DEF Inv, Progress
<1>7. Exclusive'
  BY <1>2, <1>3 DEF Inv, Exclusive
<1>8. Fed'
  BY <1>2, <1>4 DEF Inv, Fed
<1> QED BY <1>1, <1>2, <1>4, <1>5, <1>6, <1>7, <1>8

LEMMA RollbackInv ==
  ASSUME Inv, NEW c \in Checkout, Rollback(c)
  PROVE  Inv'
<1>1. Close(c) /\ schema' = schema
  BY DEF Rollback
<1>2. Fits'
  BY <1>1, CloseKeeps DEF Inv, Fits
<1>3. AtAVersion' /\ Brought'
  BY <1>1, CloseKeeps DEF Inv, AtAVersion, Brought
<1> QED BY <1>1, <1>2, <1>3, CloseKeeps DEF Inv

LEMMA AdvanceInv ==
  ASSUME Inv, NEW c \in Checkout, Advance(c)
  PROVE  Inv'
<1> DEFINE s == Now(c)
           pc == run[c].pc
           after == [command |-> run[c].command, from |-> run[c].from, pc |-> pc + 1,
                     locks |-> Held(run[c].locks, s),
                     adds |-> (run[c].adds \ s.drops) \cup s.adds,
                     drops |-> (run[c].drops \ s.adds) \cup s.drops]
<1>1. /\ run' = [run EXCEPT ![c] = after]
      /\ schema' = schema /\ tree' = tree
      /\ Open(c) /\ ~AtEnd(c) /\ ~Blocked(c) /\ Runnable(c)
      /\ run = [d \in Checkout |-> run[d]]
  BY DEF Advance, Inv, Shape
<1>2. /\ after.command = run[c].command /\ after.from = run[c].from
      /\ after.pc = pc + 1 /\ after.locks = run[c].locks \cup s.locks
      /\ after.adds = (run[c].adds \ s.drops) \cup s.adds
      /\ after.drops = (run[c].drops \ s.adds) \cup s.drops
  BY DEF Held
<1>3. /\ pc \in Nat \ {0} /\ run[c].command \in {"none", "upgrade", "downgrade"}
      /\ run[c].from \in Versions \cup {"new"} /\ Covered(tree[c])
      /\ tree \in [Checkout -> Trees]
  BY <1>1 DEF Inv, Shape
<1>4. Len(Plan(c)) \in Nat /\ pc <= Len(Plan(c)) /\ s = Plan(c)[pc]
  <2>1. Len(Plan(c)) \in Nat
    BY <1>1, PlanFacts DEF Inv
  <2> QED BY <1>1, <1>3, <2>1 DEF AtEnd, Now
<1> HIDE DEF after, s, pc
<1>5. /\ run'[c] = after /\ run' = [d \in Checkout |-> run'[d]]
      /\ \A d \in Checkout \ {c} : run'[d] = run[d]
  BY <1>1
<1>6. \A d \in Checkout : Open(d)' <=> Open(d)
  BY <1>2, <1>5 DEF Open
<1>7. \A d \in Checkout : Plan(d)' = Plan(d)
  BY <1>1, <1>2, <1>5 DEF Plan
<1>8. Shape'
  <2>1. \A d \in Checkout :
          /\ run'[d].command \in {"none", "upgrade", "downgrade"}
          /\ run'[d].from \in Versions \cup {"new"}
          /\ run'[d].pc \in Nat \ {0}
    BY <1>2, <1>3, <1>5 DEF Inv, Shape
  <2>2. \A d \in Checkout : /\ ~Open(d)' => run'[d] = Nothing
                            /\ Open(d)' => Covered(tree[d])
    BY <1>1, <1>5, <1>6 DEF Inv, Shape
  <2> QED BY <1>1, <1>3, <1>5, <2>1, <2>2 DEF Shape
<1>9. Progress'
  <2>1. /\ run[c].adds = Added(Plan(c), pc - 1) /\ run[c].drops = Dropped(Plan(c), pc - 1)
        /\ \A i \in 1..(pc - 1) : Plan(c)[i].locks \subseteq run[c].locks
    BY <1>1 DEF Inv, Progress, pc
  <2>2. pc - 1 \in Nat /\ (pc - 1) + 1 = pc /\ (pc + 1) - 1 = pc
    BY <1>3
  <2>3. /\ after.adds = Added(Plan(c), (pc + 1) - 1)
        /\ after.drops = Dropped(Plan(c), (pc + 1) - 1)
    <3> DEFINE n == pc - 1
    <3>1. n \in Nat /\ n + 1 = pc /\ (pc + 1) - 1 = pc
      BY <2>2
    <3> HIDE DEF n
    <3>2. /\ Added(Plan(c), n + 1) = (Added(Plan(c), n) \ Plan(c)[n + 1].drops) \cup Plan(c)[n + 1].adds
          /\ Dropped(Plan(c), n + 1) = (Dropped(Plan(c), n) \ Plan(c)[n + 1].adds) \cup Plan(c)[n + 1].drops
      BY <3>1, AddedStep, DroppedStep
    <3>3. run[c].adds = Added(Plan(c), n) /\ run[c].drops = Dropped(Plan(c), n)
      BY <2>1 DEF n
    <3> QED BY <1>2, <1>4, <3>1, <3>2, <3>3
  <2>4. \A i \in 1..pc : Plan(c)[i].locks \subseteq after.locks
    <3>1. \A i \in 1..pc : i \in 1..(pc - 1) \/ i = pc
      BY <1>3
    <3> QED BY <1>2, <1>4, <2>1, <3>1
  <2>5. pc + 1 <= Len(Plan(c)) + 1
    BY <1>3, <1>4
  <2>6. ASSUME NEW d \in Checkout \ {c}, Open(d)
        PROVE  /\ run'[d].pc <= Len(Plan(d)) + 1
               /\ run'[d].adds = Added(Plan(d), run'[d].pc - 1)
               /\ run'[d].drops = Dropped(Plan(d), run'[d].pc - 1)
               /\ \A i \in 1..(run'[d].pc - 1) : Plan(d)[i].locks \subseteq run'[d].locks
    BY <1>5, <2>6 DEF Inv, Progress
  <2>7. /\ run'[c].pc <= Len(Plan(c)) + 1
        /\ run'[c].adds = Added(Plan(c), run'[c].pc - 1)
        /\ run'[c].drops = Dropped(Plan(c), run'[c].pc - 1)
        /\ \A i \in 1..(run'[c].pc - 1) : Plan(c)[i].locks \subseteq run'[c].locks
    BY <1>2, <1>5, <2>2, <2>3, <2>4, <2>5
  <2> QED BY <1>6, <1>7, <2>6, <2>7 DEF Progress
<1>10. Exclusive'
  <2>1. \A d \in Checkout \ {c} : s.locks \cap run[d].locks = {}
    <3>1. ASSUME NEW d \in Checkout \ {c}, Open(d) PROVE s.locks \cap run[d].locks = {}
      BY <1>1, <3>1 DEF Blocked, Waits, s
    <3>2. ASSUME NEW d \in Checkout \ {c}, ~Open(d) PROVE run[d].locks = {}
      BY <3>2 DEF Inv, Shape, Nothing, Begun
    <3> QED BY <3>1, <3>2
  <2> QED BY <1>2, <1>5, <2>1 DEF Inv, Exclusive
<1>11. Fits'
  <2>1. ASSUME ChecksVersion(Plan(c), Start(run[c].from), pc)
        PROVE  <<"version", Start(run[c].from)>> \in schema
    <3> DEFINE version == Start(run[c].from)
               f == <<"version", version>>
    <3>1. version \in Versions
      BY <1>3 DEF Start, Versions
    <3>2. /\ run[c].adds = Added(Plan(c), pc - 1)
          /\ run[c].drops = Dropped(Plan(c), pc - 1)
          /\ s.needs \subseteq View(c) /\ s.lacks \cap View(c) = {}
      BY <1>1 DEF Inv, Progress, Runnable, pc, s
    <3> HIDE DEF version
    <3>3. CASE /\ f \in s.needs
               /\ \A j \in 1..(pc - 1), v \in Versions : <<"version", v>> \notin Plan(c)[j].adds
      <4>1. f \notin Fact("file", tree[c].disk)
        BY DEF Fact
      <4>2. f \notin run[c].adds
        BY <3>1, <3>2, <3>3 DEF Added
      <4>3. f \in View(c)
        BY <3>2, <3>3
      <4>4. f \in schema
        <5> HIDE DEF f
        <5> QED BY <4>1, <4>2, <4>3 DEF View
      <4> QED BY <4>4 DEF version
    <3>4. ASSUME NEW g \in s.lacks, \A v \in Versions \ {version} : g \in Expected(v),
                 \A j \in 1..(pc - 1) : g \notin Plan(c)[j].drops
          PROVE  f \in schema
      <4>1. g \notin run[c].drops
        BY <3>2, <3>4 DEF Dropped
      <4>2. g \notin schema
        BY <3>2, <3>4, <4>1 DEF View
      <4>3. PICK v \in Versions : IsAt(schema, v)
        BY DEF Inv, AtAVersion
      <4>4. v = version
        BY <3>4, <4>2, <4>3 DEF IsAt
      <4> QED BY <3>1, <4>3, <4>4 DEF IsAt
    <3> QED BY <1>4, <2>1, <3>3, <3>4 DEF ChecksVersion, version
  <2>2. \A i \in 1..pc : ChecksVersion(Plan(c), Start(run[c].from), i) =>
                           <<"version", Start(run[c].from)>> \in schema
    <3>1. \A i \in 1..pc : i \in 1..(pc - 1) \/ i = pc
      BY <1>3
    <3>2. \A i \in 1..(pc - 1) : ChecksVersion(Plan(c), Start(run[c].from), i) =>
                                   <<"version", Start(run[c].from)>> \in schema
      BY <1>1 DEF Inv, Fits, pc
    <3> QED BY <2>1, <3>1, <3>2
  <2>3. run'[c].pc - 1 = pc /\ run'[c].from = run[c].from
    BY <1>2, <1>3, <1>5
  <2>4. ASSUME NEW d \in Checkout, Open(d), NEW i \in 1..(run'[d].pc - 1),
               ChecksVersion(Plan(d), Start(run'[d].from), i)
        PROVE  <<"version", Start(run'[d].from)>> \in schema
    <3>1. CASE d = c
      BY <2>2, <2>3, <2>4, <3>1
    <3>2. CASE d # c
      BY <1>5, <2>4, <3>2 DEF Inv, Fits
    <3> QED BY <3>1, <3>2
  <2> QED BY <1>1, <1>6, <1>7, <2>4 DEF Fits
<1>12. AtAVersion' /\ Brought'
  BY <1>1 DEF Inv, AtAVersion, Brought
<1>13. Fed'
  <2>1. ~Starves(Plan(c), pc)
    <3>1. SUFFICES ASSUME NEW f \in Plan(c)[pc].needs, f[1] # "file",
                          f \notin Leftover \cup UNION {Expected(v) : v \in Versions},
                          \A j \in 1..(pc - 1) : f \notin Plan(c)[j].adds
                   PROVE  FALSE
      BY DEF Starves
    <3>2. f \in View(c)
      BY <1>1, <1>4, <3>1 DEF Runnable, s
    <3>3. f \notin Fact("file", tree[c].disk)
      BY <3>1 DEF Fact
    <3>4. f \notin schema
      <4>1. PICK v \in Versions : IsAt(schema, v)
        BY DEF Inv, AtAVersion
      <4> QED BY <3>1, <4>1 DEF IsAt
    <3>5. f \notin run[c].adds
      BY <1>1, <3>1 DEF Inv, Progress, Added, pc
    <3> QED BY <3>2, <3>3, <3>4, <3>5 DEF View
  <2>2. \A i \in 1..pc : ~Starves(Plan(c), i)
    <3>1. \A i \in 1..pc : i \in 1..(pc - 1) \/ i = pc
      BY <1>3
    <3>2. \A i \in 1..(pc - 1) : ~Starves(Plan(c), i)
      BY <1>1 DEF Inv, Fed, pc
    <3> QED BY <2>1, <3>1, <3>2
  <2>3. run'[c].pc - 1 = pc
    BY <1>2, <1>3, <1>5
  <2>4. ASSUME NEW d \in Checkout, Open(d), NEW i \in 1..(run'[d].pc - 1)
        PROVE  ~Starves(Plan(d), i)
    <3>1. CASE d = c
      BY <2>2, <2>3, <2>4, <3>1
    <3>2. CASE d # c
      BY <1>5, <2>4, <3>2 DEF Inv, Fed
    <3> QED BY <3>1, <3>2
  <2> QED BY <1>6, <1>7, <2>4 DEF Fed
<1> QED BY <1>8, <1>9, <1>10, <1>11, <1>12, <1>13 DEF Inv

\* A plan that has run through was not starved on the way, so it leads somewhere.
LEMMA EndedLeads ==
  ASSUME Inv, NEW c \in Checkout, Open(c), AtEnd(c), Plan(c) # <<>>
  PROVE  /\ LeadsFromTo(Plan(c), Start(run[c].from), Target(run[c].command, run[c].from))
         /\ Target(run[c].command, run[c].from) = "0002" =>
              tree[c].tenant \subseteq ToSet(PolicyFiles)
<1>1. Len(Plan(c)) \in Nat /\ run[c].pc \in Nat /\ run[c].pc > Len(Plan(c))
  BY PlanFacts DEF Inv, Shape, AtEnd
<1>2. \A i \in 1..Len(Plan(c)) : i \in 1..(run[c].pc - 1)
  BY <1>1
<1>3. \A i \in 1..Len(Plan(c)) : ~Starves(Plan(c), i)
  BY <1>2 DEF Inv, Fed
<1> QED BY <1>3, PlanFacts DEF Inv

\* What a plan that has run through makes of a database at its version.
LEMMA LeadsOn ==
  ASSUME NEW plan, NEW old \in Versions, NEW new \in Versions,
         LeadsFromTo(plan, old, new), IsAt(schema, old)
  PROVE  IsAt((schema \ Dropped(plan, Len(plan))) \cup Added(plan, Len(plan)), new)
<1> DEFINE adds == Added(plan, Len(plan))
           drops == Dropped(plan, Len(plan))
<1>1. /\ Expected(new) \subseteq (Expected(old) \ drops) \cup adds
      /\ ((Expected(old) \cup Leftover) \ drops) \cup adds \subseteq Expected(new) \cup Leftover
      /\ {v \in Versions : <<"version", v>> \in adds} = {new}
      /\ <<"version", old>> \in drops
      /\ new = "0002" => Fact("force", ToSet(PolicyFiles)) \subseteq adds
  BY DEF LeadsFromTo
<1> HIDE DEF adds, drops
<1>2. /\ {v \in Versions : <<"version", v>> \in schema} = {old}
      /\ Expected(old) \subseteq schema /\ schema \subseteq Expected(old) \cup Leftover
  BY DEF IsAt
<1>3. {v \in Versions : <<"version", v>> \in (schema \ drops) \cup adds} = {new}
  BY <1>1, <1>2
<1>4. Expected(new) \subseteq (schema \ drops) \cup adds
  BY <1>1, <1>2
<1>5. (schema \ drops) \cup adds \subseteq Expected(new) \cup Leftover
  BY <1>1, <1>2
<1>6. new = "0002" => Fact("force", ToSet(PolicyFiles)) \subseteq (schema \ drops) \cup adds
  BY <1>1
<1>7. IsAt((schema \ drops) \cup adds, new)
  BY <1>3, <1>4, <1>5, <1>6 DEF IsAt
<1> QED BY <1>7 DEF adds, drops

LEMMA CommitInv ==
  ASSUME Inv, NEW c \in Checkout, Commit(c)
  PROVE  Inv'
<1>1. /\ Open(c) /\ AtEnd(c) /\ Close(c)
      /\ schema' = (schema \ run[c].drops) \cup run[c].adds
  BY DEF Commit
<1>2. run[c].pc = Len(Plan(c)) + 1 /\ run[c].pc - 1 = Len(Plan(c)) /\ Len(Plan(c)) \in Nat
  <2>1. Len(Plan(c)) \in Nat /\ run[c].pc \in Nat /\ run[c].pc <= Len(Plan(c)) + 1
    BY <1>1, PlanFacts DEF Inv, Shape, Progress
  <2> QED BY <1>1, <2>1 DEF AtEnd
<1>3. schema' = (schema \ Dropped(Plan(c), Len(Plan(c)))) \cup Added(Plan(c), Len(Plan(c)))
  BY <1>1, <1>2 DEF Inv, Progress
<1>4. PICK version \in Versions : IsAt(schema, version)
  BY DEF Inv, AtAVersion, IsAt
<1>5. CASE Plan(c) = <<>>
  <2>1. schema' = schema
    <3>1. Len(Plan(c)) = 0
      BY <1>5
    <3> QED BY <1>3, <3>1, NothingYet
  <2>2. Fits'
    BY <1>1, <2>1, CloseKeeps DEF Inv, Fits
  <2>3. AtAVersion' /\ Brought'
    BY <1>1, <2>1, CloseKeeps DEF Inv, AtAVersion, Brought
  <2> QED BY <1>1, <2>2, <2>3, CloseKeeps DEF Inv
<1>6. CASE Plan(c) # <<>>
  <2> DEFINE old == Start(run[c].from)
             new == Target(run[c].command, run[c].from)
  <2>1. /\ LeadsFromTo(Plan(c), old, new)
        /\ new = "0002" => tree[c].tenant \subseteq ToSet(PolicyFiles)
    BY <1>1, <1>6, EndedLeads
  <2>2. old \in Versions /\ new \in Versions
    BY <1>1, PlanFacts DEF Inv, Start, Target, Versions
  <2>3. PICK i \in 1..Len(Plan(c)) : ChecksVersion(Plan(c), old, i)
    BY <2>1 DEF LeadsFromTo
  <2>4. <<"version", old>> \in schema /\ Gate(old) \in run[c].locks
    <3>1. i \in 1..(run[c].pc - 1)
      BY <1>2, <2>3
    <3>2. Plan(c)[i].locks \subseteq run[c].locks
      BY <1>1, <3>1 DEF Inv, Progress
    <3> QED BY <1>1, <2>3, <3>1, <3>2 DEF Inv, Fits, ChecksVersion
  <2> HIDE DEF old, new
  <2>5. version = old
    BY <1>4, <2>2, <2>4 DEF IsAt
  <2>6. IsAt(schema', new)
    BY <1>3, <1>4, <2>1, <2>2, <2>5, LeadsOn
  <2>7. AtAVersion' /\ Brought'
    <3>1. Covered(tree[c]) /\ tree' = tree
      BY <1>1, CloseKeeps DEF Inv, Shape
    <3>2. <<"version", "0002">> \in schema' => new = "0002"
      BY <2>6 DEF IsAt, Versions
    <3> QED BY <2>1, <2>2, <2>6, <3>1, <3>2 DEF AtAVersion, Brought
  \* Nobody else has checked a version: the gate was locked here.
  <2>8. ASSUME NEW d \in Checkout \ {c}, Open(d), NEW j \in 1..(run[d].pc - 1),
               ChecksVersion(Plan(d), Start(run[d].from), j)
        PROVE  FALSE
    <3>1. Plan(d)[j].locks \subseteq run[d].locks
      BY <2>8 DEF Inv, Progress
    <3>2. <<"version", Start(run[d].from)>> \in schema
      BY <2>8 DEF Inv, Fits
    <3>3. Start(run[d].from) \in Versions
      BY <2>8 DEF Inv, Shape, Start, Versions
    <3>4. Start(run[d].from) = old
      BY <1>4, <2>5, <3>2, <3>3 DEF IsAt
    <3> QED BY <2>4, <2>8, <3>1, <3>4 DEF ChecksVersion, Inv, Exclusive
  <2>9. Fits'
    BY <1>1, <2>8, CloseKeeps DEF Fits
  <2> QED BY <1>1, <2>7, <2>9, CloseKeeps DEF Inv
<1> QED BY <1>5, <1>6

LEMMA NextInv == Inv /\ [Next]_vars => Inv'
<1>1. SUFFICES ASSUME Inv, [Next]_vars PROVE Inv'
  OBVIOUS
<1>2. CASE UNCHANGED <<schema, tree, run>>
  <2>1. \A c : /\ Open(c)' <=> Open(c)
               /\ Plan(c)' = Plan(c)
    BY <1>2 DEF Open, Plan
  <2>2. Shape'
    BY <1>1, <1>2, <2>1 DEF Inv, Shape
  <2>3. Progress' /\ Exclusive' /\ Fits' /\ Fed' /\ AtAVersion' /\ Brought'
    BY <1>1, <1>2, <2>1 DEF Inv, Progress, Exclusive, Fits, Fed, AtAVersion, Brought
  <2> QED BY <2>2, <2>3 DEF Inv
<1> QED
  BY <1>1, <1>2, NextCases, BeginInv, AdvanceInv, RollbackInv, CommitInv DEF Inv

-----------------------------------------------------------------------------

\* Whatever commands are open at once, fail, lose their connection or go down
\* again, the database holds the schema of the version it reports, and no other.
THEOREM SchemaIsVersioned == Spec => []SchemaMatchesVersion
<1>1. Inv => SchemaMatchesVersion
  BY OneVersion DEF Inv, AtAVersion, IsAt, SchemaMatchesVersion
<1> QED BY <1>1, InitInv, NextInv, PTL DEF Spec

\* A plan that has run through still fits the version in the database.
THEOREM PlanFits == Spec => []PlanStillFits
<1>1. Inv => PlanStillFits
  <2>1. SUFFICES ASSUME Inv, NEW c \in Checkout, Open(c), AtEnd(c), Plan(c) # <<>>
                 PROVE  <<"version", Start(run[c].from)>> \in schema
    BY DEF PlanStillFits
  <2>2. LeadsFromTo(Plan(c), Start(run[c].from), Target(run[c].command, run[c].from))
    BY <2>1, EndedLeads
  <2>3. PICK i \in 1..Len(Plan(c)) : ChecksVersion(Plan(c), Start(run[c].from), i)
    BY <2>2 DEF LeadsFromTo
  <2>4. i \in 1..(run[c].pc - 1)
    <3>1. Len(Plan(c)) \in Nat /\ run[c].pc \in Nat
      BY <2>1, PlanFacts DEF Inv, Shape
    <3> QED BY <2>1, <3>1 DEF AtEnd
  <2> QED BY <2>1, <2>3, <2>4 DEF Inv, Fits
<1> QED BY <1>1, InitInv, NextInv, PTL DEF Spec

\* A database at the head guards every table that all checkouts which the coverage
\* check lets through declare as a tenant's, whichever of them brought it there;
\* of what only some declare, such as a table added later, it says nothing.
THEOREM HeadIsGuarded == Spec => []GuardedAtHead
<1>1. Inv => GuardedAtHead
  <2>1. SUFFICES ASSUME Inv, Version = "0002", NEW t \in CommonTenant
                 PROVE  Guarded(t)
    BY DEF GuardedAtHead
  <2>2. IsAt(schema, "0002")
    BY <2>1, OneVersion DEF Inv, AtAVersion
  <2>3. t \in ToSet(PolicyFiles)
    <3>1. <<"version", "0002">> \in schema
      BY <2>2 DEF IsAt, Versions
    <3>2. PICK c \in Checkout : Covered(tree[c]) /\ tree[c].tenant \subseteq ToSet(PolicyFiles)
      BY <2>1, <3>1 DEF Inv, Brought
    <3> QED BY <2>1, <3>2 DEF CommonTenant
  <2>4. <<"rls", t>> \in Expected("0002") /\ <<"policy", FilePolicy(t)>> \in Expected("0002")
    BY <2>3 DEF Expected, Fact
  <2>5. <<"force", t>> \in schema
    BY <2>2, <2>3 DEF IsAt, Fact
  <2> QED BY <2>2, <2>4, <2>5 DEF IsAt, Guarded
<1> QED BY <1>1, InitInv, NextInv, PTL DEF Spec

-----------------------------------------------------------------------------
(* The way to the head *)

\* Without a version table the database is at base, and every command that found
\* one can count on it.
Tabled ==
  /\ HasTable \in schema \/ <<"version", "base">> \in schema
  /\ \A c \in Checkout : Open(c) /\ run[c].from # "new" => HasTable \in schema

LEMMA TabledStep == Inv /\ Tabled /\ [Next]_vars => Tabled'
<1>1. SUFFICES ASSUME Inv, Tabled, [Next]_vars PROVE Tabled'
  OBVIOUS
<1>2. ASSUME NEW c \in Checkout, BeginAny(c) PROVE Tabled'
  <2>1. PICK command \in {"upgrade", "downgrade"}, from \in Versions \cup {"new"} :
          /\ run' = [run EXCEPT ![c] = Begun(command, from)]
          /\ from # "new" => HasTable \in schema
    BY <1>2 DEF BeginAny
  <2>2. /\ run'[c].from = from /\ schema' = schema
        /\ \A d \in Checkout \ {c} : run'[d] = run[d]
    BY <1>1, <1>2, <2>1 DEF BeginAny, Begun, Inv, Shape
  <2> QED BY <1>1, <2>1, <2>2 DEF Tabled, Open
<1>3. ASSUME NEW c \in Checkout, Advance(c) PROVE Tabled'
  <2>1. /\ run'[c].from = run[c].from /\ run'[c].command = run[c].command
        /\ schema' = schema
        /\ \A d \in Checkout \ {c} : run'[d] = run[d]
    BY <1>1, <1>3 DEF Advance, Inv, Shape
  <2> QED BY <1>1, <2>1 DEF Tabled, Open
<1>4. ASSUME NEW c \in Checkout, Rollback(c) PROVE Tabled'
  BY <1>1, <1>4, CloseKeeps DEF Rollback, Tabled
<1>5. ASSUME NEW c \in Checkout, Commit(c) PROVE Tabled'
  <2>1. /\ Open(c) /\ AtEnd(c) /\ Close(c)
        /\ schema' = (schema \ run[c].drops) \cup run[c].adds
    BY <1>5 DEF Commit
  <2>2. run[c].pc - 1 = Len(Plan(c)) /\ Len(Plan(c)) \in Nat
    <3>1. Len(Plan(c)) \in Nat /\ run[c].pc \in Nat /\ run[c].pc <= Len(Plan(c)) + 1
      BY <1>1, <2>1, PlanFacts DEF Inv, Shape, Progress
    <3> QED BY <2>1, <3>1 DEF AtEnd
  <2>3. /\ run[c].adds = Added(Plan(c), Len(Plan(c)))
        /\ run[c].drops = Dropped(Plan(c), Len(Plan(c)))
    BY <1>1, <2>1, <2>2 DEF Inv, Progress
  <2>4. HasTable \notin run[c].drops
    BY <1>1, <2>1, <2>3, PlanFacts DEF Inv, Dropped
  <2>5. CASE Plan(c) = <<>>
    <3>1. schema' = schema
      BY <2>1, <2>3, <2>5, NothingYet
    <3> QED BY <1>1, <2>1, <3>1, CloseKeeps DEF Tabled
  <2>6. CASE Plan(c) # <<>>
    <3>1. HasTable \in schema'
      <4>1. CASE run[c].from = "new"
        BY <1>1, <2>1, <2>3, <2>6, <4>1, PlanFacts DEF Inv
      <4>2. CASE run[c].from # "new"
        BY <1>1, <2>1, <2>4, <4>2 DEF Tabled
      <4> QED BY <4>1, <4>2
    <3> QED BY <3>1 DEF Tabled
  <2> QED BY <2>5, <2>6
<1>6. CASE UNCHANGED <<schema, tree, run>>
  BY <1>1, <1>6 DEF Tabled, Open
<1> QED
  BY <1>1, <1>2, <1>3, <1>4, <1>5, <1>6, NextCases DEF Inv

LEMMA MoreHolds ==
  ASSUME NEW less, NEW more, less \subseteq more, NEW plan, NEW i, NEW f,
         Holds(f, plan, i, less)
  PROVE  Holds(f, plan, i, more)
BY DEF Holds

\* A database at a version holds what the plan from there needs, and nothing
\* that is in its way.
LEMMA BetweenSureAndPossible ==
  ASSUME NEW version, IsAt(schema, version),
         HasTable \in schema \/ version = "base",
         version = "base" => \A f \in schema : f[1] # "type",
         NEW from, from = IF HasTable \in schema THEN version ELSE "new"
  PROVE  /\ from \in Versions \cup {"new"}
         /\ Sure(from) \subseteq schema \cup Fact("file", ToSet(PolicyFiles))
         /\ schema \cup Fact("file", ToSet(PolicyFiles)) \subseteq Possible(from)
<1>1. /\ version \in Versions /\ Start(from) = version /\ from \in Versions \cup {"new"}
      /\ from = "new" <=> HasTable \notin schema
  BY DEF IsAt, Start, Versions
<1>2. /\ {v \in Versions : <<"version", v>> \in schema} = {version}
      /\ Expected(version) \subseteq schema /\ schema \subseteq Expected(version) \cup Leftover
  BY DEF IsAt
<1>3. Sure(from) \subseteq schema \cup Fact("file", ToSet(PolicyFiles))
  <2>1. Fact("version", {version}) \subseteq schema
    BY <1>2 DEF Fact
  <2> QED BY <1>1, <1>2, <2>1 DEF Sure
<1>4. ASSUME NEW f \in schema PROVE f \in Possible(from)
  <2>1. CASE f \in Expected(version) \/ f = HasTable
    BY <1>1, <2>1 DEF Possible, Sure
  <2>2. CASE f \in Fact("version", Versions)
    <3>1. PICK v \in Versions : f = <<"version", v>>
      BY <2>2 DEF Fact
    <3>2. v = version
      BY <1>2, <3>1
    <3> QED BY <1>1, <3>1, <3>2 DEF Possible, Sure, Fact
  <2>3. CASE f \in Leftover /\ f \notin {HasTable} \cup Fact("version", Versions)
    BY <1>1, <2>3 DEF Possible
  <2> QED BY <1>2, <2>1, <2>2, <2>3
<1>5. Fact("file", ToSet(PolicyFiles)) \subseteq Possible(from)
  BY DEF Possible, Sure
<1> QED BY <1>1, <1>3, <1>4, <1>5

\* When nothing is open, the shipped tree can bring the database to the head,
\* unless it was taken down to base.
THEOREM HeadStaysReachable == Spec => []HeadIsReachable
<1>1. Inv /\ Tabled => HeadIsReachable
  <2>1. SUFFICES ASSUME Inv, Tabled, Version = "base" => \A f \in schema : f[1] # "type",
                        NEW from, from = IF HasTable \in schema THEN Version ELSE "new"
                 PROVE  ReachesHead(PlanFrom[from], schema \cup Fact("file", ToSet(PolicyFiles)))
    BY DEF HeadIsReachable, HasTable
  <2> DEFINE plan == PlanFrom[from]
             facts == schema \cup Fact("file", ToSet(PolicyFiles))
  <2>2. PICK version \in Versions : IsAt(schema, version) /\ Version = version
    BY <2>1, OneVersion DEF Inv, AtAVersion
  <2>3. HasTable \in schema \/ version = "base"
    BY <2>1, <2>2 DEF Tabled, IsAt, Versions
  <2>4. /\ from \in Versions \cup {"new"}
        /\ Sure(from) \subseteq facts /\ facts \subseteq Possible(from)
    BY <2>1, <2>2, <2>3, BetweenSureAndPossible
  <2>5. /\ \A i \in 1..Len(plan) :
             /\ \A f \in plan[i].needs : Holds(f, plan, i, Sure(from))
             /\ \A f \in plan[i].lacks : ~Holds(f, plan, i, Possible(from))
        /\ Holds(<<"version", "0002">>, plan, Len(plan) + 1, Sure(from))
    BY <2>4, HeadAssumption
  <2> HIDE DEF plan, facts
  <2>6. ReachesHead(plan, facts)
    BY <2>4, <2>5, MoreHolds DEF ReachesHead
  <2> QED BY <2>6 DEF plan, facts
<1>2. Init => Tabled
  BY DEF Init, Tabled, Open, Nothing, Begun
<1> QED BY <1>1, <1>2, InitInv, NextInv, TabledStep, PTL DEF Spec

-----------------------------------------------------------------------------
(* Reports and types *)

LEMMA MainVerdicts == \A r, floor : Main(r, floor) \in {"green", "red", "internal"}
BY DEF Main

\* Of all that a run may leave, the gate is green for what one that came to its
\* end left, in which enough tests ran and none failed.
LEMMA GreenRuns ==
  ASSUME NEW r \in Reports, NEW floor \in Floors, Main(r, floor) = "green"
  PROVE  /\ r \in Completed /\ r.ran["failed"] = 0 /\ r.ran["errored"] = 0
         /\ r.ran["passed"] >= floor /\ floor >= 1
<1>1. floor \in Int /\ MaxTests \in Nat
  BY GateAssumption
<1>2. /\ floor >= 1 /\ r.exit = 0 /\ r.xml = "whole"
      /\ Total(r.ran) - r.ran["skipped"] >= floor
  <2>1. floor >= 1 /\ CountsOf(r).usable /\ r.exit = 0 /\ ~(Executed(CountsOf(r)) < floor)
    BY <1>1 DEF Main
  <2>2. r.xml = "whole"
    BY <2>1 DEF CountsOf, NoCounts
  <2>3. CountsOf(r).total = Total(r.ran) /\ CountsOf(r).skipped = r.ran["skipped"]
    BY <2>2 DEF CountsOf
  <2>4. r.ran \in Tests \cup {NoTests}
    BY DEF Reports, Completed, Run
  <2>5. \A o \in Outcomes : r.ran[o] \in Nat
    BY <1>1, <2>4 DEF Tests, NoTests
  <2>6. Total(r.ran) \in Nat /\ r.ran["skipped"] \in Nat
    BY <2>5 DEF Total, Outcomes
  <2> QED BY <1>1, <2>1, <2>2, <2>3, <2>6 DEF Executed
<1>3. CASE r \in Completed
  <2>1. PICK c \in Tests :
          r = Run(IF Total(c) = 0 THEN EXIT_NO_TESTS_COLLECTED
                  ELSE IF c["failed"] + c["errored"] > 0 THEN 1 ELSE 0, c, "whole")
    BY <1>3 DEF Completed
  <2>2. r.ran = c /\ ~(c["failed"] + c["errored"] > 0)
    BY <1>2, <2>1 DEF Run, EXIT_NO_TESTS_COLLECTED
  <2>3. \A o \in Outcomes : c[o] \in Nat
    BY <1>1 DEF Tests
  <2>4. c["passed"] \in Nat /\ c["failed"] \in Nat /\ c["errored"] \in Nat /\ c["skipped"] \in Nat
    BY <2>3 DEF Outcomes
  <2>5. c["failed"] = 0 /\ c["errored"] = 0
    BY <2>2, <2>4
  <2>6. c["passed"] >= floor
    BY <1>1, <1>2, <2>2, <2>4, <2>5 DEF Total
  <2> QED BY <1>2, <1>3, <2>2, <2>5, <2>6
<1>4. CASE r = Run(0, NoTests, "whole")
  <2>1. r.ran = NoTests
    BY <1>4 DEF Run
  <2>2. Total(r.ran) - r.ran["skipped"] = 0
    BY <2>1 DEF NoTests, Total, Outcomes
  <2> QED BY <1>1, <1>2, <2>2
<1>5. CASE r \in {Run(EXIT_USAGE, NoTests, "none"), Run(0, NoTests, "none")}
  BY <1>2, <1>5 DEF Run
<1>6. CASE r \in {Run(2, c, "whole") : c \in Tests}
  BY <1>2, <1>6 DEF Run
<1>7. CASE r \in {Run(Killed, c, xml) : c \in Tests, xml \in {"none", "truncated"}}
  BY <1>2, <1>7 DEF Run
<1> QED BY <1>3, <1>4, <1>5, <1>6, <1>7 DEF Reports

\* The verdict is the gate's on the run that was reported.
Counted ==
  /\ \/ report = Unreported
     \/ \E r \in Reports, floor \in Floors :
          report = [run |-> r, floor |-> floor, verdict |-> Main(r, floor)]
  /\ commands \in 0..MaxCommands /\ lost \in 0..MaxLost

LEMMA InitCounted == Init => Counted
BY ReleaseAssumption DEF Init, Counted

LEMMA NextCounted == Counted /\ [Next]_vars => Counted'
<1>1. SUFFICES ASSUME Counted, [Next]_vars PROVE Counted'
  OBVIOUS
<1>2. /\ commands \in 0..MaxCommands /\ lost \in 0..MaxLost
      /\ MaxCommands \in Nat /\ MaxLost \in Nat
  BY <1>1, ReleaseAssumption DEF Counted
<1>3. ASSUME NEW c \in Checkout, MakeCheck(c) PROVE Counted'
  <2>1. PICK r \in Reports, floor \in Floors :
          report' = [run |-> r, floor |-> floor, verdict |-> Main(r, floor)]
    BY <1>3 DEF MakeCheck
  <2>2. commands' = commands /\ lost' = lost
    BY <1>3 DEF MakeCheck
  <2> QED BY <1>2, <2>1, <2>2 DEF Counted
<1>4. ASSUME NEW c \in Checkout, NEW command, Begin(c, command) PROVE Counted'
  <2>1. commands' = commands + 1 /\ commands < MaxCommands /\ lost' = lost
        /\ report' = Unreported
    BY <1>4 DEF Begin
  <2> QED BY <1>2, <2>1 DEF Counted, Unreported
<1>5. ASSUME NEW c \in Checkout,
             Execute(c) \/ DeadlockVictim(c) \/ Commit(c) \/ Lose(c)
      PROVE  Counted'
  <2>1. report' = report /\ commands' = commands
    BY <1>5 DEF Execute, DeadlockVictim, Commit, Lose, Rollback, Close
  <2>2. lost' = lost \/ (lost < MaxLost /\ lost' = lost + 1)
    BY <1>5 DEF Execute, DeadlockVictim, Commit, Lose
  <2>3. lost' \in 0..MaxLost
    BY <1>2, <2>2
  <2> QED BY <1>1, <1>2, <2>1, <2>3 DEF Counted, Unreported
<1>6. CASE UNCHANGED vars
  BY <1>1, <1>6 DEF vars, Counted, Unreported
<1> QED
  BY <1>1, <1>3, <1>4, <1>5, <1>6 DEF Next, MakeMigrate, StepDown

LEMMA KnownSchemas == \A v \in Versions : Known(Expected(v) \cup Leftover)
BY DEF Known, Expected, Leftover, Fact, Versions

\* Facts, commands and reports keep their types, and the database has one version.
THEOREM ReleaseTypes == Spec => []TypeOK
<1>1. Inv /\ Counted => TypeOK
  <2>1. SUFFICES ASSUME Inv, Counted PROVE TypeOK
    OBVIOUS
  <2>2. PICK version \in Versions : IsAt(schema, version)
    BY <2>1 DEF Inv, AtAVersion, IsAt
  <2>3. Known(schema)
    BY <2>2, KnownSchemas DEF IsAt, Known
  <2>4. Cardinality({v \in Versions : <<"version", v>> \in schema}) = 1
    BY <2>2, FS_Singleton DEF IsAt
  <2>5. ASSUME NEW c \in Checkout PROVE Known(run[c].adds \cup run[c].drops)
    <3>1. CASE ~Open(c)
      BY <2>1, <3>1 DEF Inv, Shape, Nothing, Begun, Known
    <3>2. CASE Open(c)
      <4>1. /\ run[c].adds = Added(Plan(c), run[c].pc - 1)
            /\ run[c].drops = Dropped(Plan(c), run[c].pc - 1)
            /\ run[c].pc \in Nat \ {0} /\ run[c].pc <= Len(Plan(c)) + 1
        BY <2>1, <3>2 DEF Inv, Progress, Shape
      <4>2. /\ Len(Plan(c)) \in Nat
            /\ \A i \in 1..Len(Plan(c)) : Known(Plan(c)[i].adds \cup Plan(c)[i].drops)
        BY <2>1, <3>2, PlanFacts DEF Inv
      <4>3. \A i \in 1..(run[c].pc - 1) : i \in 1..Len(Plan(c))
        BY <4>1, <4>2
      <4> QED BY <4>1, <4>2, <4>3 DEF Added, Dropped, Known
    <3> QED BY <3>1, <3>2
  <2>6. report \in [run : Reports, floor : Floors \cup {1},
                    verdict : {"none", "green", "red", "internal"}]
    <3>1. CASE report = Unreported
      <4>1. Run(0, NoTests, "none") \in Reports
        BY DEF Reports
      <4> QED BY <3>1, <4>1 DEF Unreported
    <3>2. CASE \E r \in Reports, floor \in Floors :
                 report = [run |-> r, floor |-> floor, verdict |-> Main(r, floor)]
      BY <3>2, MainVerdicts
    <3> QED BY <2>1, <3>1, <3>2 DEF Counted
  <2> QED BY <2>1, <2>3, <2>4, <2>5, <2>6 DEF TypeOK, Inv, Shape, Counted
<1> QED BY <1>1, InitInv, NextInv, InitCounted, NextCounted, PTL DEF Spec

\* No run that was killed, collected nothing, ran nothing or failed is green.
THEOREM GreenMeansRun == Spec => []GateGreenMeansRun
<1>1. Counted => GateGreenMeansRun
  <2>1. SUFFICES ASSUME Counted, report.verdict = "green"
                 PROVE  /\ report.run \in Completed
                        /\ report.run.ran["failed"] = 0 /\ report.run.ran["errored"] = 0
                        /\ report.run.ran["passed"] >= report.floor /\ report.floor >= 1
    BY DEF GateGreenMeansRun
  <2>2. report # Unreported
    BY <2>1 DEF Unreported
  <2>3. PICK r \in Reports, floor \in Floors :
          report = [run |-> r, floor |-> floor, verdict |-> Main(r, floor)]
    BY <2>1, <2>2 DEF Counted
  <2> QED BY <2>1, <2>3, GreenRuns
<1> QED BY <1>1, InitCounted, NextCounted, PTL DEF Spec
=============================================================================
