---------------------------- MODULE ReleasePlans -----------------------------
(***************************************************************************)
(* What the plans of alembic come to when they run alone: the facts of one *)
(* plan and one version that the concurrent behaviour of Release rests on. *)
(* No variable occurs in them, so that TLC computes them from the plans.   *)
(***************************************************************************)
EXTENDS Release

\* What the first n statements of a plan have added and not dropped again, and
\* what they have dropped and not added again.
Added(plan, n) ==
  {f \in UNION {plan[i].adds : i \in 1..n} :
     \E i \in 1..n : f \in plan[i].adds /\ \A j \in (i + 1)..n : f \notin plan[j].drops}

Dropped(plan, n) ==
  {f \in UNION {plan[i].drops : i \in 1..n} :
     \E i \in 1..n : f \in plan[i].drops /\ \A j \in (i + 1)..n : f \notin plan[j].adds}

\* The version a command begins at, and the one it ends at.
Start(from) == IF from = "new" THEN "base" ELSE from

Target(command, from) ==
  IF command = "upgrade" THEN "0002" ELSE IF from = "0002" THEN "0001" ELSE "base"

\* What every plan that leads away from a version locks when it checks it: the
\* version table, or the first table that is created where that one is empty.
Gate(version) == IF version = "base" THEN Head(Tables).name ELSE VersionTable

\* Statement i locks the gate and runs at that version only: it needs the version,
\* which nothing before it has set, or it must not find what there is at every
\* other version, which nothing before it has dropped.
ChecksVersion(plan, version, i) ==
  /\ Gate(version) \in plan[i].locks
  /\ \/ /\ <<"version", version>> \in plan[i].needs
        /\ \A j \in 1..(i - 1), v \in Versions : <<"version", v>> \notin plan[j].adds
     \/ \E f \in plan[i].lacks :
          /\ \A v \in Versions \ {version} : f \in Expected(v)
          /\ \A j \in 1..(i - 1) : f \notin plan[j].drops

\* A plan that runs through leads from the schema of one version to that of
\* another, with one version fact, and with FORCE on every table at the head.
LeadsFromTo(plan, old, new) ==
  LET n == Len(plan)
      adds == Added(plan, n)
      drops == Dropped(plan, n)
  IN /\ \E i \in 1..n : ChecksVersion(plan, old, i)
     /\ Expected(new) \subseteq (Expected(old) \ drops) \cup adds
     /\ ((Expected(old) \cup Leftover) \ drops) \cup adds \subseteq Expected(new) \cup Leftover
     /\ {v \in Versions : <<"version", v>> \in adds} = {new}
     /\ <<"version", old>> \in drops
     /\ new = "0002" => Fact("force", ToSet(PolicyFiles)) \subseteq adds

\* Statement i needs what is in no schema and what nothing before it has made.
Starves(plan, i) ==
  \E f \in plan[i].needs :
    /\ f[1] # "file" /\ f \notin Leftover \cup UNION {Expected(v) : v \in Versions}
    /\ \A j \in 1..(i - 1) : f \notin plan[j].adds

HasTable == <<"table", VersionTable>>

\* A plan from a tree that is let through has nothing to do, or cannot come to
\* its end, or leads from the version it was made for to the next; if that is the
\* head, the tree declares no tenant's table which the shipped list lacks.  None
\* drops the version table, and what finds none makes one.
ASSUME PlansAssumption ==
  \A t \in {u \in Trees : Covered(u)},
     command \in {"upgrade", "downgrade"}, from \in Versions \cup {"new"} :
    LET plan == Plans[<<command, from, t.listed>>]
    IN /\ Len(plan) \in Nat
       /\ \A i \in 1..Len(plan) : Known(plan[i].adds \cup plan[i].drops)
       /\ \/ plan = <<>>
          \/ \E i \in 1..Len(plan) : Starves(plan, i)
          \/ /\ LeadsFromTo(plan, Start(from), Target(command, from))
             /\ Target(command, from) = "0002" => t.tenant \subseteq ToSet(PolicyFiles)
       /\ \A i \in 1..Len(plan) : HasTable \notin plan[i].drops
       /\ plan # <<>> /\ from = "new" => HasTable \in Added(plan, Len(plan))

\* What a database must hold, and what it may hold, if alembic finds it at that
\* version: at base, no enum type unless it was taken down to base.
Sure(from) ==
  Expected(Start(from)) \cup Fact("version", {Start(from)})
  \cup Fact("file", ToSet(PolicyFiles)) \cup (IF from = "new" THEN {} ELSE {HasTable})

Possible(from) ==
  Sure(from) \cup {f \in Leftover : f \notin {HasTable} \cup Fact("version", Versions)
                                  /\ (Start(from) = "base" => f[1] # "type")}

\* The shipped plan reaches the head from any database between the two.
ASSUME HeadAssumption ==
  \A from \in Versions \cup {"new"} :
    LET plan == PlanFrom[from]
    IN /\ \A i \in 1..Len(plan) :
            /\ \A f \in plan[i].needs : Holds(f, plan, i, Sure(from))
            /\ \A f \in plan[i].lacks : ~Holds(f, plan, i, Possible(from))
       /\ Holds(<<"version", "0002">>, plan, Len(plan) + 1, Sure(from))

\* The plan of an open command was made for the version that was read before the
\* first lock was taken; when it has run through, the database is at that version
\* still, and stays so until the command ends.
PlanStillFits ==
  \A c \in Checkout :
    Open(c) /\ AtEnd(c) /\ Plan(c) # <<>> => <<"version", Start(run[c].from)>> \in schema
=============================================================================
