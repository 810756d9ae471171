--------------------------- MODULE ImportClosure ---------------------------
(***************************************************************************)
(* tools/check_zone_imports.py, invariants 1 and 2: for one source file,   *)
(* collect the names it imports, follow them through first-party packages  *)
(* and fail if a forbidden name turns up.                                  *)
(*                                                                         *)
(* A dotted name "pkg.part" is <<"pkg", "part">>, and "pkg" alone is       *)
(* <<"pkg", Whole>>.  `from pkg import part` yields both names, `import    *)
(* pkg.part` the second alone.                                             *)
(***************************************************************************)
EXTENDS Naturals, Sequences, SequencesExt

CONSTANTS
  Packages,    \* first-party packages: the keys of module_paths()
  Names,       \* dotted names that occur, pairs of a top and a part
  Whole,       \* the part of a name that has none
  Forbidden,   \* ZONE_U_FORBIDDEN or RULES_FORBIDDEN, a subset of Names
  Files,       \* possible imports of the checked file, subsets of Names
  Graphs,      \* possible imports of every package, [Packages -> SUBSET Names]
  Breakages    \* possible sets of packages with a file that does not parse

Top(n) == <<n[1], Whole>>

ASSUME NameAssumption ==
  /\ IsFiniteSet(Names)
  /\ \A n \in Names : n = <<n[1], n[2]>> /\ Top(n) \in Names
  /\ Forbidden \subseteq Names
  /\ Files \subseteq SUBSET Names
  /\ Graphs \subseteq [Packages -> SUBSET Names]
  /\ Breakages \subseteq SUBSET Packages

VARIABLES
  direct,    \* imports_of(the checked file)
  imports,   \* the names the files of each package import
  broken,    \* the packages with a file that does not parse
  seen,
  queue,     \* a Python list, popped at its end
  verdict    \* "none" while the closure is computed

vars == <<direct, imports, broken, seen, queue, verdict>>

\* The set iterates in an order that changes with the interpreter's hash seed.
Ordered(S) == SetToSeqs(S)

Init ==
  /\ direct \in Files
  /\ imports \in Graphs
  /\ broken \in Breakages
  /\ seen = {}
  /\ queue \in Ordered(direct)
  /\ verdict = "none"

FirstParty(n) == n[1] \in Packages

SkipsNever(n) == ~FirstParty(n)

\* "if top in seen or top not in index"
Skips(n) == Top(n) \in seen \/ ~FirstParty(n)

SkipMarksPart ==
  /\ verdict = "none" /\ queue # <<>>
  /\ Skips(Last(queue))
  /\ seen' = seen \cup {Last(queue)[2]}
  /\ queue' = Front(queue)
  /\ UNCHANGED <<direct, imports, broken, verdict>>

Skip ==
  /\ verdict = "none" /\ queue # <<>>
  /\ Skips(Last(queue))
  /\ seen' = seen \cup {Top(Last(queue))}
  /\ queue' = Front(queue)
  /\ UNCHANGED <<direct, imports, broken, verdict>>

\* As Expand below, had the loop read the files of every package.
ExpandEverything ==
  LET mod == Last(queue)
      all == UNION {imports[p] : p \in Packages}
  IN
  /\ verdict = "none" /\ queue # <<>>
  /\ ~Skips(mod)
  /\ mod[1] \notin broken
  /\ seen' = seen \cup {Top(mod)} \cup all
  /\ queue' = Front(queue)
  /\ UNCHANGED <<direct, imports, broken, verdict>>

\* Every file of the package is parsed; what they import is seen at once and
\* queued as well.
Expand ==
  LET mod == Last(queue) IN
  /\ verdict = "none" /\ queue # <<>>
  /\ ~Skips(mod)
  /\ mod[1] \notin broken
  /\ seen' = seen \cup {Top(mod)} \cup imports[mod[1]]
  /\ \E found \in Ordered(imports[mod[1]]) : queue' = Front(queue) \o found
  /\ UNCHANGED <<direct, imports, broken, verdict>>

\* A file that does not parse ends the whole check with a failure.
ParseError ==
  /\ verdict = "none" /\ queue # <<>>
  /\ ~Skips(Last(queue))
  /\ Last(queue)[1] \in broken
  /\ verdict' = "fatal"
  /\ UNCHANGED <<direct, imports, broken, seen, queue>>

\* m == forbidden or m.startswith(forbidden + "."): a name without a part
\* forbids every part of the package, one with a part itself alone.
Matches(m, f) == m = f \/ (f[2] = Whole /\ m[1] = f[1])

Hits(S) == {m \in S : \E f \in Forbidden : Matches(m, f)}

JudgeSeenOnly ==
  /\ verdict = "none" /\ queue = <<>>
  /\ verdict' = IF Hits(seen) = {} THEN "pass" ELSE "fail"
  /\ UNCHANGED <<direct, imports, broken, seen, queue>>

Judge ==
  /\ verdict = "none" /\ queue = <<>>
  /\ verdict' = IF Hits(direct \cup seen) = {} THEN "pass" ELSE "fail"
  /\ UNCHANGED <<direct, imports, broken, seen, queue>>

Finished == verdict # "none" /\ UNCHANGED vars

Next == Skip \/ Expand \/ ParseError \/ Judge \/ Finished

Spec == Init /\ [][Next]_vars

\* The check is one sequential program that runs to its end.
FairSpec == Spec /\ WF_vars(Skip \/ Expand \/ ParseError \/ Judge)

-----------------------------------------------------------------------------
(* What the file can reach *)

\* A set that contains what its members import, and the package of each.
Closed(S) ==
  \A n \in S : /\ Top(n) \in S
               /\ FirstParty(n) => imports[n[1]] \subseteq S

Reaches(S) == direct \subseteq S /\ Closed(S)

\* The file reaches a forbidden name.
Violates == \A S \in SUBSET Names : Reaches(S) => Hits(S) # {}

-----------------------------------------------------------------------------
(* Properties *)

\* Every variable stays in its domain.
TypeOK ==
  /\ direct \subseteq Names
  /\ imports \in [Packages -> SUBSET Names]
  /\ broken \subseteq Packages
  /\ seen \subseteq Names
  /\ queue \in Seq(Names)
  /\ verdict \in {"none", "pass", "fail", "fatal"}

\* Only what the file reaches is ever seen, queued or reported: a build is
\* never failed for a name the file cannot reach, in whatever order the
\* imports are followed.
NoFalseAlarm ==
  verdict = "fail" => Violates

\* A forbidden name the file imports itself, or that a package imports which
\* alone it imports, is reported: no verdict is "pass" with one of those.
FirstStep ==
  \E p \in Packages : /\ \A n \in direct : n[1] = p
                      /\ direct # {}
                      /\ Hits(direct \cup imports[p]) # {}

NearMissesCaught ==
  Hits(direct) # {} \/ FirstStep => verdict # "pass"

\* The worklist empties whatever cycles the imports have: the check ends.
Ends == <>(verdict # "none")

(***************************************************************************)
(* reachable's docstring: "Transitive closure of first-party imports"; the *)
(* file's: the walk "also follows TRANSITIVE reachability through          *)
(* first-party packages", "the one a reviewer will miss".  A file that     *)
(* passes reaches nothing forbidden.                                       *)
(***************************************************************************)
ClosureComplete == verdict = "pass" => ~Violates
=============================================================================
