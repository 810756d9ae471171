----------------------------- MODULE PytestGate -----------------------------
(***************************************************************************)
(* tools/pytest_gate.py: the verdict on what a pytest run leaves behind.   *)
(* What a run may leave is the external part: its exit code, the JUnit XML *)
(* it wrote or did not, and how the tests it started came out.             *)
(***************************************************************************)
EXTENDS Integers

CONSTANTS
  MaxTests,  \* bound: the tests of a run
  Floors     \* --min-tests

ASSUME GateAssumption == MaxTests \in Nat /\ Floors \subseteq Int

Outcomes == {"passed", "failed", "errored", "skipped"}
Total(c) == c["passed"] + c["failed"] + c["errored"] + c["skipped"]
Tests == {c \in [Outcomes -> 0..MaxTests] : Total(c) <= MaxTests}
NoTests == [o \in Outcomes |-> 0]

EXIT_USAGE == 4
EXIT_NO_TESTS_COLLECTED == 5
Killed == 137

Run(exit, ran, xml) == [exit |-> exit, ran |-> ran, xml |-> xml]

\* Every test came to its outcome.
Completed == {Run(IF Total(c) = 0 THEN EXIT_NO_TESTS_COLLECTED
                  ELSE IF c["failed"] + c["errored"] > 0 THEN 1 ELSE 0, c, "whole") :
                c \in Tests}

\* A usage error; --collect-only and --help, which end well and run nothing; a
\* run that is interrupted and still writes its XML; one that is killed before,
\* or while, it writes it.
Reports ==
  Completed
  \cup {Run(EXIT_USAGE, NoTests, "none"), Run(0, NoTests, "whole"), Run(0, NoTests, "none")}
  \cup {Run(2, c, "whole") : c \in Tests}
  \cup {Run(Killed, c, xml) : c \in Tests, xml \in {"none", "truncated"}}

NoCounts == [total |-> 0, skipped |-> 0, usable |-> FALSE]

CountsOf(r) ==
  IF r.xml # "whole" THEN NoCounts
  ELSE [total |-> Total(r.ran), skipped |-> r.ran["skipped"], usable |-> TRUE]

\* Mutant: what is reported counts as executed.
Reported(counts) == counts.total

Executed(counts) == counts.total - counts.skipped

\* Each verdict has its condition in the order the gate asks.
Main(r, floor) ==
  LET counts == CountsOf(r)
  IN CASE floor < 1 -> "red"
       [] floor >= 1 /\ r.exit \in {EXIT_USAGE, EXIT_NO_TESTS_COLLECTED} -> "red"
       [] OTHER -> IF ~counts.usable THEN "internal"
                   ELSE IF r.exit # 0 \/ Executed(counts) < floor THEN "red"
                   ELSE "green"
=============================================================================
