------------------------------- MODULE Scans --------------------------------
(***************************************************************************)
(* A sequence read from its first element to its last.  Scan is a fold; it *)
(* is a recursive function over the positions, which can be reasoned about *)
(* position by position (ScanLemmas).                                      *)
(***************************************************************************)
EXTENDS Naturals, Sequences

Scan(seq, start, Step(_, _)) ==
  LET upto[n \in 0..Len(seq)] == IF n = 0 THEN start ELSE Step(upto[n - 1], seq[n])
  IN upto[Len(seq)]
=============================================================================
