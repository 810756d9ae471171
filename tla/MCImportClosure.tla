-------------------------- MODULE MCImportClosure --------------------------
(***************************************************************************)
(* A Zone U file over four packages: the two forbidden names of invariant  *)
(* 1, two packages through which a file may reach them, and a third-party  *)
(* module.                                                                 *)
(***************************************************************************)
EXTENDS ImportClosure, FiniteSets

CONSTANTS extract, graph, security, db, os, part, credentials

\* The three forms of an import statement.
Plain(p)    == {<<p, Whole>>}
Dotted(p, x) == {<<p, x>>}
From(p, x)  == {<<p, Whole>>, <<p, x>>}

MCPackages == {extract, graph, security, db}

MCNames ==
  (MCPackages \X {Whole, part}) \cup {<<os, Whole>>, <<security, credentials>>}

MCForbidden == {<<db, Whole>>, <<security, credentials>>}

FileStatements ==
  {From(extract, part), From(graph, part), Dotted(graph, part), Plain(os),
   From(security, part), From(security, credentials), Plain(db)}

\* At most two statements in the checked file.
MCFiles == {a \cup b : a, b \in FileStatements} \cup {{}}

\* What each package may import; extract and graph may import each other.
MCGraphs ==
  {g \in [MCPackages ->
       {{}, From(graph, part), From(extract, part), Dotted(extract, part),
        From(db, part), From(security, part) \cup Dotted(security, credentials),
        From(graph, part) \cup Dotted(db, part)}] :
     /\ g[db] \in {{}, From(extract, part)}
     /\ g[security] \in {{}, From(db, part), From(graph, part)}}

\* Either every file parses or one of security's does not.
MCBreakages == {{}, {security}}
AllParse == {{}}
=============================================================================
