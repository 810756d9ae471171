------------------------------- MODULE Robots -------------------------------
(***************************************************************************)
(* packages/neptiq_robots: one robots.txt asked twice, as NeptiqBot (may   *)
(* it be fetched) and as Googlebot (is there an issue to report).          *)
(*                                                                         *)
(* A document is the status of its request, or NoStatus, and its body, or  *)
(* NoBody.  What a body says is a record: the paths each agent may fetch   *)
(* (protego's matching is external) and the sitemaps it names.             *)
(***************************************************************************)
EXTENDS Naturals

CONSTANTS NoStatus, NoBody

NEPTIQ_UA_TOKEN == "NeptiqBot"
GOOGLEBOT_UA_TOKEN == "Googlebot"

Usable(doc) ==
  doc.status # NoStatus /\ doc.status \in 200..299 /\ doc.body # NoBody

CanFetch(body, path, agent) == path \in body[agent]

Decision(may_fetch, googlebot_allowed) ==
  [may_fetch |-> may_fetch, googlebot_allowed |-> googlebot_allowed]

\* Mutant: an answer of the server, whatever it is, is no obstacle.
OnlySilence(doc) == doc.status = NoStatus

Transient(doc) == doc.status = NoStatus \/ doc.status >= 500

\* No rules were read: nothing is reported, whether or not it may be fetched.
Evaluate(doc, path) ==
  IF Usable(doc)
  THEN Decision(CanFetch(doc.body, path, NEPTIQ_UA_TOKEN),
                CanFetch(doc.body, path, GOOGLEBOT_UA_TOKEN))
  ELSE Decision(~Transient(doc), TRUE)

ReportIndexabilityIssue(decision) == ~decision.googlebot_allowed

Sitemaps(doc) == IF Usable(doc) THEN doc.body.sitemaps ELSE {}
=============================================================================
