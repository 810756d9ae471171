------------------------------ MODULE CrawlJob ------------------------------
(***************************************************************************)
(* One page on its way through the libraries a fetcher works with: its     *)
(* site's robots.txt decides whether it is asked for, each hop of its      *)
(* redirects is validated and pinned, its text becomes part of a prompt.   *)
(*                                                                         *)
(* The order of the calls is the one the libraries' documentation gives;   *)
(* the fetcher itself is a docstring in the repository.  What the network  *)
(* answers, robots.txt, names, redirects and pages, may be anything, and   *)
(* another thing at every question.                                        *)
(***************************************************************************)
EXTENDS Robots, Destination, TaintedText

CONSTANTS
  Site,       \* [scheme, host] of the page
  Targets,    \* what a server may redirect to, [scheme, host]
  Paths,      \* of the site
  Documents,  \* what a request for robots.txt may come to
  Answers,    \* what the resolver may answer, sequences of addresses
  Payloads,   \* what may be extracted from a page
  MaxHops,    \* max_hops
  MaxChars    \* max_chars

VARIABLES
  phase,   \* where the page is
  doc,     \* the site's robots.txt
  path,    \* the path that is asked for, or "sitemap" or "elsewhere"
  report,  \* whether an indexability issue was reported
  target,  \* the scheme and host of the next request
  hop,     \* redirects so far; it stops one above the cap
  answers, \* what the resolver said last
  dest,    \* the pinned address
  prompt

\* A path of the site is no mark; an answer is nothing or has a first address;
\* a numeric host has fields; a text is a sequence.
ASSUME CrawlAssumption ==
  /\ {"sitemap", "elsewhere"} \cap Paths = {}
  /\ \A d \in Documents : d.status \in Nat \cup {NoStatus}
  /\ \A reply \in Answers : reply = <<>> \/ 1 \in DOMAIN reply
  /\ \A t \in {Site} \cup Targets \cup UNION {Sitemaps(d) : d \in Documents} :
       t.host.kind = "numeric" => Fielded(t.host.fields)
  /\ MaxChars \in Nat
  /\ \A v \in Payloads : v.chars \in Seq(ToSet(v.chars))

vars == <<phase, doc, path, report, target, hop, answers, dest, prompt>>
asking == <<doc, path, report>>
sending == <<target, hop, answers, dest>>

Pinless == <<>>
NoDocument == [status |-> NoStatus, body |-> NoBody]

\* The page's own site has answered: what was decided of it is done with.
LeaveSite == doc' = NoDocument /\ path' = "elsewhere" /\ report' = FALSE

Init ==
  /\ phase = "robots" /\ doc = NoDocument
  /\ path \in Paths /\ report = FALSE
  /\ target = Site /\ hop = 0 /\ answers = <<>> /\ dest = Pinless
  /\ prompt = <<>>

GetRobots ==
  /\ phase = "robots" /\ phase' = "decide"
  /\ doc' \in Documents
  /\ UNCHANGED <<path, report, sending, prompt>>

Decide ==
  /\ phase = "decide"
  /\ LET decision == Evaluate(doc, path)
     IN /\ report' = ReportIndexabilityIssue(decision)
        /\ phase' = IF decision.may_fetch THEN "resolve" ELSE "skipped"
  /\ UNCHANGED <<doc, path, sending, prompt>>

\* A sitemap is a request like any other, and its host has to be validated too.
GetSitemap ==
  /\ phase = "decide" /\ phase' = "resolve"
  /\ target' \in Sitemaps(doc) /\ path' = "sitemap"
  /\ UNCHANGED <<doc, report, hop, answers, dest, prompt>>

\* The first request, and each redirect with its number, counted from one.
Validated(reply) ==
  IF hop = 0 THEN ValidateDestination(target.scheme, target.host, reply)
  ELSE ValidateRedirectHop(target.scheme, target.host, reply, hop, MaxHops)

Resolve ==
  /\ phase = "resolve"
  /\ \E reply \in Answers :
       LET pinned == Validated(reply)
       IN /\ answers' = reply
          /\ IF pinned = {} THEN phase' = "refused" /\ dest' = dest
             ELSE phase' = "connect" /\ dest' \in pinned
  /\ UNCHANGED <<asking, target, hop, prompt>>

\* The connection goes to the pinned address, whatever the name means by now.
Redirected ==
  /\ phase = "connect" /\ phase' = "resolve"
  /\ target' \in Targets
  /\ hop' = IF hop > MaxHops THEN hop ELSE hop + 1
  /\ answers' = <<>> /\ dest' = Pinless
  /\ LeaveSite /\ UNCHANGED prompt

Fetched ==
  /\ phase = "connect" /\ phase' = "page"
  /\ target' = Site /\ hop' = 0 /\ answers' = <<>> /\ dest' = Pinless
  /\ LeaveSite /\ UNCHANGED prompt

Lost ==
  /\ phase = "connect" /\ phase' = "refused"
  /\ UNCHANGED <<asking, sending, prompt>>

Extract ==
  /\ phase = "page" /\ phase' = "done"
  /\ \E v \in Payloads : prompt' = ForModel(v, MaxChars)
  /\ UNCHANGED <<asking, sending>>

Next ==
  \/ GetRobots \/ Decide \/ GetSitemap \/ Resolve
  \/ Redirected \/ Fetched \/ Lost \/ Extract

\* Every request is answered or given up by a timeout of the client.
Spec == Init /\ [][Next]_vars /\ WF_vars(Next)

-----------------------------------------------------------------------------
(* Properties *)

\* The IPv4 numbers a connection to ip arrives at; {} if it stays in IPv6.
Reaches(ip) ==
  IF ip[1] = 4 THEN {ip[2]}
  ELSE IF ip[2] \in {"mapped", "sixtofour", "teredo", "nat64", "compatible"} THEN ip[3] ELSE {}

Internal(ip) ==
  \/ Reaches(ip) \cap (BlockedV4 \cup NotGlobalV4) # {}
  \/ ip[1] = 6 /\ ip[2] \in ({"loopback", "local"} \cup NotGlobalForms) \ {"mapped"}

\* inet_aton: the octets of n are the fields, the last field all that remains.
ReadsAs(fields, n) ==
  LET k == Len(fields)
      value(i) == CHOOSE v \in Part(fields[i]) : TRUE
  IN /\ n % (Octets * Weight[k]) = value(k)
     /\ \A i \in 1..(k - 1) : (n \div Weight[i]) % Octets = value(i)

\* The one spelling that is read otherwise: bare digits behind a zero.
BareOctal(fields) == Len(fields) = 1 /\ fields[1].prefix = "0"

NumberAsWritten ==
  target.host.kind = "numeric" /\ CanonicaliseNumericHost(target.host.fields) # {}
    => BareOctal(target.host.fields) \/ ReadsAs(target.host.fields, dest[2])

NameAsAWhole ==
  Literal(target.host) = {} =>
    dest = answers[1] /\ \A i \in DOMAIN answers : ~Internal(answers[i])

\* No connection, on whichever hop and through whichever spelling or resolver
\* answer, reaches an internal address; a numeric host is the address inet_aton
\* reads in it; a name is refused as a whole for one internal answer.
ConnectsToPermitted ==
  phase = "connect" => ~Internal(dest) /\ NameAsAWhole /\ NumberAsWritten

\* A page is asked for when the rules that were read allow NeptiqBot, or when
\* the site was up and had none; an issue is reported when rules that were read
\* turn Googlebot away, and never from anything else.
RobotsRespected ==
  /\ phase = "connect" /\ path \in Paths =>
       \/ Usable(doc) /\ path \in doc.body["NeptiqBot"]
       \/ ~Usable(doc) /\ doc.status \in 0..499
  /\ report => Usable(doc) /\ path \notin doc.body["Googlebot"]

Occurs(part, at, chars) == SubSeq(chars, at, at + Len(part) - 1) = part

\* Whatever a page says, its text stays between the sentinels of the prompt: none
\* of them occurs within, nothing invisible is left, and the length is bounded.
PromptKeepsFrame ==
  phase = "done" =>
    LET end == Len(prompt) - 2
    IN /\ \A at \in 1..end :
            /\ Occurs(SENTINEL_OPEN, at, prompt) <=> at = 1
            /\ Occurs(SENTINEL_CLOSE, at, prompt) <=> at = end
       /\ ToSet(prompt) \cap (_INVISIBLE \cup _CONTROL) = {}
       /\ Len(prompt) <= Len(Framed(Marker)) + MaxChars

\* A job comes to its end, also when the servers redirect for ever.
JobEnds == <>(phase \in {"skipped", "refused", "done"})
=============================================================================
