-------------------------- MODULE StartupSettings ---------------------------
(***************************************************************************)
(* neptiq_core.settings and the lifespan of neptiq_api.main: a process     *)
(* reads its environment once, and the API refuses to serve when the host  *)
(* of raw evidence lies under its public host, or the other way round.     *)
(*                                                                         *)
(* A host name is a sequence of pieces: pieces of labels, which have a     *)
(* case, and dots.                                                         *)
(***************************************************************************)
EXTENDS Scans, SequencesExt

CONSTANTS
  Process,       \* processes of zone T
  Api,           \* those that run the API, with its lifespan
  Environments,  \* environments an operator may inject
  Absent,        \* a variable that is not set
  NotLoaded,     \* nothing is cached yet
  PublicSuffix,  \* the public suffix list of browsers, as sequences of labels
  MaxChanges     \* bound on changes of the environment

VARIABLES env, phase, snap, changes
startupVars == <<env, phase, snap, changes>>

\* A host name that is set is a sequence.
ASSUME StartupAssumption ==
  /\ NotLoaded \notin Environments
  /\ Api \subseteq Process
  /\ MaxChanges \in Nat
  /\ \A e \in Environments :
       \A host \in {e.NEPTIQ_PUBLIC_HOST, e.NEPTIQ_EVIDENCE_HOST} :
         host # Absent => host \in Seq(ToSet(host))

\* The variables without a default that the model tells apart.
Required == {"NEPTIQ_ENV", "KEK_BASE64", "NEPTIQ_PUBLIC_HOST",
             "NEPTIQ_EVIDENCE_HOST"}

Environment == {"dev", "test", "staging", "production"}

\* The field validators.
CeilingAboveDefault(v) == v > 0
EvidenceHostIsSeparate(v) == v # <<>>

\* Settings(): pydantic rejects what is missing, what no Literal names and
\* what a field validator raises for.
Valid(e) ==
  /\ \A name \in Required : e[name] # Absent
  /\ e.NEPTIQ_ENV \in Environment
  /\ CeilingAboveDefault(e.CRAWL_MAX_URLS_CEILING)
  /\ EvidenceHostIsSeparate(e.NEPTIQ_EVIDENCE_HOST)

-----------------------------------------------------------------------------
(* Host names *)

DotPiece == [text |-> ".", upper |-> FALSE]

Lower(host) == [i \in DOMAIN host |-> [host[i] EXCEPT !.upper = FALSE]]

RStripDots(host) ==
  SubSeq(host, 1, SelectLastInSeq(host, LAMBDA piece : piece # DotPiece))

Canonical(host) == RStripDots(Lower(host))

\* Mutant: the dot is forgotten.
EndsWith(host, suffix) == IsSuffix(suffix, host)

\* Python's endswith, with a dot in front of the suffix.
UnderSuffix(host, suffix) == IsSuffix(<<DotPiece>> \o suffix, host)

\* assert_evidence_domain_separate of settings s.
AssertEvidenceDomainSeparate(s) ==
  LET app == Canonical(s.NEPTIQ_PUBLIC_HOST)
      ev  == Canonical(s.NEPTIQ_EVIDENCE_HOST)
  IN ev # app /\ ~UnderSuffix(ev, app) /\ ~UnderSuffix(app, ev)

-----------------------------------------------------------------------------
(* The environment and the processes *)

Init ==
  /\ env \in Environments
  /\ phase = [p \in Process |-> "down"]
  /\ snap = [p \in Process |-> NotLoaded]
  /\ changes = 0

\* An operator deploys other values; running processes do not see them.
SetEnv(e) ==
  /\ e # env /\ changes < MaxChanges
  /\ env' = e /\ changes' = changes + 1
  /\ UNCHANGED <<phase, snap>>

\* get_settings, first call: what it returns is cached for the process.  An
\* environment that does not load raises and the process does not come up.
Load(p) ==
  /\ phase[p] = "down" /\ Valid(env)
  /\ snap' = [snap EXCEPT ![p] = env]
  /\ phase' = [phase EXCEPT ![p] = IF p \in Api THEN "starting" ELSE "serving"]
  /\ UNCHANGED <<env, changes>>

\* get_settings, later calls.
GetSettings(p) == snap[p]

\* lifespan up to the yield: the assertion ends the process or lets it serve.
Start(p) ==
  /\ phase[p] = "starting"
  /\ phase' = [phase EXCEPT ![p] =
       IF AssertEvidenceDomainSeparate(GetSettings(p)) THEN "serving" ELSE "refused"]
  /\ UNCHANGED <<env, snap, changes>>

\* A process whose environment was replaced is shut down, to load it anew.
Restart(p) ==
  /\ phase[p] # "down" /\ snap[p] # env
  /\ phase' = [phase EXCEPT ![p] = "down"]
  /\ snap' = [snap EXCEPT ![p] = NotLoaded]
  /\ UNCHANGED <<env, changes>>

-----------------------------------------------------------------------------
(* Properties *)

StartupTypeOK ==
  /\ env \in Environments
  /\ phase \in [Process -> {"down", "starting", "serving", "refused"}]
  /\ snap \in [Process -> Environments \cup {NotLoaded}]
  /\ changes \in 0..MaxChanges

\* A dot begins a label, another piece goes on with the last one.
LabelsWith(labels, piece) ==
  IF piece = DotPiece THEN Append(labels, <<>>)
  ELSE Append(Front(labels), Append(Last(labels), piece))

\* The labels of a host name, case and final dots aside.
Labels(host) == Scan(Canonical(host), << <<>> >>, LabelsWith)

\* One name is the other or lies under it, label by label.
OneUnderOther(h1, h2) ==
  IsSuffix(Labels(h1), Labels(h2)) \/ IsSuffix(Labels(h2), Labels(h1))

\* assert_evidence_domain_separate promises that neither host is a subdomain
\* of the other: whatever the environment has become since, an API process
\* serves only with two names of which neither is the other or lies under it,
\* and it turns down only names of which one does.  Two names beside each
\* other under one registered domain pass: see ServesOutsideCookieScope.
EvidenceNotASubdomain ==
  \A p \in Api :
    LET under == OneUnderOther(snap[p].NEPTIQ_PUBLIC_HOST,
                               snap[p].NEPTIQ_EVIDENCE_HOST)
    IN (phase[p] = "serving" => ~under) /\ (phase[p] = "refused" => under)

\* Either host may set a cookie for a domain that both names lie under.  A
\* browser stores it unless that domain is a public suffix, and sends it to
\* both: they are not of two registrable domains.
ShareCookies(h1, h2) ==
  \E domain \in Suffixes(Labels(h1)) \ {<<>>} :
    domain \notin PublicSuffix /\ IsSuffix(domain, Labels(h2))

\* What the docstring of lifespan and the comment on NEPTIQ_EVIDENCE_HOST say:
\* an API process serves only with hosts of two registrable domains, so that
\* no hostile content is inside the application's cookie scope.  Refuted.
ServesOutsideCookieScope ==
  \A p \in Api :
    phase[p] = "serving" =>
      ~ShareCookies(snap[p].NEPTIQ_PUBLIC_HOST, snap[p].NEPTIQ_EVIDENCE_HOST)
=============================================================================
