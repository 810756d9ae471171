--------------------------- MODULE CrawlJobProofs ---------------------------
(***************************************************************************)
(* What a crawl job may connect to, ask for and write into a prompt, for   *)
(* every site, document, resolver answer, table of networks, text and cap. *)
(***************************************************************************)
EXTENDS CrawlJob, ScanLemmas

\* The rules that were read allow NeptiqBot, or there were none to read.
Allowed ==
  \/ Usable(doc) /\ path \in doc.body["NeptiqBot"]
  \/ ~Usable(doc) /\ doc.status \in 0..499

\* While a page of the site is resolved and asked for, its document is the one
\* that was decided on; a report is about the path that was decided on.
Asked ==
  /\ phase = "decide" => doc \in Documents /\ ~report
  /\ phase = "robots" => ~report
  /\ phase \in {"resolve", "connect"} /\ path \in Paths => Allowed
  /\ report => Usable(doc) /\ path \notin doc.body["Googlebot"]

\* The pinned address came out of the validation of the current target and of
\* the answer that was validated.
Pinned ==
  phase = "connect" =>
    /\ dest \in ValidateDestination(target.scheme, target.host, answers)
    /\ answers \in Answers

-----------------------------------------------------------------------------

\* A document that decides for a fetch allows it.
LEMMA MayFetchAllowed ==
  ASSUME doc \in Documents, Evaluate(doc, path).may_fetch
  PROVE  Allowed
<1>1. CASE Usable(doc)
  BY <1>1 DEF Evaluate, Decision, CanFetch, NEPTIQ_UA_TOKEN, Allowed
<1>2. CASE ~Usable(doc)
  <2>1. ~Transient(doc)
    BY <1>2 DEF Evaluate, Decision
  <2>2. doc.status \in Nat /\ ~(doc.status >= 500)
    BY <2>1, CrawlAssumption DEF CrawlAssumption, Transient
  <2>3. doc.status \in 0..499
    BY <2>2
  <2> QED
    BY <1>2, <2>3 DEF Allowed
<1> QED
  BY <1>1, <1>2

\* Only rules that were read turn Googlebot away.
LEMMA ReportIsRead ==
  ASSUME ReportIndexabilityIssue(Evaluate(doc, path))
  PROVE  Usable(doc) /\ path \notin doc.body["Googlebot"]
BY DEF ReportIndexabilityIssue, Evaluate, Decision, CanFetch, GOOGLEBOT_UA_TOKEN

LEMMA AskedStep == Asked /\ [Next]_vars => Asked'
<1> SUFFICES ASSUME Asked, [Next]_vars PROVE Asked'
  OBVIOUS
<1>1. CASE GetRobots
  BY <1>1 DEF GetRobots, Asked, sending
<1>2. CASE Decide
  <2>1. doc \in Documents
    BY <1>2 DEF Decide, Asked
  <2>2. phase' = "resolve" => Allowed
    BY <1>2, <2>1, MayFetchAllowed DEF Decide
  <2>3. report' => Usable(doc) /\ path \notin doc.body["Googlebot"]
    BY <1>2, ReportIsRead DEF Decide
  <2> QED
    BY <1>2, <2>2, <2>3 DEF Decide, Asked, Allowed, sending
<1>3. CASE GetSitemap
  BY <1>3, CrawlAssumption DEF CrawlAssumption, GetSitemap, Asked
<1>4. CASE Resolve
  <2>1. phase = "resolve" /\ phase' \in {"refused", "connect"} /\ UNCHANGED asking
    BY <1>4 DEF Resolve
  <2> QED
    BY <2>1 DEF Asked, Allowed, asking
<1>5. CASE Redirected \/ Fetched
  BY <1>5, CrawlAssumption DEF CrawlAssumption, Redirected, Fetched, LeaveSite, Asked
<1>6. CASE Lost \/ Extract
  BY <1>6 DEF Lost, Extract, Asked, asking
<1>7. CASE UNCHANGED vars
  BY <1>7 DEF vars, Asked, Allowed
<1> QED
  BY <1>1, <1>2, <1>3, <1>4, <1>5, <1>6, <1>7 DEF Next

\* A redirect is validated like a first request, or refused.
LEMMA ValidatedIsPermitted ==
  ASSUME NEW reply
  PROVE  Validated(reply) \subseteq ValidateDestination(target.scheme, target.host, reply)
BY DEF Validated, ValidateRedirectHop

LEMMA PinnedStep == Pinned /\ [Next]_vars => Pinned'
<1> SUFFICES ASSUME Pinned, [Next]_vars, phase' = "connect"
             PROVE  /\ dest' \in ValidateDestination(target'.scheme, target'.host, answers')
                    /\ answers' \in Answers
  BY DEF Pinned
<1>1. CASE Resolve
  <2>1. PICK reply \in Answers : answers' = reply /\ dest' \in Validated(reply)
    BY <1>1 DEF Resolve
  <2>2. target' = target
    BY <1>1 DEF Resolve
  <2> QED
    BY <2>1, <2>2, ValidatedIsPermitted
<1>2. CASE UNCHANGED vars
  BY <1>2 DEF vars, Pinned
<1>3. Resolve \/ UNCHANGED vars
  BY DEF Next, GetRobots, Decide, GetSitemap, Redirected, Fetched, Lost, Extract
<1> QED
  BY <1>1, <1>2, <1>3

\* Whatever the classification lets through is no internal address, in none of
\* the forms that embed an IPv4 number.
LEMMA ClassifiedIsExternal ==
  ASSUME NEW ip, ~ClassifyIp(ip)
  PROVE  ~Internal(ip)
BY DEF ClassifyIp, BlockedNumber, BlockedForms, Internal, Reaches

\* A validated address passed the classification, and so did every answer for
\* a name.
LEMMA ValidatedPasses ==
  ASSUME NEW scheme, NEW host, NEW reply \in Answers,
         NEW ip \in ValidateDestination(scheme, host, reply)
  PROVE  /\ ~ClassifyIp(ip)
         /\ Literal(host) = {} =>
              ip = reply[1] /\ \A i \in DOMAIN reply : ~ClassifyIp(reply[i])
<1>1. CASE Literal(host) # {}
  BY <1>1 DEF ValidateDestination
<1>2. CASE Literal(host) = {}
  <2>1. ip = reply[1] /\ reply # <<>> /\ \A i \in DOMAIN reply : ~ClassifyIp(reply[i])
    BY <1>2 DEF ValidateDestination
  <2> QED
    BY <2>1, CrawlAssumption DEF CrawlAssumption
<1> QED
  BY <1>1, <1>2

-----------------------------------------------------------------------------
(* Numbers *)

LEMMA DivMod ==
  ASSUME NEW d \in Nat, NEW high \in Nat, NEW low \in 0..(d - 1)
  PROVE  (high * d + low) % d = low /\ (high * d + low) \div d = high
<1> DEFINE n == high * d + low
<1>1. d > 0 /\ n \in Nat
  OBVIOUS
<1>2. n = d * (n \div d) + (n % d) /\ (n % d) \in 0..(d - 1) /\ n \div d \in Int
  BY <1>1
<1> QED BY <1>2

\* An octet in front of what lies below its weight.
LEMMA Below ==
  ASSUME NEW w \in Nat, NEW octet \in 0..OctetMax, NEW low \in 0..(w - 1)
  PROVE  octet * w + low \in 0..(Octets * w - 1)
<1>1. OctetMax \in Nat /\ octet * w <= OctetMax * w
  BY OctetAssumption
<1>2. octet * w \in Nat /\ OctetMax * w + w = Octets * w
  BY <1>1 DEF Octets
<1> QED BY <1>1, <1>2

\* The octet of weight w, whatever is above and below it.
LEMMA OctetAt ==
  ASSUME NEW w \in Nat, NEW high \in Nat, NEW octet \in 0..OctetMax, NEW low \in 0..(w - 1)
  PROVE  (((high * Octets + octet) * w + low) \div w) % Octets = octet
<1>1. Octets \in Nat /\ octet \in 0..(Octets - 1)
  BY OctetAssumption DEF Octets
<1>2. high * Octets + octet \in Nat
  BY <1>1
<1>3. ((high * Octets + octet) * w + low) \div w = high * Octets + octet
  BY <1>2, DivMod
<1>4. (high * Octets + octet) % Octets = octet
  BY <1>1, DivMod
<1> QED BY <1>3, <1>4

LEMMA Weights ==
  /\ Octets \in Nat \ {0}
  /\ Weight[4] = 1 /\ Weight[3] = Octets /\ Weight[2] = Octets * Octets
  /\ Weight[1] = Octets * Octets * Octets
  /\ \A k \in 1..4 : Weight[k] \in Nat
<1>1. Octets \in Nat \ {0} /\ Octets * Octets \in Nat /\ Octets * Octets * Octets \in Nat
  BY OctetAssumption DEF Octets
<1> QED BY <1>1 DEF Weight

\* A number packed from two, three or four fields has them at their weights.
LEMMA TwoFields ==
  ASSUME NEW w \in Nat, NEW a \in 0..OctetMax, NEW z \in 0..(w - 1)
  PROVE  (a * w + z) % w = z /\ ((a * w + z) \div w) % Octets = a
<1>1. a \in Nat /\ OctetMax \in Nat /\ Octets \in Nat /\ a \in 0..(Octets - 1)
  BY OctetAssumption DEF Octets
<1>2. (a * w + z) % w = z /\ (a * w + z) \div w = a
  BY <1>1, DivMod
<1>3. (0 * Octets + a) % Octets = a /\ 0 * Octets + a = a
  BY <1>1, DivMod
<1> QED BY <1>2, <1>3

LEMMA ThreeFields ==
  ASSUME NEW w \in Nat, NEW a \in 0..OctetMax, NEW b \in 0..OctetMax, NEW z \in 0..(w - 1),
         NEW n, n = a * (Octets * w) + b * w + z
  PROVE  n % w = z /\ (n \div w) % Octets = b /\ (n \div (Octets * w)) % Octets = a
<1>1. a \in Nat /\ b \in Nat /\ OctetMax \in Nat /\ Octets \in Nat
  BY OctetAssumption DEF Octets
<1>2. Octets * w \in Nat /\ a * Octets + b \in Nat /\ n = (a * Octets + b) * w + z
  BY <1>1
<1>3. n % w = z
  BY <1>2, DivMod
<1>4. (n \div w) % Octets = b
  <2>1. (((a * Octets + b) * w + z) \div w) % Octets = b
    BY <1>1, OctetAt
  <2> QED BY <1>2, <2>1
<1>5. b * w + z \in 0..(Octets * w - 1)
  BY Below
<1>6. n = a * (Octets * w) + (b * w + z)
  BY <1>1, <1>2
<1>7. (n \div (Octets * w)) % Octets = a
  BY <1>2, <1>5, <1>6, TwoFields
<1> QED BY <1>3, <1>4, <1>7

LEMMA FourFields ==
  ASSUME NEW a \in 0..OctetMax, NEW b \in 0..OctetMax, NEW c \in 0..OctetMax,
         NEW z \in 0..(Octets - 1), NEW n,
         n = a * (Octets * Octets * Octets) + b * (Octets * Octets) + c * Octets + z
  PROVE  /\ n % Octets = z /\ (n \div Octets) % Octets = c
         /\ (n \div (Octets * Octets)) % Octets = b
         /\ (n \div (Octets * Octets * Octets)) % Octets = a
<1>1. a \in Nat /\ b \in Nat /\ c \in Nat /\ OctetMax \in Nat /\ Octets \in Nat
  BY OctetAssumption DEF Octets
<1>2. Octets * Octets \in Nat /\ Octets * (Octets * Octets) = Octets * Octets * Octets
  BY <1>1
<1>3. (a * Octets + b) * Octets + c \in Nat /\ a * Octets + b \in Nat
  BY <1>1
<1>4. n = ((a * Octets + b) * Octets + c) * Octets + z
  BY <1>1
<1>5. n % Octets = z /\ (n \div Octets) % Octets = c
  <2> DEFINE high == a * Octets + b
  <2>1. high \in Nat /\ high * Octets + c \in Nat /\ n = (high * Octets + c) * Octets + z
    BY <1>1, <1>3, <1>4
  <2> HIDE DEF high
  <2>2. (((high * Octets + c) * Octets + z) \div Octets) % Octets = c
    BY <1>1, <2>1, OctetAt
  <2>3. ((high * Octets + c) * Octets + z) % Octets = z
    BY <1>1, <2>1, DivMod
  <2> QED BY <2>1, <2>2, <2>3
<1>6. c * Octets + z \in 0..(Octets * Octets - 1)
  BY <1>1, Below
<1>7. n = a * (Octets * (Octets * Octets)) + b * (Octets * Octets) + (c * Octets + z)
  BY <1>1, <1>2
<1>8. /\ (n \div (Octets * Octets)) % Octets = b
      /\ (n \div (Octets * (Octets * Octets))) % Octets = a
  BY <1>2, <1>6, <1>7, ThreeFields
<1> QED BY <1>2, <1>5, <1>8

LEMMA PackReadsBack ==
  ASSUME NEW v, NEW k \in 1..4, Len(v) = k, NEW n \in Pack(v)
  PROVE  /\ n % (Octets * Weight[k]) = v[k]
         /\ \A i \in 1..(k - 1) : (n \div Weight[i]) % Octets = v[i]
<1>1. /\ v[k] \in 0..LastMax(k) /\ \A i \in 1..(k - 1) : v[i] \in 0..OctetMax
      /\ n = (IF 1 < k THEN v[1] * Weight[1] ELSE 0) + (IF 2 < k THEN v[2] * Weight[2] ELSE 0)
             + (IF 3 < k THEN v[3] * Weight[3] ELSE 0) + v[k]
  BY DEF Pack
<1>2. Octets \in Nat /\ OctetMax \in Nat
  BY Weights, OctetAssumption
<1>3. CASE k = 1
  <2>1. v[1] \in 0..(Octets * Weight[1] - 1) /\ n = v[1] /\ Octets * Weight[1] \in Nat
    BY <1>1, <1>2, <1>3, Weights DEF LastMax
  <2>2. (0 * (Octets * Weight[1]) + v[1]) % (Octets * Weight[1]) = v[1]
    BY <2>1, DivMod
  <2> QED BY <1>3, <2>1, <2>2
<1>4. CASE k = 2
  <2> DEFINE w == Octets * Octets * Octets
  <2>1. w \in Nat /\ Weight[1] = w /\ Octets * Weight[2] = w
    BY <1>2, Weights
  <2> HIDE DEF w
  <2>2. PICK a \in 0..OctetMax, z \in 0..(w - 1) : a = v[1] /\ z = v[2]
    BY <1>1, <1>4, <2>1 DEF LastMax
  <2>3. n = a * w + z
    BY <1>1, <1>2, <1>4, <2>1, <2>2
  <2>4. n % w = z /\ (n \div w) % Octets = a
    BY <2>1, <2>3, TwoFields
  <2> QED BY <1>4, <2>1, <2>2, <2>4
<1>5. CASE k = 3
  <2> DEFINE w == Octets * Octets
  <2>1. /\ w \in Nat /\ Weight[1] = Octets * w /\ Weight[2] = w /\ Octets * Weight[3] = w
        /\ Octets * w \in Nat
    BY <1>2, Weights
  <2> HIDE DEF w
  <2>2. PICK a \in 0..OctetMax, b \in 0..OctetMax, z \in 0..(w - 1) :
          a = v[1] /\ b = v[2] /\ z = v[3]
    BY <1>1, <1>5, <2>1 DEF LastMax
  <2>3. n = a * (Octets * w) + b * w + z
    BY <1>1, <1>2, <1>5, <2>1, <2>2
  <2>4. n % w = z /\ (n \div w) % Octets = b /\ (n \div (Octets * w)) % Octets = a
    BY <2>1, <2>3, ThreeFields
  <2> QED BY <1>5, <2>1, <2>2, <2>4
<1>6. CASE k = 4
  <2>1. PICK a \in 0..OctetMax, b \in 0..OctetMax, c \in 0..OctetMax, z \in 0..(Octets - 1) :
          a = v[1] /\ b = v[2] /\ c = v[3] /\ z = v[4]
    <3>1. Octets * Weight[4] = Octets
      BY <1>2, Weights
    <3> QED BY <1>1, <1>6, <3>1 DEF LastMax
  <2>2. n = a * (Octets * Octets * Octets) + b * (Octets * Octets) + c * Octets + z
    BY <1>1, <1>2, <1>6, <2>1, Weights
  <2>3. /\ n % Octets = z /\ (n \div Octets) % Octets = c
        /\ (n \div (Octets * Octets)) % Octets = b
        /\ (n \div (Octets * Octets * Octets)) % Octets = a
    BY <2>2, FourFields
  <2>4. Octets * Weight[4] = Octets
    BY <1>2, Weights
  <2> QED BY <1>6, <2>1, <2>3, <2>4, Weights
<1> QED BY <1>3, <1>4, <1>5, <1>6

\* What a numeric host is read as, is what inet_aton reads in it.
LEMMA CanonicalReads ==
  ASSUME NEW fields, Fielded(fields), ~BareOctal(fields),
         NEW n \in CanonicaliseNumericHost(fields)
  PROVE  ReadsAs(fields, n)
<1> DEFINE k == Len(fields)
           values == [i \in DOMAIN fields |-> CHOOSE v \in Part(fields[i]) : TRUE]
<1>1. k \in Nat \ {0} /\ DOMAIN fields = 1..k
  BY DEF Fielded
<1>2. CASE k = 1 /\ fields[1].prefix # "0x"
  <2>1. fields[1].prefix = ""
    <3>1. 1 \in DOMAIN fields
      BY <1>1, <1>2
    <3>2. fields[1].prefix \in {"", "0", "0x"}
      BY <3>1 DEF Fielded
    <3>3. fields[1].prefix # "0"
      BY <1>2 DEF BareOctal
    <3> QED BY <1>2, <3>2, <3>3
  <2>2. n \in Parse(fields[1].digits, 10) /\ n \in 0..LastMax(1)
    BY <1>2 DEF CanonicaliseNumericHost
  <2>3. Part(fields[1]) = {n}
    BY <2>1, <2>2 DEF Part, Parse
  <2>4. (CHOOSE v \in Part(fields[1]) : TRUE) = n
    BY <2>3
  <2>5. Octets * Weight[1] \in Nat /\ n \in 0..(Octets * Weight[1] - 1) /\ n \in Nat
    <3>1. Octets \in Nat /\ Weight[1] \in Nat
      BY Weights, 1 \in 1..4
    <3> QED BY <2>2, <3>1 DEF LastMax
  <2>6. (0 * (Octets * Weight[1]) + n) % (Octets * Weight[1]) = n
    BY <2>5, DivMod
  <2>7. n % (Octets * Weight[1]) = n
    BY <2>5, <2>6
  <2> QED BY <1>2, <2>4, <2>7 DEF ReadsAs
<1>3. CASE ~(k = 1 /\ fields[1].prefix # "0x")
  <2>1. n \in Dotted(fields)
    BY <1>3 DEF CanonicaliseNumericHost
  <2>2. k <= 4 /\ n \in Pack(values)
    BY <1>1, <2>1 DEF Dotted
  <2>3. Len(values) = k /\ k \in 1..4
    BY <1>1, <2>2
  <2>4. \A i \in 1..k : values[i] = CHOOSE v \in Part(fields[i]) : TRUE
    BY <1>1
  <2> HIDE DEF values, k
  <2>5. /\ n % (Octets * Weight[k]) = values[k]
        /\ \A i \in 1..(k - 1) : (n \div Weight[i]) % Octets = values[i]
    BY <2>2, <2>3, PackReadsBack
  <2>6. k \in 1..k /\ \A i \in 1..(k - 1) : i \in 1..k
    BY <2>3
  <2> QED BY <2>4, <2>5, <2>6 DEF ReadsAs, k
<1> QED BY <1>2, <1>3

\* A target was named by the site, by a server or by a document.
Aimed ==
  /\ target \in {Site} \cup Targets \cup UNION {Sitemaps(d) : d \in Documents}
  /\ phase = "decide" => doc \in Documents

LEMMA AimedStep == Aimed /\ [Next]_vars => Aimed'
BY DEF Aimed, Next, vars, GetRobots, Decide, GetSitemap, Resolve, Redirected, Fetched,
       Lost, Extract, asking, sending, LeaveSite

-----------------------------------------------------------------------------
(* Texts *)

Sentinel(x) == <<"<", x, ">">>

\* The sentinel of x starts at i.
Here(chars, i, x) == chars[i] = "<" /\ chars[i + 1] = x /\ chars[i + 2] = ">"

Lacks(chars, x) == \A i \in 1..(Len(chars) - 2) : ~Here(chars, i, x)

\* What a sentinel and its replacement are made of.
Marks == {"<", "open", "close", ">", "removed"}

LEMMA EndsWithSentinel ==
  ASSUME NEW A, Marks \subseteq A, NEW t \in Seq(A), NEW x \in {"open", "close"}
  PROVE  IsSuffix(Sentinel(x), t) <=> Len(t) >= 3 /\ Here(t, Len(t) - 2, x)
<1> DEFINE s == Sentinel(x)
<1>1. s \in Seq(A) /\ Len(s) = 3 /\ s[1] = "<" /\ s[2] = x /\ s[3] = ">"
  BY DEF Sentinel, Marks
<1>2. IsSuffix(s, t) <=>
        Len(s) <= Len(t) /\ \A i \in 1..Len(s) : t[(Len(t) - Len(s)) + i] = s[i]
  <2> HIDE DEF s
  <2> QED BY <1>1, SuffixAt
<1> HIDE DEF s
<1>3. Len(t) \in Nat
  OBVIOUS
<1>4. (\A i \in 1..3 : t[(Len(t) - 3) + i] = s[i]) <=>
        t[(Len(t) - 3) + 1] = s[1] /\ t[(Len(t) - 3) + 2] = s[2] /\ t[(Len(t) - 3) + 3] = s[3]
  <2>1. \A i \in 1..3 : i = 1 \/ i = 2 \/ i = 3
    OBVIOUS
  <2> QED BY <2>1
<1>5. (Len(t) - 3) + 1 = Len(t) - 2 /\ (Len(t) - 3) + 2 = (Len(t) - 2) + 1
      /\ (Len(t) - 3) + 3 = (Len(t) - 2) + 2
  BY <1>3
<1> QED BY <1>1, <1>2, <1>4, <1>5 DEF Here, s

\* The states of a replacement.
Scanning(A) == [text : Seq(A), free : Nat]

\* After n characters: the free ones are the last of those, and in front of them
\* is a replacement or nothing.
Scanned(s, chars, n) ==
  LET rest == Len(s.text) - s.free
  IN /\ s.free \in 0..n /\ s.free <= Len(s.text)
     /\ rest > 0 => s.text[rest] = "removed"
     /\ \A i \in 1..s.free : s.text[rest + i] = chars[(n - s.free) + i]

\* The next character completes the sentinel that is looked for.
LEMMA NextRemoves ==
  ASSUME NEW A, Marks \subseteq A, NEW s \in Scanning(A), NEW c \in A,
         NEW x \in {"open", "close"}, NEW chars, NEW n \in Nat,
         s.free + 1 >= 3, IsSuffix(Sentinel(x), Append(s.text, c)), Scanned(s, chars, n),
         NEW z, z = ReplaceNext(s, c, Sentinel(x), Removed)
  PROVE  /\ z \in Scanning(A) /\ Scanned(z, chars, n + 1)
         /\ \A y \in {"open", "close"} : Lacks(s.text, y) => Lacks(z.text, y)
<1> DEFINE text == s.text
           k == Len(text)
           grown == Append(text, c)
           cut == SubSeq(grown, 1, k - 2)
<1>1. text \in Seq(A) /\ k \in Nat /\ s.free \in Nat /\ s.free <= k /\ k >= 2
  BY DEF Scanning, Scanned
<1>2. Len(Sentinel(x)) = 3
  BY DEF Sentinel
<1>3. grown \in Seq(A) /\ Len(grown) = k + 1 /\ \A i \in 1..k : grown[i] = text[i]
  BY <1>1
<1>4. z = [text |-> cut \o Removed, free |-> 0]
  <2>1. Len(grown) - Len(Sentinel(x)) = k - 2
    BY <1>1, <1>2, <1>3
  <2>2. s.free + 1 >= Len(Sentinel(x)) /\ IsSuffix(Sentinel(x), grown)
    BY <1>2
  <2> HIDE DEF k
  <2> QED BY <2>1, <2>2 DEF ReplaceNext
<1> HIDE DEF text, k, grown
<1>5. cut \in Seq(A) /\ Len(cut) = k - 2 /\ \A i \in 1..(k - 2) : cut[i] = text[i]
  <2>1. \A i \in 1..(k - 2) : grown[i] \in A
    BY <1>1, <1>3
  <2>2. cut \in Seq(A) /\ Len(cut) = k - 2 /\ \A i \in 1..(k - 2) : cut[i] = grown[i]
    BY <1>1, <2>1, SubSeqProperties
  <2> QED BY <1>1, <1>3, <2>2
<1> HIDE DEF cut
<1>6. Removed \in Seq(A) /\ Len(Removed) = 1 /\ Removed[1] = "removed"
  BY DEF Removed, Marks
<1>7. /\ z.free = 0 /\ z.text \in Seq(A) /\ Len(z.text) = k - 1
      /\ \A i \in 1..(k - 2) : z.text[i] = text[i]
      /\ z.text[k - 1] = "removed"
  <2> DEFINE joined == cut \o Removed
  <2>1. /\ joined \in Seq(A) /\ Len(joined) = Len(cut) + Len(Removed)
        /\ \A i \in 1..(Len(cut) + Len(Removed)) :
             joined[i] = IF i <= Len(cut) THEN cut[i] ELSE Removed[i - Len(cut)]
    BY <1>5, <1>6, ConcatProperties
  <2> HIDE DEF joined
  <2>2. z.text = joined /\ z.free = 0
    BY <1>4 DEF joined
  <2>3. joined[k - 1] = "removed"
    <3>1. (k - 1) - (k - 2) = 1 /\ k - 1 \in 1..((k - 2) + 1) /\ ~(k - 1 <= k - 2)
      BY <1>1
    <3>2. joined[k - 1] = Removed[(k - 1) - (k - 2)]
      BY <1>5, <1>6, <2>1, <3>1
    <3> QED BY <1>6, <3>1, <3>2
  <2>4. ASSUME NEW i \in 1..(k - 2) PROVE joined[i] = text[i]
    <3>1. i \in 1..((k - 2) + 1) /\ i <= k - 2
      BY <1>1
    <3> QED BY <1>5, <1>6, <2>1, <3>1
  <2>5. Len(joined) = k - 1
    BY <1>1, <1>5, <1>6, <2>1
  <2> QED BY <2>1, <2>2, <2>3, <2>4, <2>5
<1>8. z \in Scanning(A)
  BY <1>4, <1>7 DEF Scanning
<1>9. Scanned(z, chars, n + 1)
  BY <1>1, <1>7 DEF Scanned
<1>10. ASSUME NEW y \in {"open", "close"}, Lacks(text, y), NEW i \in 1..((k - 1) - 2)
       PROVE  ~Here(z.text, i, y)
  <2>1. CASE i + 2 = k - 1
    BY <1>7, <2>1 DEF Here
  <2>2. CASE i + 2 <= k - 2
    <3>1. i \in 1..(k - 2) /\ i + 1 \in 1..(k - 2) /\ i + 2 \in 1..(k - 2)
      BY <1>1, <2>2
    <3>2. ~Here(text, i, y)
      BY <1>10, <3>1 DEF Lacks, k
    <3> QED BY <1>7, <3>1, <3>2 DEF Here
  <2> QED BY <1>1, <2>1, <2>2
<1> QED BY <1>7, <1>8, <1>9, <1>10 DEF Lacks, text

\* It does not.
LEMMA NextAppends ==
  ASSUME NEW A, Marks \subseteq A, NEW s \in Scanning(A), NEW chars \in Seq(A),
         NEW n \in 0..(Len(chars) - 1), NEW x \in {"open", "close"}, Scanned(s, chars, n),
         ~(s.free + 1 >= 3 /\ IsSuffix(Sentinel(x), Append(s.text, chars[n + 1]))),
         NEW z, z = ReplaceNext(s, chars[n + 1], Sentinel(x), Removed)
  PROVE  /\ z \in Scanning(A) /\ Scanned(z, chars, n + 1)
         /\ \A y \in {"open", "close"} :
              Lacks(s.text, y) /\ (y = x \/ Lacks(chars, y)) => Lacks(z.text, y)
<1> DEFINE text == s.text
           k == Len(text)
           c == chars[n + 1]
           grown == Append(text, c)
           free == s.free
<1>1. /\ text \in Seq(A) /\ k \in Nat /\ free \in 0..n /\ free <= k
      /\ Len(chars) \in Nat /\ n \in Nat /\ n + 1 \in 1..Len(chars) /\ c \in A
  BY DEF Scanning, Scanned
<1>2. /\ k - free > 0 => text[k - free] = "removed"
      /\ \A i \in 1..free : text[(k - free) + i] = chars[(n - free) + i]
  BY DEF Scanned
<1>3. Len(Sentinel(x)) = 3
  BY DEF Sentinel
<1>4. z = [text |-> grown, free |-> free + 1]
  BY <1>3 DEF ReplaceNext
<1> HIDE DEF text, k, c, free
<1>5. /\ grown \in Seq(A) /\ Len(grown) = k + 1
      /\ \A i \in 1..k : grown[i] = text[i]
      /\ grown[k + 1] = c
  BY <1>1, AppendProperties DEF k
<1>6. free + 1 >= 3 => ~Here(grown, k - 1, x)
  <2>1. IsSuffix(Sentinel(x), grown) <=> Len(grown) >= 3 /\ Here(grown, Len(grown) - 2, x)
    <3> HIDE DEF grown
    <3> QED BY <1>5, EndsWithSentinel
  <2>2. (k + 1) - 2 = k - 1
    BY <1>1
  <2>3. free + 1 >= 3 => k + 1 >= 3
    BY <1>1
  <2>4. free + 1 >= 3 => ~IsSuffix(Sentinel(x), grown)
    BY DEF free, c, text
  <2> QED BY <1>5, <2>1, <2>2, <2>3, <2>4
<1> HIDE DEF grown
<1>7. z.text = grown /\ z.free = free + 1 /\ z \in Scanning(A)
  BY <1>1, <1>4, <1>5 DEF Scanning
<1>8. Scanned(z, chars, n + 1)
  <2>1. free + 1 \in 0..(n + 1) /\ free + 1 <= k + 1 /\ (k + 1) - (free + 1) = k - free
        /\ (n + 1) - (free + 1) = n - free
    BY <1>1
  <2>2. k - free > 0 => grown[k - free] = "removed"
    BY <1>1, <1>2, <1>5
  <2>3. ASSUME NEW i \in 1..(free + 1) PROVE grown[(k - free) + i] = chars[(n - free) + i]
    <3>1. CASE i = free + 1
      <4>1. (k - free) + i = k + 1 /\ (n - free) + i = n + 1
        BY <1>1, <3>1
      <4> QED BY <1>5, <4>1 DEF c
    <3>2. CASE i <= free
      <4>1. (k - free) + i \in 1..k /\ i \in 1..free
        BY <1>1, <3>2
      <4> QED BY <1>2, <1>5, <4>1
    <3> QED BY <1>1, <3>1, <3>2
  <2> QED BY <1>5, <1>7, <2>1, <2>2, <2>3 DEF Scanned
<1>9. ASSUME NEW y \in {"open", "close"}, y = x \/ Lacks(chars, y), k >= 2
      PROVE  ~Here(grown, k - 1, y)
  <2>1. CASE free >= 2 /\ y = x
    BY <1>1, <1>6, <2>1
  <2>2. CASE free >= 2 /\ Lacks(chars, y)
    <3>1. \A i \in 0..2 : grown[(k - 1) + i] = chars[(n - 1) + i]
      <4>1. grown[k - 1] = text[k - 1] /\ grown[k] = text[k] /\ grown[k + 1] = chars[n + 1]
        <5>1. k - 1 \in 1..k /\ k \in 1..k
          BY <1>1, <2>2
        <5>2. grown[k - 1] = text[k - 1] /\ grown[k] = text[k]
          BY <1>5, <5>1
        <5> QED BY <1>5, <5>2 DEF c
      <4>2. /\ text[(k - free) + (free - 1)] = chars[(n - free) + (free - 1)]
            /\ text[(k - free) + free] = chars[(n - free) + free]
        <5>1. free - 1 \in 1..free /\ free \in 1..free
          BY <1>1, <2>2
        <5> QED BY <1>2, <5>1
      <4>3. /\ (k - free) + (free - 1) = k - 1 /\ (n - free) + (free - 1) = n - 1
            /\ (k - free) + free = k /\ (n - free) + free = n
        BY <1>1
      <4>4. text[k - 1] = chars[n - 1] /\ text[k] = chars[n]
        BY <4>2, <4>3
      <4>5. /\ (k - 1) + 0 = k - 1 /\ (k - 1) + 1 = k /\ (k - 1) + 2 = k + 1
            /\ (n - 1) + 0 = n - 1 /\ (n - 1) + 1 = n /\ (n - 1) + 2 = n + 1
            /\ \A i \in 0..2 : i = 0 \/ i = 1 \/ i = 2
        BY <1>1
      <4> QED BY <4>1, <4>4, <4>5
    <3>2. n - 1 \in 1..(Len(chars) - 2)
      BY <1>1, <2>2
    <3>3. ~Here(chars, n - 1, y)
      BY <2>2, <3>2 DEF Lacks
    <3>4. (k - 1) + 0 = k - 1 /\ (n - 1) + 0 = n - 1 /\ 0 \in 0..2 /\ 1 \in 0..2 /\ 2 \in 0..2
      BY <1>1
    <3> QED BY <3>1, <3>3, <3>4 DEF Here
  <2>3. CASE free = 0
    <3>1. text[k] = "removed" /\ (k - 1) + 1 = k /\ k \in 1..k
      BY <1>1, <1>2, <1>9, <2>3
    <3> QED BY <1>5, <3>1 DEF Here
  <2>4. CASE free = 1
    <3>1. text[k - 1] = "removed" /\ k - 1 \in 1..k
      BY <1>1, <1>2, <1>9, <2>4
    <3> QED BY <1>5, <3>1 DEF Here
  <2> QED BY <1>1, <1>9, <2>1, <2>2, <2>3, <2>4
<1>10. ASSUME NEW y \in {"open", "close"}, Lacks(text, y), y = x \/ Lacks(chars, y),
              NEW i \in 1..((k + 1) - 2)
       PROVE  ~Here(grown, i, y)
  <2>1. CASE i = k - 1
    BY <1>1, <1>9, <1>10, <2>1
  <2>2. CASE i <= k - 2
    <3>1. i \in 1..(k - 2) /\ i \in 1..k /\ i + 1 \in 1..k /\ i + 2 \in 1..k
      BY <1>1, <2>2
    <3>2. ~Here(text, i, y)
      BY <1>10, <3>1 DEF Lacks, k
    <3> QED BY <1>5, <3>1, <3>2 DEF Here
  <2> QED BY <1>1, <2>1, <2>2
<1> QED BY <1>5, <1>7, <1>8, <1>10 DEF Lacks, text

\* What is taken out is out, and nothing else comes in.
LEMMA WithoutKeeps ==
  ASSUME NEW A, NEW chars \in Seq(A), NEW bad
  PROVE  Without(chars, bad) \in Seq(A \ bad)
<1> DEFINE N == Len(chars)
           S == Seq(A \ bad)
           Keep(kept, c) == IF c \in bad THEN kept ELSE Append(kept, c)
           Rec(f) == [n \in 0..N |-> IF n = 0 THEN <<>> ELSE Keep(f[n - 1], chars[n])]
           step == [p \in S \X (1..N) |-> Keep(p[1], chars[p[2]])]
           g == CHOOSE f : f = Rec(f)
<1>1. N \in Nat /\ <<>> \in S
  OBVIOUS
<1>2. \A kept \in S, i \in 1..N : Keep(kept, chars[i]) \in S
  OBVIOUS
<1>3. step \in [S \X (1..N) -> S] /\ \A kept \in S, i \in 1..N : step[<<kept, i>>] = Keep(kept, chars[i])
  <2> HIDE DEF S, N, Keep
  <2> QED BY <1>2
<1>4. Without(chars, bad) = g[N]
  BY DEF Without, Scan
<1>5. g = Rec(g)
  <2> HIDE DEF S, N, Keep, step
  <2>1. PICK f : Recurses(f, N, S, <<>>, step)
    BY <1>1, <1>3, Recursion
  <2>2. f \in [0..N -> S] /\ f[0] = <<>> /\ \A i \in 1..N : f[i] = step[<<f[i - 1], i>>]
    BY <2>1 DEF Recurses
  <2>4. \A i \in 1..N : f[i - 1] \in S
    BY <2>2, <1>1
  <2>5. \A i \in 1..N : f[i] = Keep(f[i - 1], chars[i])
    BY <2>2, <2>4, <1>3
  <2>3. f = Rec(f)
    BY <2>2, <2>5, <1>1
  <2> HIDE DEF Rec
  <2> QED BY <2>3
<1>6. g[0] = <<>> /\ \A i \in 1..N : g[i] = Keep(g[i - 1], chars[i])
  <2> HIDE DEF S, N, Keep, step, g
  <2> QED BY <1>1, <1>5
<1> DEFINE T == {i \in 0..N : g[i] \in S}
<1>7. 0..N \subseteq T
  <2> HIDE DEF g, N, Keep, S
  <2>1. 0 \in T
    BY <1>1, <1>6
  <2>2. ASSUME NEW i \in 0..(N - 1), i \in T PROVE i + 1 \in T
    <3>1. i + 1 \in 1..N /\ (i + 1) - 1 = i /\ i + 1 \in 0..N
      BY <1>1
    <3>2. g[i + 1] = Keep(g[i], chars[i + 1])
      BY <1>6, <3>1
    <3> QED BY <1>2, <2>2, <3>1, <3>2
  <2> HIDE DEF T
  <2> QED BY <1>1, <2>1, <2>2, Induction
<1> QED
  <2> HIDE DEF g
  <2> QED BY <1>1, <1>4, <1>7

LEMMA NextScans ==
  ASSUME NEW A, Marks \subseteq A, NEW s \in Scanning(A), NEW c \in A, NEW x
  PROVE  ReplaceNext(s, c, Sentinel(x), Removed) \in Scanning(A)
<1> DEFINE grown == Append(s.text, c)
           k == Len(grown)
           cut == SubSeq(grown, 1, k - 3)
<1>1. /\ s.text \in Seq(A) /\ s.free \in Nat
      /\ Len(Sentinel(x)) = 3 /\ Removed \in Seq(A)
  BY DEF Scanning, Sentinel, Removed, Marks
<1>2. grown \in Seq(A) /\ k \in Nat
  BY <1>1
<1> HIDE DEF grown, k
<1>3. cut \in Seq(A)
  <2>1. \A i \in 1..(k - 3) : grown[i] \in A
    BY <1>2 DEF k
  <2> QED BY <1>2, <2>1, SubSeqProperties
<1> HIDE DEF cut
<1>4. cut \o Removed \in Seq(A)
  BY <1>1, <1>3
<1>5. \/ ReplaceNext(s, c, Sentinel(x), Removed) = [text |-> cut \o Removed, free |-> 0]
      \/ ReplaceNext(s, c, Sentinel(x), Removed) = [text |-> grown, free |-> s.free + 1]
  BY <1>1 DEF ReplaceNext, grown, k, cut
<1>6. /\ [text |-> cut \o Removed, free |-> 0] \in Scanning(A)
      /\ [text |-> grown, free |-> s.free + 1] \in Scanning(A)
  BY <1>1, <1>2, <1>4 DEF Scanning
<1> QED BY <1>5, <1>6

\* No sentinel is left that was looked for, and none comes up that was not there.
LEMMA ReplaceRemoves ==
  ASSUME NEW A, Marks \subseteq A, NEW chars \in Seq(A), NEW x \in {"open", "close"},
         NEW text, text = Replace(chars, Sentinel(x), Removed)
  PROVE  /\ text \in Seq(A) /\ Lacks(text, x)
         /\ \A y \in {"open", "close"} : Lacks(chars, y) => Lacks(text, y)
<1> DEFINE N == Len(chars)
           S == Scanning(A)
           none == [text |-> <<>>, free |-> 0]
           Go(s, c) == ReplaceNext(s, c, Sentinel(x), Removed)
           Rec(f) == [n \in 0..N |-> IF n = 0 THEN none ELSE Go(f[n - 1], chars[n])]
           step == [p \in S \X (1..N) |-> Go(p[1], chars[p[2]])]
           g == CHOOSE f : f = Rec(f)
           Good(s, n) == /\ s \in S /\ Scanned(s, chars, n)
                         /\ \A y \in {"open", "close"} :
                              y = x \/ Lacks(chars, y) => Lacks(s.text, y)
<1>1. N \in Nat /\ none \in S /\ Good(none, 0)
  BY DEF Scanning, Scanned, Lacks
<1>2. ASSUME NEW n \in 0..(N - 1), NEW s, Good(s, n) PROVE Good(Go(s, chars[n + 1]), n + 1)
  <2>1. chars[n + 1] \in A /\ n \in Nat
    BY <1>1
  <2>2. CASE s.free + 1 >= 3 /\ IsSuffix(Sentinel(x), Append(s.text, chars[n + 1]))
    BY <1>2, <2>1, <2>2, NextRemoves
  <2>3. CASE ~(s.free + 1 >= 3 /\ IsSuffix(Sentinel(x), Append(s.text, chars[n + 1])))
    BY <1>2, <2>1, <2>3, NextAppends
  <2> QED BY <2>2, <2>3
<1>3. \A s \in S, i \in 1..N : Go(s, chars[i]) \in S
  BY NextScans
<1>4. text = g[N].text
  BY DEF Replace, Scan
<1> HIDE DEF S, N, Go, Good, none
<1>5. step \in [S \X (1..N) -> S] /\ \A s \in S, i \in 1..N : step[<<s, i>>] = Go(s, chars[i])
  BY <1>3
<1> HIDE DEF step
<1>6. g = Rec(g)
  <2>1. PICK f : Recurses(f, N, S, none, step)
    BY <1>1, <1>5, Recursion
  <2>2. f \in [0..N -> S] /\ f[0] = none /\ \A i \in 1..N : f[i] = step[<<f[i - 1], i>>]
    BY <2>1 DEF Recurses
  <2>3. \A i \in 1..N : f[i - 1] \in S
    BY <2>2, <1>1
  <2>4. \A i \in 1..N : f[i] = Go(f[i - 1], chars[i])
    BY <2>2, <2>3, <1>5
  <2>5. f = Rec(f)
    BY <2>2, <2>4, <1>1
  <2> HIDE DEF Rec
  <2> QED BY <2>5
<1> HIDE DEF g
<1>7. g[0] = none /\ \A i \in 1..N : g[i] = Go(g[i - 1], chars[i])
  BY <1>1, <1>6
<1> DEFINE T == {i \in 0..N : Good(g[i], i)}
<1>8. 0..N \subseteq T
  <2>1. 0 \in T
    BY <1>1, <1>7
  <2>2. ASSUME NEW i \in 0..(N - 1), i \in T PROVE i + 1 \in T
    <3>1. i + 1 \in 1..N /\ (i + 1) - 1 = i /\ i + 1 \in 0..N
      BY <1>1
    <3>2. g[i + 1] = Go(g[i], chars[i + 1])
      BY <1>7, <3>1
    <3>3. Good(Go(g[i], chars[i + 1]), i + 1)
      BY <1>2, <2>2
    <3> QED BY <3>1, <3>2, <3>3
  <2> HIDE DEF T
  <2> QED BY <1>1, <2>1, <2>2, Induction
<1>9. Good(g[N], N)
  BY <1>1, <1>8
<1> QED BY <1>4, <1>9 DEF Good, S, Scanning

LEMMA NeutralLacks ==
  ASSUME NEW A, Marks \subseteq A, NEW chars \in Seq(A)
  PROVE  /\ Neutral(chars) \in Seq(A)
         /\ \A x \in {"open", "close"} : Lacks(Neutral(chars), x)
<1> DEFINE once == Replace(chars, Sentinel("open"), Removed)
           twice == Replace(once, Sentinel("close"), Removed)
<1>1. Neutral(chars) = twice
  BY DEF Neutral, Sentinel, SENTINEL_OPEN, SENTINEL_CLOSE
<1>2. once \in Seq(A) /\ Lacks(once, "open")
  <2> HIDE DEF once
  <2>1. once = Replace(chars, Sentinel("open"), Removed)
    BY DEF once
  <2> QED BY <2>1, ReplaceRemoves
<1> HIDE DEF once
<1>3. twice \in Seq(A) /\ Lacks(twice, "close") /\ Lacks(twice, "open")
  <2>1. /\ twice \in Seq(A) /\ Lacks(twice, "close")
        /\ \A y \in {"open", "close"} : Lacks(once, y) => Lacks(twice, y)
    <3> HIDE DEF twice
    <3>1. twice = Replace(once, Sentinel("close"), Removed)
      BY DEF twice
    <3> QED BY <1>2, <3>1, ReplaceRemoves
  <2> QED BY <1>2, <2>1
<1> QED BY <1>1, <1>3

\* What a frame and the marker of a cut are made of.
Frames == {"nl", "truncated"}

LEMMA CappedLacks ==
  ASSUME NEW A, Marks \cup Frames \subseteq A, NEW chars \in Seq(A), NEW max \in Nat,
         \A x \in {"open", "close"} : Lacks(chars, x), NEW text, text = Capped(chars, max)
  PROVE  /\ text \in Seq(A) /\ Len(text) <= max + 2
         /\ \A x \in {"open", "close"} : Lacks(text, x)
<1>1. CASE Len(chars) <= max
  BY <1>1 DEF Capped
<1>2. CASE Len(chars) > max
  <2> DEFINE cut == SubSeq(chars, 1, max)
             joined == cut \o Marker
  <2>1. cut \in Seq(A) /\ Len(cut) = max /\ \A i \in 1..max : cut[i] = chars[i]
    <3>1. \A i \in 1..max : chars[i] \in A
      BY <1>2
    <3>2. max <= Len(chars) /\ (1 <= max => (max - 1) + 1 = max)
      BY <1>2
    <3> QED BY <3>1, <3>2, SubSeqProperties
  <2>2. Marker \in Seq(A) /\ Len(Marker) = 2 /\ Marker[1] = "nl" /\ Marker[2] = "truncated"
    BY DEF Marker, Newline, Frames
  <2> HIDE DEF cut
  <2>3. /\ joined \in Seq(A) /\ Len(joined) = Len(cut) + Len(Marker)
        /\ \A i \in 1..(Len(cut) + Len(Marker)) :
             joined[i] = IF i <= Len(cut) THEN cut[i] ELSE Marker[i - Len(cut)]
    BY <2>1, <2>2, ConcatProperties
  <2>4. text = joined
    BY <1>2 DEF Capped, cut
  <2> HIDE DEF joined
  <2>5. \A i \in 1..max : text[i] = chars[i]
    BY <2>1, <2>2, <2>3, <2>4
  <2>6. text[max + 1] = "nl" /\ text[max + 2] = "truncated" /\ Len(text) = max + 2
    <3>1. /\ (max + 1) - max = 1 /\ (max + 2) - max = 2 /\ max + 1 \in 1..(max + 2)
          /\ max + 2 \in 1..(max + 2) /\ ~(max + 1 <= max) /\ ~(max + 2 <= max)
      OBVIOUS
    <3> QED BY <2>1, <2>2, <2>3, <2>4, <3>1
  <2>7. ASSUME NEW x \in {"open", "close"}, NEW i \in 1..((max + 2) - 2) PROVE ~Here(text, i, x)
    <3>1. CASE i = max
      BY <2>6, <3>1 DEF Here
    <3>2. CASE i = max - 1
      BY <2>6, <3>2 DEF Here
    <3>3. CASE i <= max - 2
      <4>1. i \in 1..max /\ i + 1 \in 1..max /\ i + 2 \in 1..max /\ i \in 1..(Len(chars) - 2)
        BY <1>2, <3>3
      <4>2. ~Here(chars, i, x)
        BY <4>1 DEF Lacks
      <4> QED BY <2>5, <4>1, <4>2 DEF Here
    <3> QED BY <3>1, <3>2, <3>3
  <2> QED BY <2>3, <2>4, <2>6, <2>7 DEF Lacks
<1> QED BY <1>1, <1>2

LEMMA OccursHere ==
  ASSUME NEW A, Marks \subseteq A, NEW chars \in Seq(A), NEW x \in {"open", "close"},
         NEW at \in 1..(Len(chars) - 2)
  PROVE  Occurs(Sentinel(x), at, chars) <=> Here(chars, at, x)
<1> DEFINE part == SubSeq(chars, at, at + 2)
           s == Sentinel(x)
<1>1. s \in Seq(A) /\ Len(s) = 3 /\ s[1] = "<" /\ s[2] = x /\ s[3] = ">"
  BY DEF Sentinel, Marks
<1>2. Occurs(s, at, chars) <=> part = s
  <2>1. at + Len(s) - 1 = at + 2
    BY <1>1
  <2> HIDE DEF s
  <2> QED BY <2>1 DEF Occurs
<1>3. part \in Seq(A) /\ Len(part) = 3 /\ \A i \in 1..3 : part[i] = chars[at + i - 1]
  <2>1. \A i \in at..(at + 2) : chars[i] \in A
    OBVIOUS
  <2>2. at \in Int /\ at + 2 \in Int /\ at <= at + 2 /\ (at + 2) - at + 1 = 3
    OBVIOUS
  <2> QED BY <2>1, <2>2, SubSeqProperties
<1> HIDE DEF part, s
<1>4. part[1] = chars[at] /\ part[2] = chars[at + 1] /\ part[3] = chars[at + 2]
  <2>1. at + 1 - 1 = at /\ at + 2 - 1 = at + 1 /\ at + 3 - 1 = at + 2
    OBVIOUS
  <2>2. part[1] = chars[at + 1 - 1] /\ part[2] = chars[at + 2 - 1] /\ part[3] = chars[at + 3 - 1]
    BY <1>3
  <2> QED BY <2>1, <2>2
<1>5. ASSUME part[1] = s[1], part[2] = s[2], part[3] = s[3] PROVE part = s
  <2>1. \A i \in 1..3 : part[i] = s[i]
    BY <1>5
  <2> QED BY <1>1, <1>3, <2>1, SeqEqual
<1> QED BY <1>1, <1>2, <1>4, <1>5 DEF Here, s

\* A frame, character by character.
LEMMA FramedIs ==
  ASSUME NEW A, Marks \cup Frames \subseteq A, NEW text \in Seq(A)
  PROVE  LET p == Framed(text)
         IN /\ p \in Seq(A) /\ Len(text) \in Nat /\ Len(p) = Len(text) + 8
            /\ p[1] = "<" /\ p[2] = "open" /\ p[3] = ">" /\ p[4] = "nl"
            /\ \A i \in 1..Len(text) : p[4 + i] = text[i]
            /\ p[Len(text) + 5] = "nl" /\ p[Len(text) + 6] = "<"
            /\ p[Len(text) + 7] = "close" /\ p[Len(text) + 8] = ">"
<1> DEFINE p == Framed(text)
           L == Len(text)
           open == SENTINEL_OPEN \o Newline
           a == open \o text
           b == a \o Newline
<1>1. L \in Nat
  OBVIOUS
<1>2. /\ open \in Seq(A) /\ Len(open) = 4 /\ open[1] = "<" /\ open[2] = "open"
      /\ open[3] = ">" /\ open[4] = "nl"
  BY DEF SENTINEL_OPEN, Newline, Marks, Frames
<1>3. /\ SENTINEL_CLOSE \in Seq(A) /\ Len(SENTINEL_CLOSE) = 3 /\ SENTINEL_CLOSE[1] = "<"
      /\ SENTINEL_CLOSE[2] = "close" /\ SENTINEL_CLOSE[3] = ">"
      /\ Newline \in Seq(A) /\ Len(Newline) = 1 /\ Newline[1] = "nl"
  BY DEF SENTINEL_CLOSE, Newline, Marks, Frames
<1>4. p = b \o SENTINEL_CLOSE
  BY DEF Framed
<1> HIDE DEF L, open, p
<1>5. /\ a \in Seq(A) /\ Len(a) = 4 + L
      /\ \A i \in 1..4 : a[i] = open[i]
      /\ \A i \in 1..L : a[4 + i] = text[i]
  <2>3. open \in Seq(A)
    BY <1>2
  <2>1. /\ a \in Seq(A) /\ Len(a) = Len(open) + Len(text)
        /\ \A i \in 1..Len(open) : a[i] = open[i]
        /\ \A i \in 1..Len(text) : a[Len(open) + i] = text[i]
    BY <2>3, JoinedAt
  <2> QED BY <1>2, <2>1 DEF L
<1> HIDE DEF a
<1>6. /\ b \in Seq(A) /\ Len(b) = (4 + L) + 1
      /\ \A i \in 1..(4 + L) : b[i] = a[i]
      /\ b[(4 + L) + 1] = "nl"
  <2>3. a \in Seq(A) /\ Newline \in Seq(A)
    BY <1>3, <1>5
  <2>1. /\ b \in Seq(A) /\ Len(b) = Len(a) + Len(Newline)
        /\ \A i \in 1..Len(a) : b[i] = a[i]
        /\ \A i \in 1..Len(Newline) : b[Len(a) + i] = Newline[i]
    BY <2>3, JoinedAt
  <2> HIDE DEF b
  <2>2. b[(4 + L) + 1] = Newline[1]
    BY <1>3, <1>5, <2>1
  <2> QED BY <1>3, <1>5, <2>1, <2>2
<1> HIDE DEF b
<1>7. /\ p \in Seq(A) /\ Len(p) = (5 + L) + 3
      /\ \A i \in 1..(5 + L) : p[i] = b[i]
      /\ \A i \in 1..3 : p[(5 + L) + i] = SENTINEL_CLOSE[i]
  <2>1. Len(b) = 5 + L
    BY <1>1, <1>6
  <2>3. b \in Seq(A) /\ SENTINEL_CLOSE \in Seq(A)
    BY <1>3, <1>6
  <2>2. /\ p \in Seq(A) /\ Len(p) = Len(b) + Len(SENTINEL_CLOSE)
        /\ \A i \in 1..Len(b) : p[i] = b[i]
        /\ \A i \in 1..Len(SENTINEL_CLOSE) : p[Len(b) + i] = SENTINEL_CLOSE[i]
    BY <1>4, <2>3, JoinedAt
  <2> QED BY <1>3, <2>1, <2>2
<1>8. \A i \in 1..4 : p[i] = open[i]
  BY <1>1, <1>5, <1>6, <1>7
<1>9. \A i \in 1..L : p[4 + i] = text[i]
  <2> SUFFICES ASSUME NEW i \in 1..L PROVE p[4 + i] = text[i]
    OBVIOUS
  <2>1. 4 + i \in 1..(5 + L) /\ 4 + i \in 1..(4 + L)
    BY <1>1
  <2> QED BY <1>5, <1>6, <1>7, <2>1
<1>10. p[L + 5] = "nl"
  <2>1. L + 5 \in 1..(5 + L) /\ (4 + L) + 1 = L + 5
    BY <1>1
  <2> QED BY <1>6, <1>7, <2>1
<1>11. /\ p[L + 6] = "<" /\ p[L + 7] = "close" /\ p[L + 8] = ">"
  <2>1. (5 + L) + 1 = L + 6 /\ (5 + L) + 2 = L + 7 /\ (5 + L) + 3 = L + 8
    BY <1>1
  <2>2. /\ p[(5 + L) + 1] = "<" /\ p[(5 + L) + 2] = "close" /\ p[(5 + L) + 3] = ">"
    BY <1>3, <1>7
  <2> QED BY <2>1, <2>2
<1>12. Len(p) = L + 8
  BY <1>1, <1>7
<1> QED BY <1>2, <1>7, <1>8, <1>9, <1>10, <1>11, <1>12 DEF L, p

\* A text without sentinels in a frame: those of the frame, and no other.
LEMMA FrameHolds ==
  ASSUME NEW A, Marks \cup Frames \subseteq A, NEW text \in Seq(A),
         \A x \in {"open", "close"} : Lacks(text, x), NEW p, p = Framed(text),
         NEW at \in 1..(Len(p) - 2)
  PROVE  /\ Here(p, at, "open") <=> at = 1
         /\ Here(p, at, "close") <=> at = Len(p) - 2
<1> DEFINE L == Len(text)
<1>1. /\ L \in Nat /\ Len(p) = L + 8 /\ p[1] = "<" /\ p[2] = "open" /\ p[3] = ">"
      /\ p[4] = "nl" /\ p[L + 5] = "nl" /\ p[L + 6] = "<" /\ p[L + 7] = "close"
      /\ p[L + 8] = ">"
  BY FramedIs
<1>2. \A i \in 1..L : p[4 + i] = text[i]
  BY FramedIs
<1> HIDE DEF L
<1>3. CASE at = 1
  BY <1>1, <1>3 DEF Here
<1>4. CASE at \in {2, 3, 4}
  BY <1>1, <1>4 DEF Here
<1>5. CASE at \in {L + 3, L + 4, L + 5}
  BY <1>1, <1>5 DEF Here
<1>6. CASE at = L + 6
  <2>1. at + 1 = L + 7 /\ at + 2 = L + 8 /\ at # 1 /\ at = Len(p) - 2
    BY <1>1, <1>6
  <2> QED BY <1>1, <1>6, <2>1 DEF Here
<1>7. CASE at \in 5..(L + 2)
  <2>1. PICK i \in 1..(L - 2) : at = 4 + i
    <3>1. at - 4 \in 1..(L - 2) /\ at = 4 + (at - 4)
      BY <1>1, <1>7
    <3> QED BY <3>1
  <2>2. /\ i \in 1..L /\ i + 1 \in 1..L /\ i + 2 \in 1..L
        /\ at + 1 = 4 + (i + 1) /\ at + 2 = 4 + (i + 2)
    BY <1>1, <2>1
  <2>3. p[at] = text[i] /\ p[at + 1] = text[i + 1] /\ p[at + 2] = text[i + 2]
    BY <1>2, <2>1, <2>2
  <2>4. ~Here(text, i, "open") /\ ~Here(text, i, "close")
    BY <2>1 DEF Lacks, L
  <2>5. ~Here(p, at, "open") /\ ~Here(p, at, "close")
    BY <2>3, <2>4 DEF Here
  <2>6. at # 1 /\ at # Len(p) - 2
    BY <1>1, <1>7
  <2> QED BY <2>5, <2>6
<1> QED BY <1>1, <1>3, <1>4, <1>5, <1>6, <1>7

\* What no prompt may hold.
Bad == _INVISIBLE \cup _CONTROL

\* The text of a payload, cleaned or escaped, has no bad character.
LEMMA TextIsClean ==
  ASSUME NEW v \in Payloads
  PROVE  \E A : /\ Marks \cup Frames \subseteq A /\ A \cap Bad = {}
               /\ (IF v.kind = "str" THEN Sanitised(v) ELSE Repr(Sanitised(v))) \in Seq(A)
<1> DEFINE B == ToSet(v.chars) \cup Marks \cup Frames \cup {"quote", "escape"}
           A == B \ Bad
<1>1. v.chars \in Seq(B)
  <2>1. v.chars \in Seq(ToSet(v.chars)) /\ ToSet(v.chars) \subseteq B
    BY CrawlAssumption DEF CrawlAssumption
  <2> HIDE DEF B
  <2> QED BY <2>1, SeqMonotonic
<1>2. Marks \cup Frames \cup {"quote", "escape"} \subseteq A /\ A \cap Bad = {}
  BY DEF Marks, Frames, Bad, _INVISIBLE, _CONTROL
<1>3. CASE v.kind = "str"
  <2> HIDE DEF B
  <2>1. Without(v.chars, _INVISIBLE) \in Seq(B \ _INVISIBLE)
    BY <1>1, WithoutKeeps
  <2>2. Without(Without(v.chars, _INVISIBLE), _CONTROL) \in Seq((B \ _INVISIBLE) \ _CONTROL)
    BY <2>1, WithoutKeeps
  <2>3. (B \ _INVISIBLE) \ _CONTROL = A
    BY DEF Bad
  <2>4. Sanitised(v) \in Seq(A)
    BY <1>3, <2>2, <2>3 DEF Sanitised
  <2> QED BY <1>2, <1>3, <2>4
<1>4. CASE v.kind # "str"
  <2> DEFINE chars == v.chars
             escaped == [i \in DOMAIN chars |->
                           IF chars[i] \in _INVISIBLE \cup _CONTROL THEN "escape" ELSE chars[i]]
             quote == <<"quote">>
  <2>1. Sanitised(v) = chars
    BY <1>4 DEF Sanitised
  <2>2. escaped \in Seq(A)
    <3>1. Len(chars) \in Nat /\ DOMAIN chars = 1..Len(chars)
          /\ \A i \in 1..Len(chars) : chars[i] \in B
      BY <1>1
    <3> HIDE DEF chars
    <3>2. \A i \in 1..Len(chars) : escaped[i] \in A
      BY <1>2, <3>1 DEF Bad
    <3>3. escaped \in [1..Len(chars) -> A]
      BY <3>1, <3>2
    <3> QED BY <3>1, <3>3, IsSeqOf
  <2>3. Repr(chars) = (quote \o escaped) \o quote
    BY DEF Repr
  <2>4. quote \in Seq(A)
    BY <1>2
  <2> HIDE DEF escaped, quote, chars, A
  <2>5. Repr(chars) \in Seq(A)
    BY <2>2, <2>3, <2>4
  <2> QED BY <1>2, <1>4, <2>1, <2>5
<1> QED BY <1>3, <1>4

\* A finished prompt was made of a payload.
Made == phase = "done" => \E v \in Payloads : prompt = ForModel(v, MaxChars)

LEMMA MadeStep == Made /\ [Next]_vars => Made'
<1> SUFFICES ASSUME Made, [Next]_vars PROVE Made'
  OBVIOUS
<1>1. CASE Extract
  BY <1>1 DEF Extract, Made
<1>2. CASE UNCHANGED vars
  BY <1>2 DEF vars, Made
<1>3. CASE GetRobots \/ Decide \/ GetSitemap \/ Resolve \/ Redirected \/ Fetched \/ Lost
  <2>1. phase' # "done"
    BY <1>3 DEF GetRobots, Decide, GetSitemap, Resolve, Redirected, Fetched, Lost
  <2> QED BY <2>1 DEF Made
<1> QED BY <1>1, <1>2, <1>3 DEF Next

-----------------------------------------------------------------------------

\* A page is asked for, and an issue reported, only as the robots.txt that was
\* read says.
THEOREM Respected == Spec => []RobotsRespected
<1>1. Init => Asked
  BY DEF Init, Asked
<1>2. Asked => RobotsRespected
  BY DEF Asked, Allowed, RobotsRespected
<1> QED
  BY <1>1, AskedStep, <1>2, PTL DEF Spec

\* No hop ever connects to an internal address, through whichever spelling or
\* resolver answer; a number is the one inet_aton reads; a name with one internal
\* answer is not connected to at all.
THEOREM Permitted == Spec => []ConnectsToPermitted
<1>1. Init => Pinned /\ Aimed
  BY DEF Init, Pinned, Aimed
<1>2. Pinned /\ Aimed => ConnectsToPermitted
  <2>1. SUFFICES ASSUME Pinned, Aimed, phase = "connect"
                 PROVE  ~Internal(dest) /\ NameAsAWhole /\ NumberAsWritten
    BY DEF ConnectsToPermitted
  <2>2. ~Internal(dest) /\ NameAsAWhole
    BY <2>1, ValidatedPasses, ClassifiedIsExternal DEF Pinned, NameAsAWhole
  <2>3. ASSUME target.host.kind = "numeric",
               CanonicaliseNumericHost(target.host.fields) # {},
               ~BareOctal(target.host.fields)
        PROVE  ReadsAs(target.host.fields, dest[2])
    <3>1. Literal(target.host) = {<<4, n>> : n \in CanonicaliseNumericHost(target.host.fields)}
      BY <2>3 DEF Literal
    <3>2. dest \in Literal(target.host)
      BY <2>1, <2>3, <3>1 DEF Pinned, ValidateDestination
    <3>3. dest[2] \in CanonicaliseNumericHost(target.host.fields)
      BY <3>1, <3>2
    <3>4. Fielded(target.host.fields)
      BY <2>1, <2>3, CrawlAssumption DEF Aimed, CrawlAssumption
    <3> QED BY <2>3, <3>3, <3>4, CanonicalReads
  <2> QED BY <2>2, <2>3 DEF NumberAsWritten
<1> QED BY <1>1, PinnedStep, AimedStep, <1>2, PTL DEF Spec

\* Whatever text of whatever length is extracted from a page, and wherever it is
\* cut: it stays in the frame of the prompt, clean and bounded.
THEOREM Framing == Spec => []PromptKeepsFrame
<1>1. Init => Made
  BY DEF Init, Made
<1>2. Made => PromptKeepsFrame
  <2> SUFFICES ASSUME Made, phase = "done" PROVE PromptKeepsFrame
    BY DEF PromptKeepsFrame
  <2>1. PICK v \in Payloads : prompt = ForModel(v, MaxChars)
    BY DEF Made
  <2> DEFINE text == IF v.kind = "str" THEN Sanitised(v) ELSE Repr(Sanitised(v))
             capped == Capped(Neutral(text), MaxChars)
             end == Len(prompt) - 2
  <2>2. PICK A : Marks \cup Frames \subseteq A /\ A \cap Bad = {} /\ text \in Seq(A)
    BY TextIsClean
  <2>3. prompt = Framed(capped)
    BY <2>1 DEF ForModel
  <2> HIDE DEF text
  <2>4. Neutral(text) \in Seq(A) /\ \A x \in {"open", "close"} : Lacks(Neutral(text), x)
    BY <2>2, NeutralLacks
  <2>5. MaxChars \in Nat
    BY CrawlAssumption DEF CrawlAssumption
  <2>6. /\ capped \in Seq(A) /\ Len(capped) <= MaxChars + 2
        /\ \A x \in {"open", "close"} : Lacks(capped, x)
    BY <2>2, <2>4, <2>5, CappedLacks
  <2> HIDE DEF capped
  <2>7. prompt \in Seq(A) /\ Len(capped) \in Nat /\ Len(prompt) = Len(capped) + 8
    BY <2>2, <2>3, <2>6, FramedIs
  <2>8. ASSUME NEW at \in 1..end
        PROVE  /\ Occurs(SENTINEL_OPEN, at, prompt) <=> at = 1
               /\ Occurs(SENTINEL_CLOSE, at, prompt) <=> at = end
    <3>1. /\ Occurs(Sentinel("open"), at, prompt) <=> Here(prompt, at, "open")
          /\ Occurs(Sentinel("close"), at, prompt) <=> Here(prompt, at, "close")
      BY <2>2, <2>7, OccursHere
    <3>2. /\ Here(prompt, at, "open") <=> at = 1
          /\ Here(prompt, at, "close") <=> at = end
      BY <2>2, <2>3, <2>6, FrameHolds
    <3> QED BY <3>1, <3>2 DEF Sentinel, SENTINEL_OPEN, SENTINEL_CLOSE
  <2>9. ToSet(prompt) \cap Bad = {}
    BY <2>2, <2>7 DEF ToSet
  <2>10. Len(prompt) <= Len(Framed(Marker)) + MaxChars
    <3>1. Marker \in Seq(A) /\ Len(Marker) = 2
      BY <2>2 DEF Marker, Newline, Frames
    <3>2. Len(Framed(Marker)) = Len(Marker) + 8
      <4>1. Marker \in Seq(A) /\ Marks \cup Frames \subseteq A
        BY <2>2, <3>1
      <4> QED BY <4>1, FramedIs
    <3> QED BY <2>5, <2>6, <2>7, <3>1, <3>2
  <2> QED BY <2>8, <2>9, <2>10 DEF PromptKeepsFrame, Bad
<1> QED BY <1>1, MadeStep, <1>2, PTL DEF Spec
=============================================================================
