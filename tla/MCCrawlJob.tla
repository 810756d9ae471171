----------------------------- MODULE MCCrawlJob -----------------------------
(***************************************************************************)
(* Octets run to 3, so that IPv4 has 256 addresses; 2.0.0.0/8 is internal. *)
(* Every kind of host and spelling is a redirect target, every status with *)
(* and without rules a robots.txt, every short text a page.                *)
(***************************************************************************)
EXTENDS CrawlJob

CONSTANTS MaxText

MCBlockedV4 == 128..191
MCNotGlobalV4 == {0, 255}

Named == [kind |-> "name"]
Numeric(fields) == [kind |-> "numeric", fields |-> fields]
At(ip) == [kind |-> "literal", ip |-> ip]
Dec(digits) == [prefix |-> "", digits |-> digits]
Oct(digits) == [prefix |-> "0", digits |-> digits]
Hex(digits) == [prefix |-> "0x", digits |-> digits]

NumericHosts == {
  Numeric(<<Dec(<<1, 3, 0>>)>>),                                  \* 130: 2.0.0.2
  Numeric(<<Dec(<<2, 5, 6>>)>>),                                  \* too large
  Numeric(<<Oct(<<1, 3, 0>>)>>),                                  \* 0130: decimal
  Numeric(<<Hex(<<4, 1>>)>>),                                     \* 0x41: 1.0.0.1
  Numeric(<<Hex(<<>>)>>),                                         \* 0x
  Numeric(<<Dec(<<2>>), Dec(<<1>>)>>),                            \* 2.1: 2.0.0.1
  Numeric(<<Dec(<<1>>), Dec(<<6, 3>>)>>),                         \* 1.63: 1.3.3.3
  Numeric(<<Dec(<<1>>), Dec(<<6, 4>>)>>),                         \* too large
  Numeric(<<Oct(<<2>>), Dec(<<0>>), Oct(<<1, 7>>)>>),             \* 02.0.017: 2.0.3.3
  Numeric(<<Dec(<<1>>), Oct(<<8>>), Dec(<<0>>)>>),                \* 08 is no octal
  Numeric(<<Dec(<<1>>), Hex(<<3>>), Oct(<<2>>), Dec(<<0>>)>>),    \* 1.0x3.02.0
  Numeric(<<Dec(<<1>>), Dec(<<4>>), Dec(<<0>>), Dec(<<0>>)>>),    \* too large
  Numeric([i \in 1..5 |-> Dec(<<1>>)])}                           \* five fields

\* "unnamed" is a range that only the standard library knows, such as the
\* NAT64 prefix for local use.
MCNotGlobalForms == {"unnamed"}
Embedding == {"mapped", "sixtofour", "nat64", "compatible"}
V6 == {<<6, form, {n}>> : form \in Embedding, n \in {65, 130}}
      \cup {<<6, "teredo", embedded>> : embedded \in {{65}, {130}, {65, 130}}}
      \cup {<<6, form, {}>> : form \in {"global", "local", "loopback", "unnamed"}}
Literals == {At(ip) : ip \in V6 \cup {<<4, 65>>, <<4, 130>>, <<4, 255>>}}

Web(host) == [scheme |-> "https", host |-> host]
MCSite == Web(Named)
MCTargets == {Web(h) : h \in NumericHosts \cup Literals
                             \cup {Named, [kind |-> "metadata"], [kind |-> "blank"]}}
             \cup {[scheme |-> "ftp", host |-> Named]}

MCAnswers ==
  LET ips == {<<4, 65>>, <<4, 130>>, <<6, "global", {}>>,
             <<6, "mapped", {130}>>, Garbled}
  IN {<<>>} \cup {<<a>> : a \in ips} \cup (ips \X ips)

Bodies == {NoBody} \cup
  [NeptiqBot : {{}, {"p"}}, Googlebot : {{}, {"p"}}, sitemaps : {{MCSite}}]
MCDocuments == [status : {NoStatus, 200, 204, 301, 404, 503}, body : Bodies]

Letters == {"<", "open", "close", ">", "zwsp", "nul"}
MCPayloads == [kind : {"str", "other"}, chars : BoundedSeq(Letters, MaxText)]
=============================================================================
