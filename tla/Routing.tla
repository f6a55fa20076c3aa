------------------------------ MODULE Routing ------------------------------
(***************************************************************************)
(* From a client's filter to the route its traffic takes: the sources of a *)
(* filter are resolved to matchers (internal/domainlist), the matchers     *)
(* become an ordered list of routing rules (internal/xraygen), and xray    *)
(* takes the first rule that matches.                                      *)
(*                                                                         *)
(* A matcher stands for its kind: "plain" for a bare, domain:, full:,      *)
(* keyword: or regexp: domain, "geosite" for geosite: (a domain list in    *)
(* geosite.dat), "country" for geoip:CODE (addresses in geoip.dat),        *)
(* "private" for geoip:private.  "nosite" and "nocountry" name what the    *)
(* published file does not have (geosite:ru), "invalid" is a regexp: that  *)
(* does not compile.  ext: names a data file of the operator's own, which  *)
(* nothing in the program changes: it is "plain" where xray can read it,   *)
(* "invalid" where not, and nothing where it is not there.  In a list,     *)
(* "nested" is a line that names another list, "comment" one that is none. *)
(* Within a rule the order of matchers does not matter, so they are sets;  *)
(* the order of rules does.                                                *)
(***************************************************************************)
EXTENDS Integers, Sequences, FiniteSetsExt

Token == {"plain", "invalid", "geosite", "nosite", "country", "nocountry", "private"}
Unknown == {"invalid", "nosite", "nocountry"} \* what xray can make nothing of
ListRef == {"file", "url"}             \* customRef, urlRef
Source == Token \cup ListRef
Line == Token \cup {"nested", "comment"}
Asset == {"geosite", "geoip"}          \* geosite.dat, geoip.dat
NoAsset == "none"

Mode == {"off", "blacklist", "whitelist"}
Filtering(mode) == mode \in {"blacklist", "whitelist"}
Policy == [mode : Mode, domains : SUBSET Source]

FiltersDomains(policy) == Filtering(policy.mode) /\ policy.domains # {}

\* A loop of appends: what each turn adds, one after the other.  (A recursive
\* function, for the proofs' sake; FlattenSeq folds an operator.)
Appended(turns) ==
  LET after[i \in 0..Len(turns)] == IF i = 0 THEN <<>> ELSE after[i - 1] \o turns[i]
  IN  after[Len(turns)]

\* A turn that adds an element or nothing.
When(condition, e) == IF condition THEN <<e>> ELSE <<>>

---------------------------------------------------------------------------
(* domainlist: Resolve.  lists[l] holds the lines of a list that can be    *)
(* read; assets is the set of data files that are present and not empty.   *)

datAsset(tok) ==
  CASE tok \in {"geosite", "nosite"} -> "geosite"
    [] tok \in {"country", "nocountry"} -> "geoip"
    [] OTHER -> NoAsset

\* Wrong: the presence of the data file is not checked.
classifyAny(tok, assets) == {tok} \cap Token

\* The matchers a token contributes: none when it is a reference inside a
\* list, or needs a data file that is not there.
classify(tok, assets) ==
  IF tok \in Token /\ datAsset(tok) \in assets \cup {NoAsset} THEN {tok} ELSE {}

\* The lines of a source: itself, or those of the list it names.
readList(source, lists) ==
  IF source \notin ListRef THEN {source}
  ELSE IF source \in DOMAIN lists THEN lists[source] ELSE {}

Resolve(sources, lists, assets) ==
  UNION {classify(tok, assets) : tok \in UNION {readList(s, lists) : s \in sources}}

Domains(tokens) == tokens \cap {"plain", "invalid", "geosite", "nosite"}
IPs(tokens) == tokens \cap {"country", "nocountry", "private"}

---------------------------------------------------------------------------
(* xraygen: Generate.  Rules of an empty user scope are everyone's.        *)

rule(user, kind, of, to) == [user |-> user, kind |-> kind, of |-> of, to |-> to]

\* Wrong: a whitelist's catch-all comes before what it allows.
userDomainRulesCatchFirst(u) ==
  IF Domains(u.tokens) = {} /\ IPs(u.tokens) = {} THEN <<>>
  ELSE LET to == IF u.mode = "blacklist" THEN "block" ELSE "direct" IN
       When(u.mode = "whitelist", rule({u.email}, "network", {}, "block"))
       \o When(Domains(u.tokens) # {}, rule({u.email}, "domain", Domains(u.tokens), to))
       \o When(IPs(u.tokens) # {}, rule({u.email}, "ip", IPs(u.tokens), to))
\* Wrong: the catch-all is not scoped to its user.
userDomainRulesUnscoped(u) ==
  IF Domains(u.tokens) = {} /\ IPs(u.tokens) = {} THEN <<>>
  ELSE LET to == IF u.mode = "blacklist" THEN "block" ELSE "direct" IN
       When(Domains(u.tokens) # {}, rule({u.email}, "domain", Domains(u.tokens), to))
       \o When(IPs(u.tokens) # {}, rule({u.email}, "ip", IPs(u.tokens), to))
       \o When(u.mode = "whitelist", rule({}, "network", {}, "block"))

\* One user's filter, resolved to matchers.
userDomainRules(u) ==
  IF Domains(u.tokens) = {} /\ IPs(u.tokens) = {} THEN <<>>
  ELSE LET to == IF u.mode = "blacklist" THEN "block" ELSE "direct" IN
       When(Domains(u.tokens) # {}, rule({u.email}, "domain", Domains(u.tokens), to))
       \o When(IPs(u.tokens) # {}, rule({u.email}, "ip", IPs(u.tokens), to))
       \o When(u.mode = "whitelist", rule({u.email}, "network", {}, "block"))

\* users: the resolved filters, in the order of the clients.
Rules(blockBittorrent, blockPrivate, users) ==
  When(blockBittorrent, rule({}, "bittorrent", {}, "block"))
  \o When(blockPrivate, rule({}, "ip", {"private"}, "block"))
  \o Appended([i \in DOMAIN users |-> userDomainRules(users[i])])

\* node.go userDomainPolicies: a client whose filter is off, empty, or does
\* not resolve to a matcher has no policy.
policyOf(cl, lists, assets) ==
  [email |-> cl.uuid, mode |-> cl.mode,
   tokens |-> IF FiltersDomains(cl) THEN Resolve(cl.domains, lists, assets) ELSE {}]
userDomainPolicies(clients, lists, assets) ==
  LET policy(i) == policyOf(clients[i], lists, assets)
  IN  Appended([i \in DOMAIN clients |-> When(policy(i).tokens # {}, policy(i))])

needsIPResolve(tokens) == tokens \cap {"country", "nocountry"} # {}

Generate(c, users) ==
  [rules |-> Rules(c.blockBittorrent, c.blockPrivate, users),
   resolve |-> \E i \in DOMAIN users : needsIPResolve(users[i].tokens)]

---------------------------------------------------------------------------
(* xray's router.  A connection is to a domain, on some domain lists, or   *)
(* to an address; net is where the address is, or the domain's once it is  *)
(* resolved.  The router first tries every rule on what the connection     *)
(* names; only if none matches, and the strategy is IPIfNonMatch, does it  *)
(* resolve a domain and try the rules again.                               *)

Net == {"private", "country", "elsewhere"}
Connection ==
  [by : {"domain"}, names : SUBSET {"plain", "geosite"}, net : Net, bittorrent : BOOLEAN]
  \cup [by : {"ip"}, names : {{}}, net : Net, bittorrent : BOOLEAN]

Matches(r, user, conn, resolved) ==
  /\ r.user = {} \/ user \in r.user
  /\ \/ r.kind = "bittorrent" /\ conn.bittorrent
     \/ r.kind = "domain" /\ conn.names \cap r.of # {}
     \/ r.kind = "ip" /\ (conn.by = "ip" \/ resolved) /\ conn.net \in r.of
     \/ r.kind = "network"

\* The first rule that matches says where to; "pass" if none does.
FirstTo(rules, user, conn, resolved) ==
  LET hits == {i \in DOMAIN rules : Matches(rules[i], user, conn, resolved)}
  IN  IF hits = {} THEN "pass" ELSE rules[Min(hits)].to

Route(x, user, conn) ==
  LET first == FirstTo(x.rules, user, conn, FALSE)
      second == FirstTo(x.rules, user, conn, TRUE)
  IN  IF first # "pass" THEN first
      ELSE IF x.resolve /\ second # "pass" THEN second
      ELSE "direct"

---------------------------------------------------------------------------
(* What a filter means, apart from rules and their order.                  *)

\* A resolved filter lists a connection: by its domain, by its address, or,
\* when domains are resolved, by the address of its domain.
Listed(tokens, conn, resolve) ==
  \/ conn.names \cap tokens # {}
  \/ (conn.by = "ip" \/ resolve) /\ conn.net \in tokens

Meaning(mode, tokens, conn, resolve) ==
  IF ~Filtering(mode) \/ tokens = {} THEN "direct"
  ELSE IF Listed(tokens, conn, resolve) = (mode = "blacklist") THEN "block" ELSE "direct"

============================================================================
