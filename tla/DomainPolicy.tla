---------------------------- MODULE DomainPolicy ----------------------------
(***************************************************************************)
(* Per-user filters over time: the operator's `link add`, `link edit`,     *)
(* `link remove`, `update` and setup's default filter; the data files and  *)
(* remote lists those commands download; and the node, which resolves the  *)
(* filters once, when it starts xray (inputFromConfig in node.go).  What a *)
(* filter becomes is Routing's.                                            *)
(*                                                                         *)
(* One operator at a time edits the configuration (ConfigStore has the     *)
(* races of two).  A download replaces its file by a rename, so a node     *)
(* that starts meanwhile reads the old file or the new; the temporary file *)
(* is read by nobody and left out.                                         *)
(***************************************************************************)
EXTENDS Routing, FiniteSets

CONSTANTS
  Client,     \* UUIDs
  Entries,    \* the source lists the operator enters, some of SUBSET Source
  FileLines,  \* the lines of the operator's custom list
  Blocks,     \* the global blocks of the configuration: bittorrent, private ranges
  Bodies,     \* the lines of what the remote list's URL may serve
  Defaults,   \* the filters for new users the operator chooses from
  MaxCommands \* bound: commands given to the REPL

ASSUME InputAssumption ==
  /\ Client # {} /\ {} \in Entries /\ Entries \subseteq SUBSET Source
  /\ FileLines \subseteq Line /\ Bodies \subseteq SUBSET Line
  /\ Defaults \subseteq Policy /\ MaxCommands \in Nat
  /\ Blocks \subseteq [blockBittorrent : BOOLEAN, blockPrivate : BOOLEAN]

VARIABLES
  config,    \* clients in order, and the two global blocks
  defaults,  \* DefaultDomainMode, DefaultDomains
  assets,    \* data files: "missing" (or empty), "good" (as published), "bad"
  lists,     \* the lines of each list that is there
  commands,  \* given to the REPL so far
  draft,     \* the REPL's copy of the clients, and the one it edits
  node,      \* "down", "running", "failed" (xray refused the configuration)
  x,         \* the routing xray runs with
  \* history, read by the properties only
  users,     \* the filters it was generated from
  unverified \* data files not as published, installed with no digest to compare

diskVars == <<assets, lists, unverified>>
nodeVars == <<node, x, users>>
vars == <<config, defaults, assets, lists, commands, draft, node, x, users, unverified>>

ClientRow == [uuid : Client, mode : Mode, domains : SUBSET Source]
NoDraft == [clients |-> <<>>, idx |-> 0]
NoRouting == [rules |-> <<>>, resolve |-> FALSE]

Init ==
  /\ \E b \in Blocks : config = [clients |-> <<>>, blockBittorrent |-> b.blockBittorrent,
                                 blockPrivate |-> b.blockPrivate]
  /\ defaults = [mode |-> "off", domains |-> {}]
  /\ assets = [a \in Asset |-> "missing"]
  /\ lists = [l \in {"file"} |-> FileLines]
  /\ commands = 0 /\ draft = NoDraft
  /\ node = "down" /\ x = NoRouting /\ users = <<>>
  /\ unverified = {}

---------------------------------------------------------------------------
(* The node's start: setXrayAssetDir, inputFromConfig, Generate, xray.     *)

\* A disk is a record of assets, lists and unverified.
Disk == [assets |-> assets, lists |-> lists, unverified |-> unverified]
SetDisk(d) == assets' = d.assets /\ lists' = d.lists /\ unverified' = d.unverified

Present(d) == {a \in Asset : d.assets[a] # "missing"}

\* xray compiles its rules and opens the data files they name: it refuses
\* all of them over one matcher it does not know, or whose file is no good.
Refuses(policies, d) ==
  \E i \in DOMAIN policies : \E tok \in policies[i].tokens :
    tok \in Unknown \/ (datAsset(tok) # NoAsset /\ d.assets[datAsset(tok)] # "good")

Starts(c, d) ==
  LET policies == userDomainPolicies(c.clients, d.lists, Present(d)) IN
  IF Refuses(policies, d)
  THEN node' = "failed" /\ x' = NoRouting /\ users' = <<>>
  ELSE node' = "running" /\ x' = Generate(c, policies) /\ users' = policies

Start ==
  /\ node # "running"
  /\ Starts(config, Disk)
  /\ UNCHANGED <<commands, config, defaults, draft, diskVars>>

Stop ==
  /\ node = "running"
  /\ node' = "down" /\ x' = NoRouting /\ users' = <<>>
  /\ UNCHANGED <<commands, config, defaults, draft, diskVars>>

\* saveAndReload.  A restart that fails is told of and no error: a node that
\* is down stays so.  (One that ran on with the old filters is ConfigStore's
\* subject; here Update leaves old filters in force the same way.)
SaveAndReload(clients) ==
  /\ config' = [config EXCEPT !.clients = clients]
  /\ Starts(config', Disk) \/ (node # "running" /\ UNCHANGED nodeVars)

---------------------------------------------------------------------------
(* Downloads: what each may make of a disk.                                *)

\* A body takes the place of the data file; want says whether the digest
\* published with the file could be had.
Installed(d, a, want, body) ==
  [d EXCEPT !.assets[a] = body,
            !.unverified = IF want \/ body = "good" THEN @ \ {a} ELSE @ \cup {a}]

\* geodata.Download, with a body that came in full: only the published file
\* has the published digest.
Download(d, a, want, body) ==
  IF want /\ body # "good" THEN d ELSE Installed(d, a, want, body)

\* offerGeodataDownload: it is declined, or fails, or gets some body, the
\* published file, another or none at all.  (refreshGeodata's question whether
\* there is a newer file is one more way to download nothing.)
Downloads(d, a) ==
  {d} \cup {Download(d, a, want, body) : want \in BOOLEAN, body \in {"missing", "good", "bad"}}

\* fetchRemoteList, with an answer: a blank one keeps the cached copy.
Fetch(d, source, body) ==
  IF body = {} THEN d
  ELSE [d EXCEPT !.lists = [l \in DOMAIN @ \cup {source} |-> IF l = source THEN body ELSE @[l]]]

\* So does one that failed.
Fetches(d, source) == {d} \cup {Fetch(d, source, body) : body \in Bodies \cup {{}}}

NeededBy(a, sources) == \E tok \in sources \cap Token : datAsset(tok) = a

\* What runs for each element of a set of disks, in turn.
Each(disks, F(_)) == UNION {F(d) : d \in disks}

\* ensureGeodataForSources and ensureRemoteLists: what is missing.
Ensured(sources) ==
  LET asset(d, a) == IF NeededBy(a, sources) /\ d.assets[a] = "missing" THEN Downloads(d, a) ELSE {d}
      list(d) == IF "url" \in sources \ DOMAIN d.lists THEN Fetches(d, "url") ELSE {d}
  IN Each(Each(asset(Disk, "geosite"), LAMBDA d : asset(d, "geoip")), list)

\* updateGeodata: every file in use, the new users' default included, is
\* installed or brought up to date, every remote list fetched again.
SourcesInConfig ==
  defaults.domains \cup UNION {config.clients[i].domains : i \in DOMAIN config.clients}

Refreshed ==
  LET asset(d, a) == IF NeededBy(a, SourcesInConfig) THEN Downloads(d, a) ELSE {d}
      list(d) == IF "url" \in SourcesInConfig THEN Fetches(d, "url") ELSE {d}
  IN Each(Each(asset(Disk, "geosite"), LAMBDA d : asset(d, "geoip")), list)

---------------------------------------------------------------------------
(* The operator.                                                           *)

\* config.NewClient: a new user inherits the default filter.
NewClient(u) ==
  IF FiltersDomains(defaults)
  THEN [uuid |-> u, mode |-> defaults.mode, domains |-> defaults.domains]
  ELSE [uuid |-> u, mode |-> "off", domains |-> {}]

LinkAdd(u) ==
  /\ draft = NoDraft /\ \A i \in DOMAIN config.clients : config.clients[i].uuid # u
  /\ draft' = [clients |-> Append(config.clients, NewClient(u)), idx |-> Len(config.clients) + 1]
  /\ UNCHANGED <<commands, config, defaults, diskVars, nodeVars>>

LinkEdit(i) ==
  /\ draft = NoDraft
  /\ draft' = [clients |-> config.clients, idx |-> i]
  /\ UNCHANGED <<commands, config, defaults, diskVars, nodeVars>>

\* editClientPolicyREPL: mode, domains, done, q.
ReplMode(mode) ==
  /\ draft # NoDraft /\ commands < MaxCommands
  /\ commands' = commands + 1
  /\ draft' = [draft EXCEPT !.clients[draft.idx].mode = mode]
  /\ UNCHANGED <<config, defaults, diskVars, nodeVars>>

ReplDomains(sources) ==
  /\ draft # NoDraft /\ commands < MaxCommands
  /\ commands' = commands + 1
  /\ draft' = [draft EXCEPT !.clients[draft.idx].domains = sources]
  /\ \E d \in Ensured(sources) : SetDisk(d)
  /\ UNCHANGED <<config, defaults, nodeVars>>

\* Wrong: the client is appended again, not replaced.
ReplDoneAppends ==
  /\ draft # NoDraft
  /\ SaveAndReload(config.clients \o draft.clients)
  /\ draft' = NoDraft
  /\ UNCHANGED <<commands, defaults, diskVars>>
ReplDone ==
  /\ draft # NoDraft
  /\ SaveAndReload(draft.clients)
  /\ draft' = NoDraft
  /\ UNCHANGED <<commands, defaults, diskVars>>

ReplQuit ==
  /\ draft # NoDraft
  /\ draft' = NoDraft
  /\ UNCHANGED <<commands, config, defaults, diskVars, nodeVars>>

LinkRemove(u) ==
  /\ draft = NoDraft /\ \E i \in DOMAIN config.clients : config.clients[i].uuid = u
  /\ SaveAndReload(Appended([i \in DOMAIN config.clients |->
       When(config.clients[i].uuid # u, config.clients[i])]))
  /\ UNCHANGED <<commands, defaults, draft, diskVars>>

\* configureDefaultDomainPolicy: saved first, downloads after.
SetDefault(policy) ==
  /\ draft = NoDraft
  /\ IF Filtering(policy.mode)
     THEN defaults' = policy /\ \E d \in Ensured(policy.domains) : SetDisk(d)
     ELSE defaults' = [mode |-> "off", domains |-> {}] /\ UNCHANGED diskVars
  /\ UNCHANGED <<commands, config, draft, nodeVars>>

\* cmdUpdate: the data first.  Only when a new binary was installed is the
\* service restarted.
Update ==
  /\ draft = NoDraft
  /\ \E d \in Refreshed : SetDisk(d) /\ (Starts(config, d) \/ UNCHANGED nodeVars)
  /\ UNCHANGED <<commands, config, defaults, draft>>

Next ==
  \/ Start \/ Stop \/ ReplDone \/ ReplQuit \/ Update
  \/ \E u \in Client : LinkAdd(u) \/ LinkRemove(u)
  \/ \E i \in DOMAIN config.clients : LinkEdit(i)
  \/ \E mode \in Mode : ReplMode(mode)
  \/ \E sources \in Entries : ReplDomains(sources)
  \/ \E policy \in Defaults : SetDefault(policy)

Spec == Init /\ [][Next]_vars

---------------------------------------------------------------------------
(* Properties.                                                             *)

\* The type invariant.
TypeOK ==
  /\ config \in [clients : Seq(ClientRow), blockBittorrent : BOOLEAN, blockPrivate : BOOLEAN]
  /\ draft \in [clients : Seq(ClientRow), idx : Nat]
  /\ \A clients \in {config.clients, draft.clients} :
       \A i, j \in DOMAIN clients : clients[i].uuid = clients[j].uuid => i = j
  /\ commands \in 0..MaxCommands
  /\ draft.idx \in 0..Len(draft.clients) /\ (draft.idx = 0 <=> draft = NoDraft)
  /\ defaults \in Policy
  /\ assets \in [Asset -> {"missing", "good", "bad"}]
  /\ DOMAIN lists \subseteq ListRef /\ \A l \in DOMAIN lists : lists[l] \subseteq Line
  /\ node \in {"down", "running", "failed"}
  /\ unverified \subseteq Asset

\* What the router makes of a connection before it resolves anything: the
\* user's filter is a whitelist, or lists the domain.
DecidedByName(u, conn) ==
  \E i \in DOMAIN users :
    users[i].email = u /\ (users[i].mode = "whitelist" \/ conn.names \cap users[i].tokens # {})

\* A domain that a whitelist lists only by the address it resolves to.
ListedByAddressOnly(u, conn) ==
  /\ conn.by = "domain"
  /\ \E i \in DOMAIN users :
       /\ users[i].email = u /\ users[i].mode = "whitelist"
       /\ conn.names \cap users[i].tokens = {} /\ conn.net \in users[i].tokens

\* What becomes of a connection: the global blocks, then the user's own
\* filter (xraygen.Generate's comment, README section 9).
Meant(u, conn) ==
  IF conn.bittorrent /\ config.blockBittorrent THEN "block"
  ELSE IF /\ conn.net = "private" /\ config.blockPrivate
          /\ conn.by = "ip" \/ (x.resolve /\ ~DecidedByName(u, conn))
  THEN "block"
  ELSE IF ListedByAddressOnly(u, conn) THEN "block"
  ELSE IF \E i \in DOMAIN users : users[i].email = u
  THEN LET i == CHOOSE j \in DOMAIN users : users[j].email = u
       IN Meaning(users[i].mode, users[i].tokens, conn, x.resolve)
  ELSE "direct"

\* Every filter the node was started with treats every connection as its mode
\* and its resolved sources say, whoever shares the rules and in whatever
\* order (xraygen.Generate, userDomainPolicies, Resolve).  A domain's address
\* counts only where Meant says so, which is less than is documented, twice:
\* private ranges are blocked "so proxy users can't reach the node's own local
\* network" (config.go:137, README.md:232), yet a domain that resolves into
\* them is let out unless a country in some filter makes the router resolve it
\* and nothing has matched before; and a country "also applies to domain
\* traffic" (README.md:449), yet a whitelist's catch-all blocks a domain it
\* lists by its country.  Whether these are the newest filters is not said:
\* see Update.
RoutesMean ==
  node = "running" =>
    \A u \in Client, conn \in Connection : Route(x, u, conn) = Meant(u, conn)

\* A user's routes are the user's own (xraygen.go: "unfiltered users are
\* unaffected"): they are those of a node with no other user, whatever the
\* other filters and their order.  The one exception is a domain in a
\* private range, which is resolved, and so seen to be there, only when some
\* user lists a country.
Isolated ==
  node = "running" =>
    \A u \in Client :
      LET own == Appended([i \in DOMAIN users |-> When(users[i].email = u, users[i])])
          alone == Generate(config, own)
      IN \A conn \in Connection :
           \/ conn.by = "domain" /\ conn.net = "private"
           \/ Route(x, u, conn) = Route(alone, u, conn)

\* The matchers a client's filter resolves to.
Matchers(cl, d) == policyOf(cl, d.lists, Present(d)).tokens

\* No download takes a user's filter away, which would let a whitelisted user
\* out anywhere (userDomainPolicies has no policy for one without matchers):
\* whatever fails, comes blank or does not match its digest, a filter that
\* resolves to something still does (Download, fetchRemoteList's "a transient
\* network error never wipes a working list").  Two ways are left: an empty
\* data file whose digest could not be had, and a remote list that comes with
\* nothing usable in it.
FiltersKept ==
  [][\A i \in DOMAIN config.clients :
       LET cl == config.clients[i] IN
       Matchers(cl, Disk) # {} /\ Matchers(cl, Disk') = {} =>
         \/ \E a \in unverified' : assets'[a] = "missing"
         \/ "url" \in cl.domains /\ lists' # lists /\ lists'["url"] # {}]_vars

\* A data file that is not there never keeps the node from starting (Resolve:
\* "a missing .dat can't abort xray startup").  Of what the filters name, what
\* stops it has its file, if it needs one, and either xray does not know it,
\* or the file was installed unverified.  One user's matcher that xray does not
\* know does stop the node for all, also one that came in a remote list.
MissingFileNeverStops ==
  [][node' = "failed" /\ node # "failed" =>
       \E i \in DOMAIN config'.clients :
       \E tok \in policyOf(config'.clients[i], lists', Asset).tokens :
         /\ datAsset(tok) # NoAsset => assets'[datAsset(tok)] # "missing"
         /\ tok \in Unknown \/ datAsset(tok) \in unverified']_vars

============================================================================
