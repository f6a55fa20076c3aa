------------------------------- MODULE Setup --------------------------------
(***************************************************************************)
(* The setup command (internal/commands/setup.go): one question after the  *)
(* other, each answer kept in memory and saved at once or with the next;   *)
(* left at any question, failing half way, or run to its end; run again on *)
(* what an earlier run left; and the node started with the result.         *)
(*                                                                         *)
(* One action answers one question and does all that follows up to the     *)
(* next.  Questions that change nothing told apart here are left out: the  *)
(* public IP, blocked protocols and ranges, the default filter (that one   *)
(* is DomainPolicy's), the ACME contact and the fallback target.  Saves    *)
(* succeed and nobody else saves meanwhile (ConfigStore has both).         *)
(***************************************************************************)
EXTENDS PortPlan

CONSTANTS
  Typed,   \* for each protocol, ports the operator types in
  Dialled, \* for each protocol, external ports the operator types in
  Free,    \* ports the random choice of a default may land on
  Site     \* REALITY sites a scan may find

ASSUME InputAssumption ==
  /\ Typed \in [Proto -> SUBSET Port] /\ Dialled \in [Proto -> SUBSET Port]
  /\ Free \subseteq Port /\ NoName \notin Site

VARIABLES
  disk,      \* config.json
  cert,      \* the host cert.pem is good for, NoName if it is good for none
  at,        \* the question setup waits at, "idle" when none runs
  proto,     \* the protocol the question is about
  c,         \* setup's configuration in memory, disk's when idle
  node,      \* "current" when it started with disk, "other" when it is down
             \* or still runs what it loaded before setup was started
  listening, \* what a current node listens on
  \* history, read by the properties only
  finished,  \* disk is what a setup left that ran to its end
  before     \* the finished configuration setup started from, while the
             \* operator has only pressed Enter

setupVars == <<disk, at, proto, c, finished, before>>
nodeVars == <<node, listening>>
vars == <<disk, cert, at, proto, c, node, listening, finished, before>>

Name == Label \cup {CustomName, NoName}
Config == [port : [Proto -> Port \cup {0}], pub : [Proto -> Port \cup {0}],
           cap : BOOLEAN, token : BOOLEAN, label : Label, custom : BOOLEAN,
           camouflage : {"reality", "tls"}, site : Site \cup {NoName},
           keys : {0, 1}, ssKey : {0, 1}, agree : BOOLEAN]
NoConfig == [none |-> TRUE]
NoListening == [up |-> {}, site |-> FALSE]

vlessDefaultPort == 8443
Default == [port |-> [p \in Proto |-> IF p = "vless" THEN vlessDefaultPort ELSE 0],
            pub |-> [p \in Proto |-> 0],
            cap |-> TRUE, token |-> FALSE, label |-> "legacy", custom |-> FALSE,
            camouflage |-> "reality", site |-> NoName,
            keys |-> 0, ssKey |-> 0, agree |-> FALSE]

Init ==
  /\ disk = NoConfig /\ c = NoConfig /\ cert = NoName
  /\ at = "idle" /\ proto = "vless"
  /\ node = "other" /\ listening = NoListening
  /\ finished = FALSE /\ before = NoConfig

---------------------------------------------------------------------------
(* Steps of the command.                                                   *)

Save(conf) == c' = conf /\ disk' = conf
Keep(conf) == c' = conf /\ UNCHANGED disk
Ask(question, p) == at' = question /\ proto' = p

\* An answer that is the default the question offers is as good as Enter.
Entered(default) ==
  /\ before' = IF default THEN before ELSE NoConfig
  /\ UNCHANGED <<cert, node, listening, finished>>

\* The command ends here: by q or a signal, or with an error.
Ends ==
  /\ Ask("idle", "vless") /\ c' = disk' /\ before' = NoConfig

\* It ran to the end; what is left is to install the service.
Finishes(conf) ==
  /\ Save(conf) /\ Ask("install", "vless")
  /\ finished' = TRUE

StartSetup ==
  /\ at = "idle"
  /\ Save(IF disk = NoConfig THEN Default ELSE disk)
  /\ Ask("port", "vless")
  /\ before' = IF finished THEN disk ELSE NoConfig
  /\ finished' = FALSE
  /\ node' = "other"
  /\ listening' = NoListening
  /\ UNCHANGED cert

---------------------------------------------------------------------------
(* Ports.                                                                  *)

Order == <<"vless", "trojan", "shadowsocks", "ss2022">>
Place(p) == CHOOSE i \in 1..4 : Order[i] = p

\* Wrong: only the port of VLESS is kept clear of.
ReservedVLESS(conf, p) == IF p = "vless" THEN {} ELSE {conf.port["vless"]} \ {0}
\* The ports of the protocols asked about before p.
Reserved(conf, p) == {conf.port[r] : r \in {s \in Proto : Place(s) < Place(p)}} \ {0}
collidesPort(n, reserved) == n \in reserved

trojanPortLo == 32000
trojanPortHi == 35000
ssPortLo == 35000
ssPortHi == 38000

\* The ports a random choice may return; lo when it finds none.
recommendPortInRange(lo, hi, taken) ==
  LET good == {n \in Free : lo <= n /\ n <= hi /\ n \notin taken}
  IN  IF good = {} THEN {lo} ELSE good

Recommended(conf, p) ==
  CASE p = "vless" -> {vlessDefaultPort}
    [] p = "trojan" -> recommendPortInRange(trojanPortLo, trojanPortHi, Reserved(conf, p))
    [] OTHER -> recommendPortInRange(ssPortLo, ssPortHi, Reserved(conf, p))

\* Wrong: a protocol that has a port is offered a new one.
DefaultPortsFresh(conf, p) == Recommended(conf, p)
\* A port once chosen is offered again, whatever else is free.
DefaultPorts(conf, p) == IF conf.port[p] = 0 THEN Recommended(conf, p) ELSE {conf.port[p]}

AskNext(p) ==
  IF p = "ss2022" THEN Ask("cap", "vless") ELSE Ask("enable", Order[Place(p) + 1])

Disabled(p) == [c EXCEPT !.port[p] = 0, !.pub[p] = 0]

Enable ==
  /\ at = "enable"
  /\ \/ Ask("port", proto) /\ Keep(c) /\ Entered(c.port[proto] # 0)
     \/ AskNext(proto) /\ Save(Disabled(proto)) /\ Entered(c.port[proto] = 0)

\* What the operator typed counts when it is a port, and the default
\* otherwise; a colliding port is asked for again.  Shadowsocks-2022 gets its
\* server key now.
AskPort ==
  /\ at = "port"
  /\ \E n \in DefaultPorts(c, proto) \cup Typed[proto] :
       LET conf == [c EXCEPT !.port[proto] = n,
                             !.ssKey = IF proto = "ss2022" /\ @ = 0 THEN 1 ELSE @]
       IN  /\ ~ collidesPort(n, Reserved(c, proto))
           /\ IF proto = "vless" THEN Save(conf) ELSE Keep(conf)
           /\ Ask("public", proto)
           /\ Entered(n \in DefaultPorts(c, proto))

\* No server key could be made: Shadowsocks-2022 stays off.
KeyFails ==
  /\ at = "port" /\ proto = "ss2022" /\ c.ssKey = 0
  /\ Save(Disabled("ss2022")) /\ AskNext("ss2022") /\ Entered(FALSE)

\* Wrong: the bind port is the default although another was chosen.
DefaultPublicBind(conf, p) == conf.port[p]
DefaultPublic(conf, p) == IF conf.pub[p] # 0 THEN conf.pub[p] ELSE conf.port[p]

\* Wrong: the answers about an extra protocol are not saved.
SavePublicLate(p, conf) == IF p = "vless" THEN Save(conf) ELSE Keep(conf)
SavePublic(p, conf) == Save(conf)

AskPublicPort ==
  /\ at = "public"
  /\ \E n \in {DefaultPublic(c, proto), c.port[proto]} \cup Dialled[proto] :
       /\ SavePublic(proto, [c EXCEPT !.pub[proto] = IF n = c.port[proto] THEN 0 ELSE n])
       /\ Entered(n = DefaultPublic(c, proto))
  /\ AskNext(proto)

\* Enter means a cap of 50 Mbit/s, also when there was none.
Cap ==
  /\ at = "cap"
  /\ \E cap \in BOOLEAN : Save([c EXCEPT !.cap = cap]) /\ Entered(cap)
  /\ Ask("duckdns", "vless")

---------------------------------------------------------------------------
(* Names.                                                                  *)

\* Wrong: the domain of one's own stays.
UseDuckDNSBeside == c
UseDuckDNS == [c EXCEPT !.custom = FALSE]

ConfigureDomain ==
  /\ at = "duckdns"
  /\ \/ /\ Keep([c EXCEPT !.token = FALSE, !.label = "legacy"])
        /\ Ask("custom", "vless") /\ Entered(~ c.token)
     \/ /\ Keep(UseDuckDNS)
        /\ Ask("token", "vless") /\ Entered(c.token)

CustomDomain ==
  /\ at = "custom"
  /\ \E custom \in BOOLEAN : Save([c EXCEPT !.custom = custom]) /\ Entered(custom = c.custom)
  /\ Ask("camouflage", "vless")

Token ==
  /\ at = "token"
  /\ \E token \in BOOLEAN :
       /\ Save([c EXCEPT !.token = token]) /\ Entered(token = c.token)
       /\ Ask(IF token THEN "label" ELSE "camouflage", "vless")

Subdomain ==
  /\ at = "label"
  /\ \E label \in Label : Save([c EXCEPT !.label = label]) /\ Entered(label = c.label)
  /\ Ask("camouflage", "vless")

---------------------------------------------------------------------------
(* Camouflage.                                                             *)

\* Wrong: TLS is taken without a domain.
CanUseTLSAlways(conf) == TRUE
CanUseTLS(conf) == DuckDNSHost(conf) # NoName \/ conf.custom

\* TLS was chosen and there is a domain: a certificate for it that is there
\* and good is kept, one has to be obtained, or the operator brings it.
UseTLS(conf) ==
  /\ before' = IF CamouflageTLS(c) THEN before ELSE NoConfig
  /\ IF DuckDNSHost(conf) # NoName /\ cert = TLSHost(conf)
     THEN Finishes(conf)
     ELSE /\ Save(conf) /\ UNCHANGED finished
          /\ Ask(IF DuckDNSHost(conf) # NoName THEN "agree" ELSE "acknowledge", "vless")

UseReality(conf, default) ==
  /\ before' = IF default THEN before ELSE NoConfig
  /\ Save(conf) /\ Ask("scan", "vless") /\ UNCHANGED finished

ConfigureCamouflage ==
  /\ at = "camouflage"
  /\ \E mode \in {"reality", "tls"} :
       IF mode = "tls" /\ CanUseTLS(c) THEN UseTLS([c EXCEPT !.camouflage = "tls"])
       ELSE UseReality([c EXCEPT !.camouflage = "reality"], mode = c.camouflage)
  /\ UNCHANGED <<cert, nodeVars>>

Agree ==
  /\ at = "agree"
  /\ Finishes([c EXCEPT !.agree = TRUE]) /\ cert' = TLSHost(c)
  /\ UNCHANGED <<nodeVars, before>>

\* Refused, or accepted and no certificate was to be had.
AgreeFails ==
  /\ at = "agree"
  /\ disk' \in {c, [c EXCEPT !.agree = TRUE]} /\ Ends
  /\ UNCHANGED <<cert, nodeVars, finished>>

Acknowledge ==
  /\ at = "acknowledge" /\ Finishes(c)
  /\ UNCHANGED <<cert, nodeVars, before>>

\* Wrong: new keys at every run.
GeneratedAnew(conf) == [conf EXCEPT !.keys = IF @ = 0 THEN 1 ELSE @ + 1]
Generated(conf) == [conf EXCEPT !.keys = IF @ = 0 THEN 1 ELSE @]

\* The site is kept if it still answers; one a scan found takes its place.
Chosen == {[c EXCEPT !.site = s] : s \in Site}

ChooseReality ==
  /\ at = "scan"
  /\ \E conf \in Chosen : Finishes(Generated(conf))
  /\ UNCHANGED <<cert, nodeVars, before>>

\* No site was found, or no keys could be made.
RealityFails ==
  /\ at = "scan"
  /\ disk' \in {c} \cup IF c.keys = 0 THEN Chosen ELSE {}
  /\ Ends
  /\ UNCHANGED <<cert, nodeVars, finished>>

---------------------------------------------------------------------------

\* The operator leaves the command, at its last question as at any other.
Leave ==
  /\ at # "idle" /\ UNCHANGED disk /\ Ends
  /\ UNCHANGED <<cert, nodeVars, finished>>

\* The operator brings a certificate for the domain of one's own.
PlaceCert ==
  /\ at = "idle" /\ disk # NoConfig /\ TLSManualCert(disk)
  /\ cert' = CustomName
  /\ UNCHANGED <<setupVars, nodeVars>>

\* The certificate is there, or the node may ask for it and gets it.
CertReady(conf) ==
  IF CamouflageTLS(conf)
  THEN /\ cert = TLSHost(conf) \/ (~ TLSManualCert(conf) /\ conf.agree)
       /\ cert' = TLSHost(conf)
  ELSE UNCHANGED cert

\* The node starts: the service, a reboot, the last step of setup.  A start
\* that fails leaves it down, xray's with the certificate obtained before.
Start ==
  /\ at = "idle" /\ disk # NoConfig /\ node # "current"
  /\ IsConfigured(disk) /\ CertReady(disk)
  /\ \/ XrayStarts(disk) /\ node' = "current" /\ listening' \in Listenings(disk)
     \/ (~ XrayStarts(disk) \/ SiteTakes(disk)) /\ UNCHANGED nodeVars
  /\ UNCHANGED setupVars

Stop ==
  /\ at = "idle" /\ node = "current"
  /\ node' = "other" /\ listening' = NoListening
  /\ UNCHANGED <<setupVars, cert>>

Next ==
  \/ StartSetup \/ Enable \/ AskPort \/ KeyFails \/ AskPublicPort \/ Cap
  \/ ConfigureDomain \/ CustomDomain \/ Token \/ Subdomain
  \/ ConfigureCamouflage \/ Agree \/ AgreeFails \/ Acknowledge
  \/ ChooseReality \/ RealityFails
  \/ Leave \/ PlaceCert \/ Start \/ Stop

Spec == Init /\ [][Next]_vars

---------------------------------------------------------------------------
(* Properties.                                                             *)

\* Every variable keeps its type; in particular keys are made once, and never
\* replaced under the links that carry them.
TypeOK ==
  /\ disk \in Config \cup {NoConfig} /\ c \in Config \cup {NoConfig}
  /\ before \in Config \cup {NoConfig}
  /\ cert \in Name /\ proto \in Proto
  /\ at \in {"idle", "port", "public", "enable", "cap", "duckdns", "custom", "token",
             "label", "camouflage", "agree", "acknowledge", "scan", "install"}
  /\ node \in {"current", "other"}
  /\ listening \in [up : SUBSET Proto, site : BOOLEAN]
  /\ finished \in BOOLEAN

\* One TCP port hosts one protocol: a setup that ran to its end leaves every
\* enabled protocol a port of its own, whatever was typed and whatever an
\* earlier, interrupted run had left (askProtocolPort, collidesPort).
PortsDistinct == finished => DistinctPorts(disk)

\* A setup that ran to its end leaves the credentials complete: keys and a
\* site to borrow, or a domain and its certificate (configureCamouflage,
\* IsConfigured).  Not promised: the certificate of an operator who brings it,
\* who may not have placed it yet, and that xray has a socket for every
\* inbound: with a cap, ports 40000 and 60000 share the loopback port 50000.
CredentialsComplete ==
  finished =>
    /\ IsConfigured(disk)
    /\ CamouflageTLS(disk) => TLSManualCert(disk) \/ cert = TLSHost(disk)
    /\ ~ CamouflageTLS(disk) => disk.site # NoName

\* In TLS mode links name the host the certificate is for, also in what an
\* interrupted setup left: the operator's domain and DuckDNS exclude each
\* other (configureDomain; Domain and TLSHost prefer different ones).
LinksNameCert ==
  disk # NoConfig /\ CamouflageTLS(disk) => Domain(disk) = TLSHost(disk)

\* At every question the file holds every answer so far but these: the port
\* of an extra protocol, and the server key made with it, until its external
\* port is answered; that DuckDNS is not wanted, until the domain of one's own
\* is answered; that it is, until its token is.  (The calls of save.  The
\* comments promise more: progress is persisted "after every answered field",
\* setup.go:34-36 and 285; the three are lost at setup.go:363-381, 205-207
\* and 226-227.  That an extra protocol is wanted is no field of the file and
\* asked again too.)
Checkpointed ==
  at # "idle" =>
    disk = CASE at = "public" /\ proto # "vless" ->
                  [c EXCEPT !.port[proto] = disk.port[proto],
                            !.ssKey = IF proto = "ss2022" THEN disk.ssKey ELSE @]
             [] at = "custom" -> [c EXCEPT !.token = disk.token, !.label = disk.label]
             [] at = "token" -> [c EXCEPT !.custom = disk.custom]
             [] OTHER -> c

\* Running setup again and pressing Enter throughout keeps every link that
\* was handed out, save for a borrowed site that no longer answers (the
\* defaults of every question, keys and ports made only once).
KeepsLinks ==
  finished /\ before # NoConfig =>
    Links([disk EXCEPT !.site = before.site]) = Links(before)

\* A node that runs answers every link the configuration makes, over the
\* router's forwards and its own proxies, and in TLS mode the subscription
\* site is up, if no two of its ports clash.
LinksAnswered ==
  node = "current" /\ Apart(disk) =>
    /\ \A link \in Links(disk) : Answered(disk, link, listening.up)
    /\ CamouflageTLS(disk) => listening.site

\* Ports from the ranges setup recommends, dialled as they are.
InRanges(conf) ==
  /\ conf.port["vless"] = vlessDefaultPort
  /\ conf.port["trojan"] \in trojanPortLo..trojanPortHi \cup {0}
  /\ \A p \in {"shadowsocks", "ss2022"} : conf.port[p] \in ssPortLo..ssPortHi \cup {0}
  /\ \A p \in Proto : conf.pub[p] = 0

\* Ports from the recommended ranges never clash with each other, with the
\* loopback ports behind them or with the site's (the constants of setup.go,
\* innerPortFor, defaultSitePort).
RangesApart == finished /\ InRanges(disk) => Apart(disk)
=============================================================================
