------------------------------ MODULE PortPlan ------------------------------
(***************************************************************************)
(* What a configuration says about names and ports: the inbounds it        *)
(* enables, the sockets the node opens for them, and the links it hands    *)
(* out (internal/config, inputFromConfig and innerPortFor in node.go, the  *)
(* link builders in link.go).                                              *)
(*                                                                         *)
(* A configuration c is told apart by                                      *)
(*   port, pub   the port each protocol binds (0: disabled), and the one   *)
(*               clients dial if a router forwards another (0: the same)   *)
(*   cap         is there a per-user speed cap, hence a throttle proxy     *)
(*   token       is there a DuckDNS token                                  *)
(*   label       the DuckDNS host its label makes (an empty label makes    *)
(*               the legacy one, from the node's id)                       *)
(*   custom      is there a domain of the operator's own                   *)
(*   camouflage  "reality" or "tls"                                        *)
(*   site        the REALITY site borrowed, NoName when there is none      *)
(*   keys, ssKey the generation of the REALITY keys and of the server key  *)
(*               of Shadowsocks-2022, 0 when there is none                 *)
(*   agree       was the CA's agreement accepted                           *)
(***************************************************************************)
EXTENDS Integers

Proto == {"vless", "trojan", "shadowsocks", "ss2022"}
Port == 1..65535
NoName == ""
CustomName == "custom"
Label == {"legacy", "own"}
SitePort == 8080

Enabled(c) == {p \in Proto : c.port[p] # 0}

DuckDNSHost(c) == IF c.token THEN c.label ELSE NoName

Domain(c) == IF c.custom THEN CustomName ELSE DuckDNSHost(c)

CamouflageTLS(c) == c.camouflage = "tls"
TLSHost(c) ==
  IF DuckDNSHost(c) # NoName THEN DuckDNSHost(c)
  ELSE IF c.custom THEN CustomName ELSE NoName
TLSManualCert(c) == CamouflageTLS(c) /\ DuckDNSHost(c) = NoName /\ c.custom

IsConfigured(c) == IF CamouflageTLS(c) THEN TLSHost(c) # NoName ELSE c.keys # 0

---------------------------------------------------------------------------
(* Ports.                                                                  *)

\* Wrong: the external port is forgotten.
DialPortIsBind(c, p) == c.port[p]
DialPort(c, p) == IF c.pub[p] # 0 THEN c.pub[p] ELSE c.port[p]

\* Wrong: a loopback port may be one offered to another protocol.
innerPortForNear(n) == IF n + 1000 <= 65535 THEN n + 1000 ELSE n - 1000
\* The loopback port xray listens on behind the throttle proxy of port n.
innerPortFor(n) ==
  IF n + 10000 <= 65535 THEN n + 10000
  ELSE IF n - 10000 >= 1 THEN n - 10000
  ELSE 24443

\* Wrong: xray stays on the port the proxy is to front.
ListenPortInFront(c, p) == c.port[p]
\* Where xray listens for p (inputFromConfig).
ListenPort(c, p) == IF c.cap THEN innerPortFor(c.port[p]) ELSE c.port[p]
XrayPorts(c) == {ListenPort(c, p) : p \in Enabled(c)}

Bound(c) == {c.port[p] : p \in Enabled(c)}
Distinct(f, S) == \A p, r \in S : f[p] = f[r] => p = r

\* No two of the node's sockets, and no two of the ports clients dial, are
\* the same.
DistinctPorts(c) == Distinct(c.port, Enabled(c))
Apart(c) ==
  /\ DistinctPorts(c)
  /\ \A p, r \in Enabled(c) : DialPort(c, p) = DialPort(c, r) => p = r
  /\ c.cap => \A p, r \in Enabled(c) :
                /\ innerPortFor(c.port[p]) # c.port[r]
                /\ innerPortFor(c.port[p]) = innerPortFor(c.port[r]) => p = r
  /\ CamouflageTLS(c) => SitePort \notin Bound(c) \cup XrayPorts(c)

---------------------------------------------------------------------------
(* What becomes of a node's listeners when it starts with c: xray opens    *)
(* all of its sockets or refuses to start; a proxy, or the decoy site,     *)
(* whose port is taken says so in the log and the node runs without it.    *)
(* The site, started before xray, races with it and with the proxies; as   *)
(* on Linux, a port taken on one address is taken on all.  A listening is  *)
(* the set of protocols whose public port is theirs, and whether the       *)
(* site's is.                                                              *)

\* xray has a socket for every inbound.
XrayStarts(c) == \A p, r \in Enabled(c) : ListenPort(c, p) = ListenPort(c, r) => p = r

\* The site may be there first and keep xray from starting.
SiteTakes(c) == CamouflageTLS(c) /\ SitePort \in XrayPorts(c)

\* Beside an xray that started, the site has what nobody else took.
SiteFree(c, up) == SitePort \notin XrayPorts(c) \cup {c.port[p] : p \in up}

Fronts(c, up, site) ==
  LET taken == XrayPorts(c) \cup IF site THEN {SitePort} ELSE {}
  IN  /\ Distinct(c.port, up)
      /\ \A p \in up : c.port[p] \notin taken
      /\ \A p \in Enabled(c) \ up :
           c.port[p] \in taken \cup {c.port[r] : r \in up}

Listenings(c) ==
  {l \in [up : SUBSET Enabled(c), site : BOOLEAN] :
     /\ l.site = (CamouflageTLS(c) /\ SiteFree(c, l.up))
     /\ IF c.cap THEN Fronts(c, l.up, l.site) ELSE l.up = Enabled(c)}

---------------------------------------------------------------------------
(* Links.                                                                  *)

camouflageQuery(c) ==
  IF CamouflageTLS(c) THEN [security |-> "tls", sni |-> TLSHost(c), key |-> 0]
  ELSE [security |-> "reality", sni |-> c.site, key |-> c.keys]

clientLink(c, p) ==
  [proto |-> p, host |-> Domain(c), port |-> DialPort(c, p),
   query |-> IF p \in {"vless", "trojan"} THEN camouflageQuery(c)
             ELSE [security |-> "none", sni |-> NoName,
                   key |-> IF p = "ss2022" THEN c.ssKey ELSE 0]]
Links(c) == {clientLink(c, p) : p \in Enabled(c)}

\* The operator's router, set up as printPortForwardHelp said for c: the
\* ports a connection from outside may end up at.
Forwarded(c, dialled) ==
  {c.port[p] : p \in {r \in Enabled(c) : dialled = IF c.pub[r] # 0 THEN c.pub[r] ELSE c.port[r]}}

\* A link is answered when wherever it leads, its own protocol listens.
Answered(c, link, up) ==
  LET ends == Forwarded(c, link.port)
  IN  ends # {} /\ \A n \in ends : \E p \in up : c.port[p] = n /\ p = link.proto
============================================================================
