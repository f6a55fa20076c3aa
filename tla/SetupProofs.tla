---------------------------- MODULE SetupProofs ----------------------------
(***************************************************************************)
(* Proofs about Setup and PortPlan, for every set of ports an operator may *)
(* type or dial, every set of free ports and of sites: types, distinct     *)
(* ports, a node that starts and answers its links, and what an            *)
(* interrupted or repeated setup leaves.                                   *)
(***************************************************************************)
EXTENDS Setup, TLAPS

---------------------------------------------------------------------------
(* The recommended ranges (PortPlan only).                                 *)

(* Ports from the recommended ranges, distinct from each other, clash with  *)
(* nothing: the ranges, the distance of the loopback ports and the site's   *)
(* port are chosen so.                                                      *)
LEMMA RangesClear ==
  ASSUME NEW conf \in Config, InRanges(conf), DistinctPorts(conf)
  PROVE  Apart(conf)
<1> DEFINE Low == {vlessDefaultPort} \cup trojanPortLo..trojanPortHi \cup ssPortLo..ssPortHi
<1>1. \A p \in Enabled(conf) : conf.port[p] \in Low /\ conf.pub[p] = 0
  BY DEF Enabled, InRanges, Proto
<1>2. \A n, m \in Low : /\ innerPortFor(n) # m
                        /\ innerPortFor(n) = innerPortFor(m) => n = m
                        /\ n # SitePort /\ innerPortFor(n) # SitePort
  <2>1. \A n \in Low : n = 8443 \/ (n \in Int /\ 32000 <= n /\ n <= 38000)
    BY DEF vlessDefaultPort, trojanPortLo, trojanPortHi, ssPortLo, ssPortHi
  <2> HIDE DEF Low
  <2>2. \A n \in Low : innerPortFor(n) = n + 10000
    BY <2>1 DEF innerPortFor
  <2>3. \A n, m \in Low : n + 10000 # m /\ (n + 10000 = m + 10000 => n = m)
    BY <2>1
  <2>4. \A n \in Low : n # SitePort /\ n + 10000 # SitePort
    BY <2>1 DEF SitePort
  <2>5. QED
    BY <2>2, <2>3, <2>4
<1> HIDE DEF Low
<1>3. \A p, r \in Enabled(conf) : conf.port[p] = conf.port[r] => p = r
  BY DEF DistinctPorts, Distinct
<1>4. \A p, r \in Enabled(conf) : DialPort(conf, p) = DialPort(conf, r) => p = r
  BY <1>1, <1>3 DEF DialPort
<1>5. \A p, r \in Enabled(conf) :
        /\ innerPortFor(conf.port[p]) # conf.port[r]
        /\ innerPortFor(conf.port[p]) = innerPortFor(conf.port[r]) => p = r
  BY <1>1, <1>2, <1>3
<1>6. SitePort \notin Bound(conf) \cup XrayPorts(conf)
  BY <1>1, <1>2 DEF Bound, XrayPorts, ListenPort
<1>7. QED
  BY <1>4, <1>5, <1>6 DEF Apart

---------------------------------------------------------------------------
(* Types.                                                                  *)

Question == {"port", "public", "enable", "cap", "duckdns", "custom", "token",
             "label", "camouflage", "agree", "acknowledge", "scan", "install"}

(* A change of a field within its type leaves a configuration. *)
LEMMA ConfigFields ==
  ASSUME NEW conf \in Config
  PROVE  /\ conf.port \in [Proto -> Port \cup {0}] /\ conf.pub \in [Proto -> Port \cup {0}]
         /\ conf.cap \in BOOLEAN /\ conf.token \in BOOLEAN /\ conf.custom \in BOOLEAN
         /\ conf.label \in Label /\ conf.camouflage \in {"reality", "tls"}
         /\ conf.site \in Site \cup {NoName} /\ conf.keys \in {0, 1}
         /\ conf.ssKey \in {0, 1} /\ conf.agree \in BOOLEAN
  BY DEF Config

LEMMA ConfigPort ==
  ASSUME NEW conf \in Config, NEW p \in Proto, NEW n \in Port \cup {0}
  PROVE  /\ [conf EXCEPT !.port[p] = n] \in Config
         /\ [conf EXCEPT !.pub[p] = n] \in Config
         /\ [conf EXCEPT !.port[p] = 0, !.pub[p] = 0] \in Config
         /\ \A k \in {0, 1} : [conf EXCEPT !.port[p] = n, !.ssKey = k] \in Config
<1>1. /\ 0 \in Port \cup {0}
      /\ \A m \in Port \cup {0} : /\ [conf.port EXCEPT ![p] = m] \in [Proto -> Port \cup {0}]
                                  /\ [conf.pub EXCEPT ![p] = m] \in [Proto -> Port \cup {0}]
  BY ConfigFields
<1>2. \A f \in [Proto -> Port \cup {0}] : [conf EXCEPT !.port = f] \in Config
  BY ConfigFields DEF Config
<1>3. \A f \in [Proto -> Port \cup {0}] : [conf EXCEPT !.pub = f] \in Config
  BY ConfigFields DEF Config
<1>4. \A f, g \in [Proto -> Port \cup {0}] : [conf EXCEPT !.port = f, !.pub = g] \in Config
  BY ConfigFields DEF Config
<1>5. \A f \in [Proto -> Port \cup {0}], k \in {0, 1} :
        [conf EXCEPT !.port = f, !.ssKey = k] \in Config
  BY ConfigFields DEF Config
<1>6. [conf EXCEPT !.port[p] = n] \in Config
  BY <1>1, <1>2
<1>7. [conf EXCEPT !.pub[p] = n] \in Config
  BY <1>1, <1>3
<1>8. [conf EXCEPT !.port[p] = 0, !.pub[p] = 0] \in Config
  <2>1. [conf EXCEPT !.port[p] = 0, !.pub[p] = 0]
          = [conf EXCEPT !.port = [conf.port EXCEPT ![p] = 0], !.pub = [conf.pub EXCEPT ![p] = 0]]
    BY DEF Config
  <2>2. QED
    BY <1>1, <1>4, <2>1
<1>9. \A k \in {0, 1} : [conf EXCEPT !.port[p] = n, !.ssKey = k] \in Config
  BY <1>1, <1>5
<1>10. QED
  BY <1>6, <1>7, <1>8, <1>9

LEMMA ConfigRest ==
  ASSUME NEW conf \in Config
  PROVE  /\ \A b \in BOOLEAN : /\ [conf EXCEPT !.cap = b] \in Config
                               /\ [conf EXCEPT !.custom = b] \in Config
                               /\ [conf EXCEPT !.token = b] \in Config
                               /\ [conf EXCEPT !.agree = b] \in Config
         /\ \A l \in Label : [conf EXCEPT !.label = l] \in Config
         /\ [conf EXCEPT !.token = FALSE, !.label = "legacy"] \in Config
         /\ \A m \in {"reality", "tls"} : [conf EXCEPT !.camouflage = m] \in Config
         /\ \A s \in Site : [conf EXCEPT !.site = s] \in Config
         /\ \A k \in {0, 1} : [conf EXCEPT !.keys = k] \in Config
<1>1. \A b \in BOOLEAN : [conf EXCEPT !.cap = b] \in Config
  BY ConfigFields DEF Config
<1>2. \A b \in BOOLEAN : [conf EXCEPT !.custom = b] \in Config
  BY ConfigFields DEF Config
<1>3. \A b \in BOOLEAN : [conf EXCEPT !.token = b] \in Config
  BY ConfigFields DEF Config
<1>4. \A b \in BOOLEAN : [conf EXCEPT !.agree = b] \in Config
  BY ConfigFields DEF Config
<1>5. \A l \in Label : [conf EXCEPT !.label = l] \in Config
  BY ConfigFields DEF Config
<1>6. [conf EXCEPT !.token = FALSE, !.label = "legacy"] \in Config
  BY ConfigFields DEF Config, Label
<1>7. \A m \in {"reality", "tls"} : [conf EXCEPT !.camouflage = m] \in Config
  BY ConfigFields DEF Config
<1>8. \A s \in Site : [conf EXCEPT !.site = s] \in Config
  BY ConfigFields DEF Config
<1>9. \A k \in {0, 1} : [conf EXCEPT !.keys = k] \in Config
  BY ConfigFields DEF Config
<1>10. QED
  BY <1>1, <1>2, <1>3, <1>4, <1>5, <1>6, <1>7, <1>8, <1>9

LEMMA NameTypes ==
  ASSUME NEW conf \in Config
  PROVE  DuckDNSHost(conf) \in Name /\ TLSHost(conf) \in Name /\ Domain(conf) \in Name
  BY ConfigFields DEF DuckDNSHost, TLSHost, Domain, Name, Label

LEMMA PortTypes ==
  ASSUME NEW conf \in Config, NEW p \in Proto
  PROVE  DefaultPorts(conf, p) \subseteq Port /\ DefaultPublic(conf, p) \in Port \cup {0}
<1>1. conf.port[p] \in Port \cup {0} /\ conf.pub[p] \in Port \cup {0}
  BY ConfigFields
<1>2. Recommended(conf, p) \subseteq Port
  <2>1. ASSUME NEW lo \in Port, NEW hi, NEW taken
        PROVE  recommendPortInRange(lo, hi, taken) \subseteq Port
    BY InputAssumption, Zenon DEF recommendPortInRange
  <2>2. vlessDefaultPort \in Port /\ trojanPortLo \in Port /\ ssPortLo \in Port
    BY DEF Port, vlessDefaultPort, trojanPortLo, ssPortLo
  <2>3. QED
    BY <2>1, <2>2, Zenon DEF Recommended
<1>3. QED
  BY <1>1, <1>2 DEF DefaultPorts, DefaultPublic

LEMMA DefaultType == Default \in Config
  BY DEF Default, Config, Proto, Port, Label, vlessDefaultPort

LEMMA ProtoFacts ==
  /\ Place("vless") = 1 /\ Place("trojan") = 2 /\ Place("shadowsocks") = 3 /\ Place("ss2022") = 4
  /\ \A p \in Proto : p # "ss2022" => /\ Order[Place(p) + 1] \in Proto
                                      /\ Place(Order[Place(p) + 1]) = Place(p) + 1
<1>1. /\ Order[1] = "vless" /\ Order[2] = "trojan"
      /\ Order[3] = "shadowsocks" /\ Order[4] = "ss2022"
  BY DEF Order
<1> HIDE DEF Order
<1>2. /\ Place("vless") = 1 /\ Place("trojan") = 2
      /\ Place("shadowsocks") = 3 /\ Place("ss2022") = 4
  BY <1>1 DEF Place
<1> HIDE DEF Place
<1>3. QED
  BY <1>1, <1>2 DEF Proto

(* While setup runs, it holds a configuration and one is on disk; while it  *)
(* does not, c is what is on disk.                                          *)
HeldInv ==
  /\ at # "idle" => c \in Config /\ disk \in Config
  /\ at = "idle" => c = disk

TypeInv == TypeOK /\ HeldInv

LEMMA TypeInvInit == Init => TypeInv
<1> SUFFICES ASSUME Init PROVE TypeInv
  OBVIOUS
<1>1. HeldInv
  BY DEF Init, HeldInv
<1>2. finished \in BOOLEAN
  BY Zenon DEF Init
<1>3. listening \in [up : SUBSET Proto, site : BOOLEAN]
  BY DEF Init, NoListening
<1>4. QED
  BY <1>1, <1>2, <1>3 DEF Init, TypeInv, TypeOK, Name, Proto

LEMMA TypeInvNext == TypeInv /\ [Next]_vars => TypeInv'
<1> SUFFICES ASSUME TypeInv, [Next]_vars PROVE TypeInv'
  OBVIOUS
<1> DEFINE Rest == /\ before' \in Config \cup {NoConfig} /\ finished' \in BOOLEAN
                   /\ cert' \in Name /\ node' \in {"current", "other"}
                   /\ listening' \in [up : SUBSET Proto, site : BOOLEAN]
           Held == /\ disk' \in Config /\ c' \in Config
                   /\ at' \in Question /\ proto' \in Proto
<1>1. Rest /\ Held => TypeInv'
  BY DEF TypeInv, TypeOK, HeldInv, Question
<1>2. Rest /\ disk' \in Config \cup {NoConfig} /\ at' = "idle" /\ proto' \in Proto /\ c' = disk'
        => TypeInv'
  BY DEF TypeInv, TypeOK, HeldInv
<1>3. at # "idle" => c \in Config /\ disk \in Config
  BY DEF TypeInv, HeldInv
<1>4. /\ "vless" \in Proto /\ proto \in Proto
      /\ \A p \in Proto : AskNext(p) => at' \in Question /\ proto' \in Proto
      /\ \A q \in Question, p \in Proto : Ask(q, p) => at' \in Question /\ proto' \in Proto
  BY ProtoFacts DEF AskNext, Ask, Question, Proto, TypeInv, TypeOK
<1>5. ASSUME before' \in {before, NoConfig}, finished' \in {finished, TRUE, FALSE},
             cert' \in Name, UNCHANGED nodeVars
      PROVE  Rest
  <2>1. finished' \in BOOLEAN
    BY <1>5, Zenon DEF TypeInv, TypeOK
  <2>2. QED
    BY <1>5, <2>1 DEF TypeInv, TypeOK, nodeVars
<1>6. cert \in Name /\ cert' = cert => cert' \in Name
  OBVIOUS
<1>7. \A conf \in Config : Save(conf) \/ Keep(conf) =>
        at = "idle" \/ (disk' \in Config /\ c' \in Config)
  BY <1>3 DEF Save, Keep
<1> HIDE DEF Rest, Held
<1>8. CASE StartSetup
  <2>1. (IF disk = NoConfig THEN Default ELSE disk) \in Config
    BY DefaultType DEF TypeInv, TypeOK
  <2>2. disk' \in Config /\ c' \in Config /\ Ask("port", "vless")
    BY <1>8, <2>1 DEF StartSetup, Save
  <2>3. Rest
    BY <1>8 DEF StartSetup, Rest, TypeInv, TypeOK, NoListening
  <2>4. QED
    BY <1>1, <1>4, <2>2, <2>3 DEF Held, Question
<1>9. CASE Enable
  <2>1. Disabled(proto) \in Config
    BY <1>3, <1>4, <1>9, ConfigPort DEF Enable, Disabled
  <2>2. Held
    BY <1>3, <1>4, <1>7, <1>9, <2>1 DEF Enable, Held, Question
  <2>3. before' \in {before, NoConfig} /\ UNCHANGED <<cert, node, listening, finished>>
    BY <1>9, Zenon DEF Enable, Entered
  <2>4. QED
    BY <1>1, <1>5, <2>2, <2>3 DEF nodeVars, TypeInv, TypeOK
<1>10. CASE AskPort
  <2>1. PICK n \in DefaultPorts(c, proto) \cup Typed[proto] :
          LET conf == [c EXCEPT !.port[proto] = n,
                                !.ssKey = IF proto = "ss2022" /\ @ = 0 THEN 1 ELSE @]
          IN  /\ IF proto = "vless" THEN Save(conf) ELSE Keep(conf)
              /\ Ask("public", proto)
              /\ Entered(n \in DefaultPorts(c, proto))
    BY <1>10, Zenon DEF AskPort
  <2> DEFINE k == IF proto = "ss2022" /\ c.ssKey = 0 THEN 1 ELSE c.ssKey
             conf == [c EXCEPT !.port[proto] = n, !.ssKey = k]
  <2>2. c \in Config
    BY <1>3, <1>10 DEF AskPort
  <2>3. n \in Port \cup {0} /\ k \in {0, 1}
    BY <1>4, <2>2, PortTypes, ConfigFields, InputAssumption
  <2> HIDE DEF k
  <2>4. conf \in Config
    BY <1>4, <2>2, <2>3, ConfigPort
  <2>5. Save(conf) \/ Keep(conf)
    BY <2>1, Zenon DEF k
  <2> HIDE DEF conf
  <2>6. Held
    BY <1>4, <1>7, <1>10, <2>1, <2>4, <2>5 DEF AskPort, Held, Question
  <2>7. before' \in {before, NoConfig} /\ UNCHANGED <<cert, node, listening, finished>>
    BY <2>1, Zenon DEF Entered
  <2>8. QED
    BY <1>1, <1>5, <2>6, <2>7 DEF nodeVars, TypeInv, TypeOK
<1>11. CASE KeyFails
  <2>1. Disabled("ss2022") \in Config
    BY <1>3, <1>11, ConfigPort DEF KeyFails, Disabled, Proto
  <2>2. Held
    BY <1>4, <1>7, <1>11, <2>1 DEF KeyFails, Held, Proto
  <2>3. before' \in {before, NoConfig} /\ UNCHANGED <<cert, node, listening, finished>>
    BY <1>11, Zenon DEF KeyFails, Entered
  <2>4. QED
    BY <1>1, <1>5, <2>2, <2>3 DEF nodeVars, TypeInv, TypeOK
<1>12. CASE AskPublicPort
  <2>1. \A n \in {DefaultPublic(c, proto), c.port[proto]} \cup Dialled[proto] :
          [c EXCEPT !.pub[proto] = IF n = c.port[proto] THEN 0 ELSE n] \in Config
    BY <1>3, <1>4, <1>12, PortTypes, ConfigFields, ConfigPort, InputAssumption DEF AskPublicPort
  <2>2. Held
    BY <1>4, <1>7, <1>12, <2>1 DEF AskPublicPort, SavePublic, Held
  <2>3. before' \in {before, NoConfig} /\ UNCHANGED <<cert, node, listening, finished>>
    BY <1>12, Zenon DEF AskPublicPort, Entered
  <2>4. QED
    BY <1>1, <1>5, <2>2, <2>3 DEF nodeVars, TypeInv, TypeOK
<1>13. CASE Cap
  <2>1. \A b \in BOOLEAN : [c EXCEPT !.cap = b] \in Config
    BY <1>3, <1>13, ConfigRest DEF Cap
  <2>2. Held
    BY <1>3, <1>4, <1>7, <1>13, <2>1 DEF Cap, Held, Question
  <2>3. before' \in {before, NoConfig} /\ UNCHANGED <<cert, node, listening, finished>>
    BY <1>13, Zenon DEF Cap, Entered
  <2>4. QED
    BY <1>1, <1>5, <2>2, <2>3 DEF nodeVars, TypeInv, TypeOK
<1>14. CASE ConfigureDomain
  <2>1. UseDuckDNS \in Config /\ [c EXCEPT !.token = FALSE, !.label = "legacy"] \in Config
    BY <1>3, <1>14, ConfigRest DEF ConfigureDomain, UseDuckDNS
  <2>2. Held
    BY <1>3, <1>4, <1>7, <1>14, <2>1 DEF ConfigureDomain, Held, Question
  <2>3. before' \in {before, NoConfig} /\ UNCHANGED <<cert, node, listening, finished>>
    BY <1>14, Zenon DEF ConfigureDomain, Entered
  <2>4. QED
    BY <1>1, <1>5, <2>2, <2>3 DEF nodeVars, TypeInv, TypeOK
<1>15. CASE CustomDomain
  <2>1. \A b \in BOOLEAN : [c EXCEPT !.custom = b] \in Config
    BY <1>3, <1>15, ConfigRest DEF CustomDomain
  <2>2. Held
    BY <1>3, <1>4, <1>7, <1>15, <2>1 DEF CustomDomain, Held, Question
  <2>3. before' \in {before, NoConfig} /\ UNCHANGED <<cert, node, listening, finished>>
    BY <1>15, Zenon DEF CustomDomain, Entered
  <2>4. QED
    BY <1>1, <1>5, <2>2, <2>3 DEF nodeVars, TypeInv, TypeOK
<1>16. CASE Token
  <2>1. \A b \in BOOLEAN : [c EXCEPT !.token = b] \in Config
    BY <1>3, <1>16, ConfigRest DEF Token
  <2>2. Held
    BY <1>3, <1>4, <1>7, <1>16, <2>1 DEF Token, Held, Question
  <2>3. before' \in {before, NoConfig} /\ UNCHANGED <<cert, node, listening, finished>>
    BY <1>16, Zenon DEF Token, Entered
  <2>4. QED
    BY <1>1, <1>5, <2>2, <2>3 DEF nodeVars, TypeInv, TypeOK
<1>17. CASE Subdomain
  <2>1. \A l \in Label : [c EXCEPT !.label = l] \in Config
    BY <1>3, <1>17, ConfigRest DEF Subdomain
  <2>2. Held
    BY <1>3, <1>4, <1>7, <1>17, <2>1 DEF Subdomain, Held, Question
  <2>3. before' \in {before, NoConfig} /\ UNCHANGED <<cert, node, listening, finished>>
    BY <1>17, Zenon DEF Subdomain, Entered
  <2>4. QED
    BY <1>1, <1>5, <2>2, <2>3 DEF nodeVars, TypeInv, TypeOK
<1>18. CASE ConfigureCamouflage
  <2>1. \A m \in {"reality", "tls"} : [c EXCEPT !.camouflage = m] \in Config
    BY <1>3, <1>18, ConfigRest DEF ConfigureCamouflage
  <2>2. PICK conf \in {[c EXCEPT !.camouflage = m] : m \in {"reality", "tls"}} :
          UseTLS(conf) \/ \E m \in {"reality", "tls"} : UseReality(conf, m = c.camouflage)
    BY <1>18, Zenon DEF ConfigureCamouflage
  <2>3. conf \in Config
    BY <2>1
  <2>4. /\ Save(conf)
        /\ \E q \in Question : Ask(q, "vless")
        /\ before' \in {before, NoConfig} /\ finished' \in {finished, TRUE}
    <3>1. CASE UseTLS(conf)
      BY <3>1, Zenon DEF UseTLS, Finishes, Question
    <3>2. ASSUME NEW m, UseReality(conf, m = c.camouflage)
          PROVE  /\ Save(conf)
                 /\ \E q \in Question : Ask(q, "vless")
                 /\ before' \in {before, NoConfig} /\ finished' \in {finished, TRUE}
      BY <3>2, Zenon DEF UseReality, Question
    <3>3. QED
      BY <2>2, <3>1, <3>2, Zenon
  <2>5. Held
    BY <1>4, <1>7, <1>18, <2>3, <2>4 DEF ConfigureCamouflage, Held
  <2>6. QED
    BY <1>1, <1>5, <1>18, <2>4, <2>5 DEF ConfigureCamouflage, TypeInv, TypeOK
<1>19. CASE Agree
  <2>1. [c EXCEPT !.agree = TRUE] \in Config /\ cert' \in Name
    BY <1>3, <1>19, ConfigRest, NameTypes DEF Agree
  <2>2. Held /\ finished' = TRUE
    BY <1>4, <1>7, <1>19, <2>1 DEF Agree, Finishes, Held, Question
  <2>3. QED
    BY <1>1, <1>5, <1>19, <2>1, <2>2 DEF Agree
<1>20. CASE Acknowledge
  <2>1. Held /\ finished' = TRUE
    BY <1>3, <1>4, <1>7, <1>20 DEF Acknowledge, Finishes, Held, Question
  <2>2. QED
    BY <1>1, <1>5, <1>6, <1>20, <2>1 DEF Acknowledge, TypeInv, TypeOK
<1>21. CASE ChooseReality
  <2>1. \A conf \in Chosen : conf \in Config
    <3>1. c \in Config
      BY <1>3, <1>21 DEF ChooseReality
    <3>2. QED
      BY <3>1, ConfigRest DEF Chosen
  <2>2. \A conf \in Config : Generated(conf) \in Config
    BY ConfigRest, ConfigFields DEF Generated
  <2>3. PICK conf \in Chosen : Finishes(Generated(conf))
    BY <1>21 DEF ChooseReality
  <2>4. Held /\ finished' = TRUE
    BY <1>4, <1>7, <1>21, <2>1, <2>2, <2>3 DEF ChooseReality, Finishes, Held, Question
  <2>5. QED
    BY <1>1, <1>5, <1>6, <1>21, <2>4 DEF ChooseReality, TypeInv, TypeOK
<1>22. CASE AgreeFails
  <2>1. disk' \in Config
    BY <1>3, <1>22, ConfigRest DEF AgreeFails
  <2>2. Rest
    BY <1>5, <1>22 DEF AgreeFails, Ends, TypeInv, TypeOK
  <2>3. QED
    BY <1>2, <1>4, <1>22, <2>1, <2>2 DEF AgreeFails, Ends, Ask
<1>23. CASE RealityFails
  <2>1. disk' \in Config
    <3>1. c \in Config
      BY <1>3, <1>23 DEF RealityFails
    <3>2. \A conf \in Chosen : conf \in Config
      BY <3>1, ConfigRest DEF Chosen
    <3>3. disk' = c \/ disk' \in Chosen
      BY <1>23 DEF RealityFails
    <3>4. QED
      BY <3>1, <3>2, <3>3
  <2>2. Rest
    BY <1>5, <1>23 DEF RealityFails, Ends, TypeInv, TypeOK
  <2>3. QED
    BY <1>2, <1>4, <1>23, <2>1, <2>2 DEF RealityFails, Ends, Ask
<1>24. CASE Leave
  <2>1. Rest
    BY <1>5, <1>24 DEF Leave, Ends, TypeInv, TypeOK
  <2>2. QED
    BY <1>2, <1>4, <1>24, <2>1 DEF Leave, Ends, Ask, TypeInv, TypeOK
<1>25. CASE PlaceCert
  BY <1>25 DEF PlaceCert, setupVars, nodeVars, TypeInv, TypeOK, HeldInv, Name
<1>26. CASE Start
  <2>1. disk \in Config
    BY <1>26 DEF Start, TypeInv, TypeOK
  <2>2. cert' \in Name
    BY <1>26, <2>1, NameTypes DEF Start, CertReady, TypeInv, TypeOK
  <2>3. listening' \in [up : SUBSET Proto, site : BOOLEAN]
    BY <1>26 DEF Start, nodeVars, Listenings, Enabled, TypeInv, TypeOK
  <2>4. QED
    BY <1>26, <2>2, <2>3 DEF Start, setupVars, nodeVars, TypeInv, TypeOK, HeldInv
<1>27. CASE Stop
  BY <1>27 DEF Stop, setupVars, TypeInv, TypeOK, HeldInv, NoListening
<1>28. CASE UNCHANGED vars
  BY <1>28 DEF vars, TypeInv, TypeOK, HeldInv
<1>29. QED
  BY <1>8, <1>9, <1>10, <1>11, <1>12, <1>13, <1>14, <1>15, <1>16, <1>17, <1>18,
     <1>19, <1>20, <1>21, <1>22, <1>23, <1>24, <1>25, <1>26, <1>27, <1>28 DEF Next

(* Every variable keeps its type; keys are made once and never replaced     *)
(* (Setup's TypeOK).                                                        *)
THEOREM TypeCorrect == Spec => []TypeOK
<1>1. TypeInv => TypeOK
  BY DEF TypeInv
<1>2. QED
  BY <1>1, TypeInvInit, TypeInvNext, PTL DEF Spec

---------------------------------------------------------------------------
(* Ports: the protocols asked about so far have ports of their own.        *)

Settled ==
  CASE at \in {"port", "enable"} -> {p \in Proto : Place(p) < Place(proto)}
    [] at = "public" -> {p \in Proto : Place(p) <= Place(proto)}
    [] OTHER -> Proto

PortsOf(conf, S) ==
  /\ \A p, r \in S : conf.port[p] # 0 /\ conf.port[p] = conf.port[r] => p = r
  /\ "vless" \in S => conf.port["vless"] # 0
  /\ "ss2022" \in S /\ conf.port["ss2022"] # 0 => conf.ssKey # 0

PortsInv ==
  /\ at # "idle" => PortsOf(c, Settled)
  /\ at = "enable" => proto # "vless"
  /\ finished => at \in {"idle", "install"} /\ disk \in Config /\ PortsOf(disk, Proto)

(* The questions after those about ports change none. *)
Later == {"cap", "duckdns", "custom", "token", "label", "camouflage", "agree",
          "acknowledge", "scan", "install"}

LEMMA LaterKeepsPorts ==
  ASSUME TypeInv,
         Cap \/ ConfigureDomain \/ CustomDomain \/ Token \/ Subdomain
           \/ ConfigureCamouflage \/ Agree \/ Acknowledge \/ ChooseReality
  PROVE  /\ at \in Later /\ at' \in Later
         /\ c'.port = c.port /\ c'.ssKey = c.ssKey
         /\ finished' => disk' = c' \/ finished
<1>1. at # "idle" => c \in Config
  BY DEF TypeInv, HeldInv
<1> USE <1>1 DEF Save, Keep, Ask, Later, Config
<1>2. CASE Cap
  BY <1>2 DEF Cap, Entered
<1>3. CASE ConfigureDomain
  <2>1. c \in Config
    BY <1>3 DEF ConfigureDomain
  <2>2. /\ at = "duckdns" /\ at' \in {"custom", "token"} /\ finished' = finished
        /\ c' \in {[c EXCEPT !.token = FALSE, !.label = "legacy"], [c EXCEPT !.custom = FALSE]}
    BY <1>3 DEF ConfigureDomain, UseDuckDNS, Entered
  <2>3. \A conf \in {[c EXCEPT !.token = FALSE, !.label = "legacy"], [c EXCEPT !.custom = FALSE]} :
          conf.port = c.port /\ conf.ssKey = c.ssKey
    BY <2>1
  <2>4. QED
    BY <2>2, <2>3
<1>4. CASE CustomDomain
  BY <1>4 DEF CustomDomain, Entered
<1>5. CASE Token
  BY <1>5 DEF Token, Entered
<1>6. CASE Subdomain
  BY <1>6 DEF Subdomain, Entered
<1>7. CASE ConfigureCamouflage
  BY <1>7 DEF ConfigureCamouflage, UseTLS, UseReality, Finishes
<1>8. CASE Agree
  BY <1>8 DEF Agree, Finishes
<1>9. CASE Acknowledge
  BY <1>9 DEF Acknowledge, Finishes
<1>10. CASE ChooseReality
  BY <1>10 DEF ChooseReality, Chosen, Generated, Finishes
<1>11. QED
  BY <1>2, <1>3, <1>4, <1>5, <1>6, <1>7, <1>8, <1>9, <1>10

(* What PortsOf says depends on the ports and the server key only. *)
LEMMA PortsOfSame ==
  ASSUME NEW x, NEW y, x.port = y.port, x.ssKey = y.ssKey, NEW S, PortsOf(x, S)
  PROVE  PortsOf(y, S)
  BY DEF PortsOf

(* Answering the question about a protocol settles it. *)
LEMMA Settling ==
  ASSUME TypeInv, at \in {"port", "enable"}, at' = "public", proto' = proto
  PROVE  Settled' = Settled \cup {proto}
  BY ProtoFacts DEF Settled, TypeInv, TypeOK, Proto

LEMMA Asking ==
  ASSUME TypeInv, AskNext(proto)
  PROVE  /\ at \in {"enable", "port"} => Settled' = Settled \cup {proto}
         /\ at = "public" => Settled' = Settled
         /\ at' \in {"cap", "enable"}
         /\ at' = "enable" => proto' # "vless"
<1>1. proto \in Proto
  BY DEF TypeInv, TypeOK
<1>2. /\ \A p \in Proto : Place(p) \in 1..4
      /\ \A p, r \in Proto : Place(p) = Place(r) => p = r
  BY ProtoFacts DEF Proto
<1>3. /\ at \in {"enable", "port"} => Settled = {p \in Proto : Place(p) < Place(proto)}
      /\ at = "public" => Settled = {p \in Proto : Place(p) <= Place(proto)}
  BY DEF Settled
<1>4. CASE proto = "ss2022"
  <2>1. at' = "cap" /\ Settled' = Proto /\ Place(proto) = 4
    BY <1>4, ProtoFacts DEF AskNext, Ask, Settled
  <2>2. QED
    BY <1>1, <1>2, <1>3, <2>1
<1>5. CASE proto # "ss2022"
  <2>1. at' = "enable" /\ proto' \in Proto /\ Place(proto') = Place(proto) + 1
    BY <1>1, <1>5, ProtoFacts DEF AskNext, Ask
  <2>2. Settled' = {p \in Proto : Place(p) < Place(proto) + 1}
    BY <2>1 DEF Settled
  <2>3. proto' # "vless"
    BY <1>1, <1>2, <2>1, ProtoFacts
  <2>4. at = "public" => Settled' = Settled
    BY <1>1, <1>2, <1>3, <2>2
  <2>5. ASSUME at \in {"enable", "port"}, NEW p \in Proto
        PROVE  Place(p) < Place(proto) + 1 <=> Place(p) < Place(proto) \/ p = proto
    BY <1>1, <1>2
  <2>6. at \in {"enable", "port"} => Settled' = Settled \cup {proto}
    BY <1>1, <1>3, <2>2, <2>5
  <2>7. QED
    BY <2>1, <2>3, <2>4, <2>6
<1>6. QED
  BY <1>4, <1>5

(* A protocol that is off, and one whose port is none of the others', join  *)
(* those that are settled.                                                  *)
LEMMA PortsOfJoin ==
  ASSUME NEW x \in Config, NEW y \in Config, NEW p \in Proto, NEW S \in SUBSET Proto,
         PortsOf(x, S),
         \A r \in Proto : r # p => y.port[r] = x.port[r],
         \/ y.port[p] = 0 /\ p # "vless"
         \/ y.port[p] # 0 /\ \A r \in S : r # p => y.port[p] # x.port[r],
         y.ssKey = x.ssKey \/ y.ssKey # 0,
         p = "ss2022" /\ y.port[p] # 0 => y.ssKey # 0
  PROVE  PortsOf(y, S \cup {p})
<1>1. ASSUME NEW q \in S \cup {p}, NEW r \in S \cup {p}, y.port[q] # 0, y.port[q] = y.port[r]
      PROVE  q = r
  BY <1>1 DEF PortsOf
<1>2. "vless" \in S \cup {p} => y.port["vless"] # 0
  BY DEF PortsOf
<1>3. "ss2022" \in S \cup {p} /\ y.port["ss2022"] # 0 => y.ssKey # 0
  BY DEF PortsOf
<1>4. QED
  BY <1>1, <1>2, <1>3 DEF PortsOf

LEMMA PortNotZero == 0 \notin Port
  BY DEF Port

LEMMA PortsInvNext == TypeInv /\ PortsInv /\ [Next]_vars => PortsInv'
<1> SUFFICES ASSUME TypeInv, PortsInv, [Next]_vars PROVE PortsInv'
  OBVIOUS
<1>0. at' # "idle" => c' \in Config /\ disk' \in Config
  BY TypeInvNext DEF TypeInv, HeldInv
<1>1. /\ at # "idle" => c \in Config /\ disk \in Config /\ PortsOf(c, Settled)
      /\ proto \in Proto /\ (at = "enable" => proto # "vless")
  BY DEF TypeInv, TypeOK, HeldInv, PortsInv
<1>2. ASSUME ~finished', PortsOf(c', Settled') \/ at' = "idle", at' = "enable" => proto' # "vless"
      PROVE  PortsInv'
  BY <1>2 DEF PortsInv
<1>3. at \notin {"idle", "install"} => ~finished
  BY DEF PortsInv
<1>4. CASE StartSetup
  <2>1. at' = "port" /\ proto' = "vless" /\ ~finished'
    BY <1>4, Zenon DEF StartSetup, Ask
  <2>2. Settled' = {}
    BY <2>1, ProtoFacts DEF Settled, Proto
  <2>3. QED
    BY <1>2, <2>1, <2>2 DEF PortsOf
<1>5. CASE Enable
  <2>1. CASE at' = "port"
    <3>1. c' = c /\ at = "enable" /\ proto' = proto /\ finished' = finished
      BY <1>5, <2>1, Asking DEF Enable, Keep, Ask, Entered
    <3>2. Settled' = Settled
      BY <2>1, <3>1 DEF Settled
    <3>3. QED
      BY <1>1, <1>2, <1>3, <3>1, <3>2
  <2>2. CASE at' # "port"
    <3>1. c' = Disabled(proto) /\ AskNext(proto) /\ finished' = finished /\ at = "enable"
      BY <1>5, <2>2 DEF Enable, Save, Ask, Entered
    <3>2. c'.port = [c.port EXCEPT ![proto] = 0] /\ c'.ssKey = c.ssKey /\ proto # "vless"
      BY <1>1, <3>1 DEF Disabled, Config
    <3>3. Settled' = Settled \cup {proto} /\ Settled \subseteq Proto
      BY <3>1, Asking DEF Settled
    <3>4. c' \in Config
      BY <1>0, <3>1 DEF AskNext, Ask
    <3>5. PortsOf(c', Settled')
      BY <1>1, <3>1, <3>2, <3>3, <3>4, ConfigFields, PortsOfJoin
    <3>6. QED
      BY <1>2, <1>3, <3>1, <3>5, Asking
  <2>3. QED
    BY <2>1, <2>2
<1>6. CASE AskPort
  <2>1. PICK n \in DefaultPorts(c, proto) \cup Typed[proto] :
          /\ n \notin Reserved(c, proto)
          /\ LET conf == [c EXCEPT !.port[proto] = n,
                                   !.ssKey = IF proto = "ss2022" /\ @ = 0 THEN 1 ELSE @]
             IN  /\ IF proto = "vless" THEN Save(conf) ELSE Keep(conf)
                 /\ Ask("public", proto)
                 /\ Entered(n \in DefaultPorts(c, proto))
    BY <1>6, Zenon DEF AskPort, collidesPort
  <2>2. at = "port" /\ at' = "public" /\ proto' = proto /\ finished' = finished
    BY <1>6, <2>1, Zenon DEF AskPort, Ask, Entered
  <2>3. c' = [c EXCEPT !.port[proto] = n, !.ssKey = IF proto = "ss2022" /\ @ = 0 THEN 1 ELSE @]
    BY <2>1, Zenon DEF Save, Keep
  <2>4. /\ c'.port = [c.port EXCEPT ![proto] = n]
        /\ c'.ssKey = c.ssKey \/ c'.ssKey # 0
        /\ proto = "ss2022" => c'.ssKey # 0
    BY <1>1, <2>2, <2>3 DEF Config
  <2>5. Settled = {p \in Proto : Place(p) < Place(proto)} /\ Settled' = Settled \cup {proto}
    BY <2>2, Settling DEF Settled
  <2>6. n # 0 /\ \A r \in Settled : n # c.port[r]
    <3>1. n \in Port
      BY <1>1, <2>2, PortTypes, InputAssumption
    <3>2. \A r \in Settled : c.port[r] = 0 \/ c.port[r] \in Reserved(c, proto)
      BY <2>5 DEF Reserved
    <3>3. n # 0
      BY <3>1, PortNotZero
    <3>4. n \notin Reserved(c, proto)
      BY <2>1, Zenon
    <3>5. QED
      BY <3>2, <3>3, <3>4
  <2>7. c' \in Config
    BY <1>0, <2>2
  <2>8. PortsOf(c', Settled')
    BY <1>1, <2>2, <2>4, <2>5, <2>6, <2>7, ConfigFields, PortsOfJoin
  <2>9. QED
    BY <1>2, <1>3, <2>2, <2>8
<1>7. CASE KeyFails
  <2>1. /\ c' = Disabled("ss2022") /\ AskNext(proto) /\ proto = "ss2022" /\ at = "port"
        /\ finished' = finished
    BY <1>7 DEF KeyFails, Save, Entered
  <2>2. c'.port = [c.port EXCEPT !["ss2022"] = 0] /\ c'.ssKey = c.ssKey
    BY <1>1, <2>1 DEF Disabled, Config
  <2>3. Settled' = Settled \cup {proto} /\ Settled \subseteq Proto
    BY <2>1, Asking DEF Settled
  <2>4. c' \in Config
    BY <1>0, <2>1 DEF AskNext, Ask
  <2>5. PortsOf(c', Settled')
    BY <1>1, <2>1, <2>2, <2>3, <2>4, ConfigFields, PortsOfJoin
  <2>6. QED
    BY <1>2, <1>3, <2>1, <2>5, Asking
<1>8. CASE AskPublicPort
  <2>1. /\ at = "public" /\ AskNext(proto) /\ finished' = finished
        /\ c'.port = c.port /\ c'.ssKey = c.ssKey
    BY <1>1, <1>8 DEF AskPublicPort, SavePublic, Save, Entered, Config
  <2>2. QED
    BY <1>1, <1>2, <1>3, <2>1, Asking, PortsOfSame
<1>9. CASE Cap \/ ConfigureDomain \/ CustomDomain \/ Token \/ Subdomain
             \/ ConfigureCamouflage \/ Agree \/ Acknowledge \/ ChooseReality
  <2>1. /\ at \in Later /\ at' \in Later
        /\ c'.port = c.port /\ c'.ssKey = c.ssKey
        /\ finished' => disk' = c' \/ finished
    BY <1>9, LaterKeepsPorts
  <2>2. PortsOf(c', Proto) /\ Settled' = Proto
    BY <1>1, <2>1, PortsOfSame DEF Settled, Later
  <2>3. CASE at = "install"
    BY <1>9, <2>3 DEF Cap, ConfigureDomain, CustomDomain, Token, Subdomain,
       ConfigureCamouflage, Agree, Acknowledge, ChooseReality
  <2>4. CASE at # "install" /\ ~finished'
    BY <1>2, <2>1, <2>2, <2>4 DEF Later
  <2>5. CASE at # "install" /\ finished'
    <3>1. disk' = c' /\ at' = "install"
      BY <1>3, <1>9, <2>1, <2>5 DEF Cap, ConfigureDomain, CustomDomain, Token, Subdomain,
         ConfigureCamouflage, UseTLS, UseReality, Agree, Acknowledge, ChooseReality,
         Finishes, Entered, Ask, Later
    <3>2. QED
      BY <1>0, <2>2, <3>1 DEF PortsInv
  <2>6. QED
    BY <2>3, <2>4, <2>5
<1>10. CASE AgreeFails \/ RealityFails
  <2>1. at' = "idle" /\ ~finished'
    BY <1>3, <1>10 DEF AgreeFails, RealityFails, Ends, Ask
  <2>2. QED
    BY <1>2, <2>1
<1>11. CASE Leave
  BY <1>11 DEF Leave, Ends, Ask, PortsInv
<1>12. CASE PlaceCert \/ Start \/ Stop \/ UNCHANGED vars
  BY <1>12 DEF PlaceCert, Start, Stop, setupVars, vars, PortsInv, Settled
<1>13. QED
  BY <1>4, <1>5, <1>6, <1>7, <1>8, <1>9, <1>10, <1>11, <1>12 DEF Next

LEMMA PortsAlways == Spec => [](TypeInv /\ PortsInv)
<1>1. Init => PortsInv
  BY DEF Init, PortsInv
<1>2. QED
  BY <1>1, TypeInvInit, TypeInvNext, PortsInvNext, PTL DEF Spec

LEMMA FinishedDistinct == PortsInv => PortsDistinct
  BY DEF PortsInv, PortsOf, PortsDistinct, DistinctPorts, Distinct, Enabled

(* A setup that ran to its end leaves every enabled protocol a port of its  *)
(* own (askProtocolPort; Setup's PortsDistinct).                            *)
THEOREM PortsAlwaysDistinct == Spec => []PortsDistinct
  BY PortsAlways, FinishedDistinct, PTL

(* Ports left in the recommended ranges clash with nothing, the loopback    *)
(* ports and the site's included (Setup's RangesApart).                     *)
THEOREM RangesAlwaysApart == Spec => []RangesApart
<1>1. PortsInv => RangesApart
  <2> SUFFICES ASSUME PortsInv, finished, InRanges(disk) PROVE Apart(disk)
    BY DEF RangesApart
  <2>1. disk \in Config /\ DistinctPorts(disk)
    BY FinishedDistinct DEF PortsInv, PortsDistinct
  <2>2. QED
    BY <2>1, RangesClear
<1>2. QED
  BY <1>1, PortsAlways, PTL

---------------------------------------------------------------------------
(* Names: a token and a domain of one's own exclude each other.            *)

OneName(conf) == conf \in Config => ~(conf.token /\ conf.custom)

NamesInv ==
  /\ OneName(disk) /\ OneName(c)
  /\ at = "custom" => ~c.token
  /\ at \in {"token", "label"} => ~c.custom

(* Choosing the camouflage saves it and goes on to one of four questions. *)
LEMMA CamouflageSteps ==
  ConfigureCamouflage =>
    \E m \in {"reality", "tls"}, q \in {"install", "agree", "acknowledge", "scan"} :
       Save([c EXCEPT !.camouflage = m]) /\ Ask(q, "vless")
<1> DEFINE Four == {"install", "agree", "acknowledge", "scan"}
<1>1. \A conf : UseTLS(conf) => Save(conf) /\ \E q \in Four : Ask(q, "vless")
  BY Zenon DEF UseTLS, Finishes
<1>2. \A conf, m : UseReality(conf, m = c.camouflage) => Save(conf) /\ \E q \in Four : Ask(q, "vless")
  BY Zenon DEF UseReality
<1> HIDE DEF Four
<1>3. QED
  BY <1>1, <1>2, Zenon DEF ConfigureCamouflage, Four

LEMMA NamesInvNext == TypeInv /\ NamesInv /\ [Next]_vars => NamesInv'
<1> SUFFICES ASSUME TypeInv, NamesInv, [Next]_vars PROVE NamesInv'
  OBVIOUS
<1>1. at # "idle" => c \in Config /\ disk \in Config
  BY DEF TypeInv, HeldInv
<1>2. ASSUME at # "idle", c'.token = c.token, c'.custom = c.custom, disk' \in {disk, c, c'},
             at' \notin {"custom", "token", "label"}
      PROVE  NamesInv'
  BY <1>1, <1>2 DEF NamesInv, OneName
<1>3. CASE StartSetup
  BY <1>3 DEF StartSetup, Save, Ask, Default, NamesInv, OneName
<1>4. CASE Enable \/ KeyFails
  BY <1>1, <1>2, <1>4 DEF Enable, KeyFails, Save, Keep, Disabled, AskNext, Ask, Config
<1>5. CASE AskPort
  <2>1. at = "port" /\ at' = "public" /\ disk' \in {disk, c'}
    BY <1>5, Zenon DEF AskPort, Ask, Save, Keep
  <2>2. c'.token = c.token /\ c'.custom = c.custom
    BY <1>1, <1>5, <2>1 DEF AskPort, Save, Keep, Config
  <2>3. QED
    BY <1>2, <2>1, <2>2
<1>6. CASE AskPublicPort
  BY <1>1, <1>2, <1>6 DEF AskPublicPort, SavePublic, Save, AskNext, Ask, Config
<1>7. CASE Cap
  BY <1>1, <1>2, <1>7 DEF Cap, Save, Ask, Config
<1>8. CASE ConfigureDomain
  BY <1>1, <1>8 DEF ConfigureDomain, UseDuckDNS, Keep, Ask, NamesInv, OneName, Config
<1>9. CASE CustomDomain
  BY <1>1, <1>9 DEF CustomDomain, Save, Ask, NamesInv, OneName, Config
<1>10. CASE Token
  BY <1>1, <1>10 DEF Token, Save, Ask, NamesInv, OneName, Config
<1>11. CASE Subdomain
  BY <1>1, <1>2, <1>11 DEF Subdomain, Save, Ask, Config
<1>12. CASE ConfigureCamouflage
  <2>1. /\ at = "camouflage"
        /\ \E m \in {"reality", "tls"}, q \in {"install", "agree", "acknowledge", "scan"} :
              Save([c EXCEPT !.camouflage = m]) /\ Ask(q, "vless")
    BY <1>12, CamouflageSteps DEF ConfigureCamouflage
  <2>2. /\ c'.token = c.token /\ c'.custom = c.custom /\ disk' = c'
        /\ at' \notin {"custom", "token", "label"}
    BY <1>1, <2>1 DEF Save, Ask, Config
  <2>3. QED
    BY <1>2, <2>1, <2>2
<1>13. CASE Agree \/ Acknowledge \/ ChooseReality
  <2>1. CASE Agree
    BY <1>1, <1>2, <2>1 DEF Agree, Finishes, Save, Ask, Config
  <2>2. CASE Acknowledge
    BY <1>1, <1>2, <2>2 DEF Acknowledge, Finishes, Save, Ask
  <2>3. CASE ChooseReality
    BY <1>1, <1>2, <2>3 DEF ChooseReality, Chosen, Generated, Finishes, Save, Ask, Config
  <2>4. QED
    BY <1>13, <2>1, <2>2, <2>3
<1>14. CASE AgreeFails \/ RealityFails \/ Leave
  BY <1>1, <1>14 DEF AgreeFails, RealityFails, Leave, Chosen, Ends, Ask, NamesInv, OneName, Config
<1>15. CASE PlaceCert \/ Start \/ Stop \/ UNCHANGED vars
  BY <1>15 DEF PlaceCert, Start, Stop, setupVars, vars, NamesInv, OneName
<1>16. QED
  BY <1>3, <1>4, <1>5, <1>6, <1>7, <1>8, <1>9, <1>10, <1>11, <1>12, <1>13, <1>14, <1>15
     DEF Next

LEMMA NamesAlways == Spec => [](TypeInv /\ NamesInv)
<1>1. Init => NamesInv
  BY DEF Init, NamesInv, OneName, NoConfig, Config
<1>2. QED
  BY <1>1, TypeInvInit, TypeInvNext, NamesInvNext, PTL DEF Spec

(* In TLS mode links name the host the certificate is for (configureDomain; *)
(* Setup's LinksNameCert).                                                  *)
THEOREM LinksAlwaysNameCert == Spec => []LinksNameCert
<1>1. TypeInv /\ NamesInv => LinksNameCert
  BY DEF TypeInv, TypeOK, NamesInv, OneName, LinksNameCert, Domain, TLSHost, DuckDNSHost,
     Config, Label, NoName
<1>2. QED
  BY <1>1, NamesAlways, PTL

---------------------------------------------------------------------------
(* A setup that ran to its end.                                            *)

Complete(conf) ==
  /\ IsConfigured(conf)
  /\ CamouflageTLS(conf) => TLSManualCert(conf) \/ cert = TLSHost(conf)
  /\ ~ CamouflageTLS(conf) => conf.site # NoName

StageInv ==
  /\ at = "agree" => CamouflageTLS(c) /\ DuckDNSHost(c) # NoName
  /\ at = "acknowledge" => CamouflageTLS(c) /\ TLSManualCert(c)
  /\ at = "scan" => c.camouflage = "reality"
  /\ finished => at \in {"idle", "install"} /\ Complete(disk)

LEMMA StageInvNext == TypeInv /\ StageInv /\ [Next]_vars => StageInv'
<1> SUFFICES ASSUME TypeInv, StageInv, [Next]_vars PROVE StageInv'
  OBVIOUS
<1>1. at # "idle" => c \in Config /\ disk \in Config
  BY DEF TypeInv, HeldInv
<1>2. ASSUME at \notin {"idle", "install"}, finished' = finished,
             at' \notin {"agree", "acknowledge", "scan"}
      PROVE  StageInv'
  BY <1>2 DEF StageInv
<1>3. ASSUME finished', at' = "install", Complete(disk)'
      PROVE  StageInv'
  BY <1>3 DEF StageInv
<1>4. CASE StartSetup
  BY <1>4 DEF StartSetup, Ask, StageInv
<1>5. CASE Enable \/ KeyFails
  BY <1>2, <1>5 DEF Enable, KeyFails, AskNext, Ask, Entered
<1>6. CASE AskPort
  <2>1. at = "port" /\ at' = "public" /\ finished' = finished
    BY <1>6, Zenon DEF AskPort, Ask, Entered
  <2>2. QED
    BY <1>2, <2>1
<1>7. CASE AskPublicPort
  BY <1>2, <1>7 DEF AskPublicPort, AskNext, Ask, Entered
<1>8. CASE Cap \/ ConfigureDomain \/ CustomDomain \/ Token \/ Subdomain
  BY <1>2, <1>8 DEF Cap, ConfigureDomain, CustomDomain, Token, Subdomain, Ask, Entered
<1>9. CASE ConfigureCamouflage
  <2>1. at = "camouflage" /\ cert' = cert /\ c \in Config
    BY <1>1, <1>9 DEF ConfigureCamouflage
  <2> DEFINE tls == [c EXCEPT !.camouflage = "tls"]
             reality == [c EXCEPT !.camouflage = "reality"]
  <2>2. /\ tls.camouflage = "tls" /\ tls.custom = c.custom /\ DuckDNSHost(tls) = DuckDNSHost(c)
        /\ reality.camouflage = "reality"
    BY <2>1 DEF DuckDNSHost, Config
  <2> HIDE DEF tls, reality
  <2>3. CASE CanUseTLS(c) /\ UseTLS(tls)
    <3>1. CASE DuckDNSHost(tls) # NoName /\ cert = TLSHost(tls)
      <4>1. finished' = TRUE /\ at' = "install" /\ disk' = tls
        BY <2>3, <3>1 DEF UseTLS, Finishes, Save, Ask
      <4>2. Complete(tls)
        BY <2>2, <3>1 DEF Complete, IsConfigured, CamouflageTLS, TLSHost
      <4>3. QED
        BY <1>3, <2>1, <4>1, <4>2 DEF Complete
    <3>2. CASE ~(DuckDNSHost(tls) # NoName /\ cert = TLSHost(tls))
      <4>1. /\ finished' = finished /\ c' = tls
            /\ at' = IF DuckDNSHost(tls) # NoName THEN "agree" ELSE "acknowledge"
        BY <2>3, <3>2 DEF UseTLS, Save, Ask
      <4>2. QED
        BY <2>1, <2>2, <2>3, <4>1 DEF StageInv, CanUseTLS, CamouflageTLS, TLSManualCert
    <3>3. QED
      BY <3>1, <3>2
  <2>4. ASSUME NEW m, UseReality(reality, m = c.camouflage) PROVE StageInv'
    <3>1. finished' = finished /\ c' = reality /\ at' = "scan"
      BY <2>4, Zenon DEF UseReality, Save, Ask
    <3>2. QED
      BY <2>1, <2>2, <3>1 DEF StageInv
  <2>5. QED
    BY <1>9, <2>3, <2>4, Zenon DEF ConfigureCamouflage, tls, reality
<1>10. CASE Agree
  <2>1. /\ at = "agree" /\ c \in Config /\ disk' = [c EXCEPT !.agree = TRUE]
        /\ finished' = TRUE /\ at' = "install" /\ cert' = TLSHost(c)
    BY <1>1, <1>10 DEF Agree, Finishes, Save, Ask
  <2>2. disk'.camouflage = c.camouflage /\ TLSHost(disk') = TLSHost(c) /\ DuckDNSHost(disk') = DuckDNSHost(c)
    BY <2>1 DEF TLSHost, DuckDNSHost, Config
  <2>3. Complete(disk)'
    BY <2>1, <2>2 DEF Complete, StageInv, IsConfigured, CamouflageTLS, TLSHost
  <2>4. QED
    BY <1>3, <2>1, <2>3
<1>11. CASE Acknowledge
  <2>1. /\ at = "acknowledge" /\ disk' = c /\ finished' = TRUE /\ at' = "install"
    BY <1>11 DEF Acknowledge, Finishes, Save, Ask
  <2>2. Complete(disk)'
    BY <2>1 DEF Complete, StageInv, IsConfigured, CamouflageTLS, TLSManualCert, TLSHost,
       CustomName, NoName
  <2>3. QED
    BY <1>3, <2>1, <2>2
<1>12. CASE ChooseReality
  <2>1. PICK s \in Site : disk' = Generated([c EXCEPT !.site = s])
    BY <1>12 DEF ChooseReality, Chosen, Finishes, Save
  <2>2. at = "scan" /\ c \in Config /\ finished' = TRUE /\ at' = "install"
    BY <1>1, <1>12 DEF ChooseReality, Finishes, Ask
  <2>3. disk'.camouflage = c.camouflage /\ disk'.site = s /\ disk'.keys # 0
    BY <2>1, <2>2 DEF Generated, Config
  <2>4. Complete(disk)'
    BY <2>2, <2>3, InputAssumption DEF Complete, StageInv, IsConfigured, CamouflageTLS
  <2>5. QED
    BY <1>3, <2>2, <2>4
<1>13. CASE AgreeFails \/ RealityFails
  BY <1>2, <1>13 DEF AgreeFails, RealityFails, Ends, Ask
<1>14. CASE Leave
  BY <1>14 DEF Leave, Ends, Ask, StageInv, Complete
<1>15. CASE PlaceCert
  BY <1>15 DEF PlaceCert, setupVars, StageInv, Complete
<1>16. CASE Start
  BY <1>16 DEF Start, CertReady, setupVars, StageInv, Complete
<1>17. CASE Stop \/ UNCHANGED vars
  BY <1>17 DEF Stop, setupVars, vars, StageInv, Complete
<1>18. QED
  BY <1>4, <1>5, <1>6, <1>7, <1>8, <1>9, <1>10, <1>11, <1>12, <1>13, <1>14, <1>15,
     <1>16, <1>17 DEF Next

(* A setup that ran to its end leaves the credentials complete: keys and a  *)
(* site, or a domain and, unless the operator brings it, its certificate    *)
(* (configureCamouflage; Setup's CredentialsComplete).                      *)
THEOREM CredentialsAlwaysComplete == Spec => []CredentialsComplete
<1>1. Init => StageInv
  BY DEF Init, StageInv
<1>2. StageInv => CredentialsComplete
  BY DEF StageInv, Complete, CredentialsComplete
<1>3. QED
  BY <1>1, <1>2, TypeInvInit, TypeInvNext, StageInvNext, PTL DEF Spec

---------------------------------------------------------------------------
(* The links a running node answers.                                       *)

(* With ports that are apart, whoever binds first, every socket is had.     *)
LEMMA ApartListens ==
  ASSUME NEW conf \in Config, Apart(conf), NEW l \in Listenings(conf)
  PROVE  l.up = Enabled(conf) /\ (CamouflageTLS(conf) => l.site)
<1>1. /\ l.up \subseteq Enabled(conf)
      /\ l.site <=> CamouflageTLS(conf) /\ SiteFree(conf, l.up)
      /\ conf.cap => Fronts(conf, l.up, l.site)
      /\ ~conf.cap => l.up = Enabled(conf)
  BY DEF Listenings
<1>2. CamouflageTLS(conf) => SitePort \notin XrayPorts(conf) \cup Bound(conf)
  BY DEF Apart
<1>3. CamouflageTLS(conf) => l.site
  BY <1>1, <1>2 DEF SiteFree, Bound
<1>4. ASSUME conf.cap, NEW p \in Enabled(conf), p \notin l.up
      PROVE  FALSE
  <2>1. conf.port[p] \in XrayPorts(conf) \cup {conf.port[r] : r \in l.up}
        \/ (CamouflageTLS(conf) /\ conf.port[p] = SitePort)
    BY <1>1, <1>4 DEF Fronts
  <2>2. conf.port[p] \notin XrayPorts(conf)
    BY <1>4 DEF XrayPorts, ListenPort, Apart
  <2>3. conf.port[p] \notin {conf.port[r] : r \in l.up}
    BY <1>1, <1>4 DEF Apart, DistinctPorts, Distinct
  <2>4. QED
    BY <1>2, <1>4, <2>1, <2>2, <2>3 DEF Bound
<1>5. QED
  BY <1>1, <1>3, <1>4

(* A router that forwards as told leads each link to its own protocol.      *)
LEMMA ApartAnswers ==
  ASSUME NEW conf \in Config, Apart(conf), NEW link \in Links(conf)
  PROVE  Answered(conf, link, Enabled(conf))
<1>1. PICK p \in Enabled(conf) : link.proto = p /\ link.port = DialPort(conf, p)
  BY DEF Links, clientLink
<1>2. \A r \in Enabled(conf) : DialPort(conf, r) = DialPort(conf, p) => r = p
  BY DEF Apart
<1>3. Forwarded(conf, link.port) = {conf.port[r] : r \in {q \in Enabled(conf) : link.port = DialPort(conf, q)}}
  BY DEF Forwarded, DialPort
<1>4. Forwarded(conf, link.port) = {conf.port[p]}
  BY <1>1, <1>2, <1>3
<1>5. QED
  BY <1>1, <1>4 DEF Answered

NodeInv ==
  node = "current" => at = "idle" /\ disk # NoConfig /\ listening \in Listenings(disk)

LEMMA NodeInvNext == TypeInv /\ NodeInv /\ [Next]_vars => NodeInv'
<1> SUFFICES ASSUME NodeInv, [Next]_vars PROVE NodeInv'
  OBVIOUS
<1>1. CASE StartSetup
  BY <1>1 DEF StartSetup, NodeInv
<1>2. CASE Enable \/ KeyFails \/ AskPublicPort \/ Cap \/ ConfigureDomain
             \/ CustomDomain \/ Token \/ Subdomain
  BY <1>2 DEF Enable, KeyFails, AskPublicPort, Cap, ConfigureDomain, CustomDomain, Token,
     Subdomain, Entered, NodeInv
<1>3. CASE AskPort
  <2>1. at = "port" /\ node' = node
    BY <1>3, Zenon DEF AskPort, Entered
  <2>2. QED
    BY <2>1 DEF NodeInv
<1>4. CASE ConfigureCamouflage \/ Agree \/ AgreeFails \/ Acknowledge
             \/ ChooseReality \/ RealityFails \/ Leave
  BY <1>4 DEF ConfigureCamouflage, Agree, AgreeFails, Acknowledge, ChooseReality, RealityFails,
     Leave, nodeVars, NodeInv
<1>5. CASE PlaceCert
  BY <1>5 DEF PlaceCert, setupVars, nodeVars, NodeInv
<1>6. CASE Start \/ Stop
  BY <1>6 DEF Start, Stop, setupVars, nodeVars, NodeInv
<1>7. CASE UNCHANGED vars
  BY <1>7 DEF vars, NodeInv
<1>8. QED
  BY <1>1, <1>2, <1>3, <1>4, <1>5, <1>6, <1>7 DEF Next

(* A node that runs answers every link its configuration makes, if no two   *)
(* of its ports clash (inputFromConfig, innerPortFor, printPortForwardHelp; *)
(* Setup's LinksAnswered).                                                  *)
THEOREM LinksAlwaysAnswered == Spec => []LinksAnswered
<1>1. Init => NodeInv
  BY DEF Init, NodeInv
<1>2. TypeInv /\ NodeInv => LinksAnswered
  <2> SUFFICES ASSUME NodeInv, node = "current", disk \in Config, Apart(disk)
               PROVE  /\ \A link \in Links(disk) : Answered(disk, link, listening.up)
                      /\ CamouflageTLS(disk) => listening.site
    BY DEF LinksAnswered, NodeInv, TypeInv, TypeOK
  <2>1. listening.up = Enabled(disk) /\ (CamouflageTLS(disk) => listening.site)
    BY ApartListens DEF NodeInv
  <2>2. QED
    BY <2>1, ApartAnswers
<1>3. QED
  BY <1>1, <1>2, TypeInvInit, TypeInvNext, NodeInvNext, PTL DEF Spec

---------------------------------------------------------------------------
(* What an interrupted setup leaves.                                       *)

(* Answers that are kept in memory can be told from what is on disk.        *)
LEMMA Restored ==
  ASSUME NEW conf \in Config
  PROVE  /\ LET x == [conf EXCEPT !.token = FALSE, !.label = "legacy"]
            IN  conf = [x EXCEPT !.token = conf.token, !.label = conf.label]
         /\ LET x == [conf EXCEPT !.custom = FALSE]
            IN  conf = [x EXCEPT !.custom = conf.custom]
<1>1. LET x == [conf EXCEPT !.token = FALSE, !.label = "legacy"]
      IN  conf = [x EXCEPT !.token = conf.token, !.label = conf.label]
  BY DEF Config
<1>2. LET x == [conf EXCEPT !.custom = FALSE]
      IN  conf = [x EXCEPT !.custom = conf.custom]
  BY DEF Config
<1>3. QED
  BY <1>1, <1>2

LEMMA CheckpointedNext == TypeInv /\ Checkpointed /\ [Next]_vars => Checkpointed'
<1> SUFFICES ASSUME TypeInv, Checkpointed, [Next]_vars PROVE Checkpointed'
  OBVIOUS
<1>1. /\ at # "idle" => c \in Config
      /\ proto \in Proto
  BY DEF TypeInv, TypeOK, HeldInv
<1>2. at \notin {"idle", "public", "custom", "token"} => disk = c
  BY DEF Checkpointed
<1>3. ASSUME disk' = c', at' \notin {"public", "custom", "token"} PROVE Checkpointed'
  BY <1>3 DEF Checkpointed
<1>4. ASSUME at' = "idle" PROVE Checkpointed'
  BY <1>4 DEF Checkpointed
<1>5. CASE StartSetup
  BY <1>3, <1>5 DEF StartSetup, Save, Ask
<1>6. CASE Enable \/ KeyFails
  <2>1. at \in {"enable", "port"} /\ at' \in {"port", "cap", "enable"}
    BY <1>6 DEF Enable, KeyFails, AskNext, Ask
  <2>2. (c' = c /\ disk' = disk) \/ disk' = c'
    BY <1>6 DEF Enable, KeyFails, Keep, Save
  <2>3. QED
    BY <1>2, <1>3, <2>1, <2>2
<1>7. CASE AskPort
  <2>1. PICK n \in DefaultPorts(c, proto) \cup Typed[proto] :
          LET conf == [c EXCEPT !.port[proto] = n,
                                !.ssKey = IF proto = "ss2022" /\ @ = 0 THEN 1 ELSE @]
          IN  /\ IF proto = "vless" THEN Save(conf) ELSE Keep(conf)
              /\ Ask("public", proto)
    BY <1>7, Zenon DEF AskPort
  <2> DEFINE k == IF proto = "ss2022" /\ c.ssKey = 0 THEN 1 ELSE c.ssKey
             conf == [c EXCEPT !.port[proto] = n, !.ssKey = k]
  <2>2. at = "port" /\ c \in Config
    BY <1>1, <1>7 DEF AskPort
  <2>3. n \in Port \cup {0} /\ k \in {0, 1}
    BY <1>1, <2>2, PortTypes, ConfigFields, InputAssumption
  <2> HIDE DEF k
  <2>4. conf \in Config
    BY <1>1, <2>2, <2>3, ConfigPort
  <2>5. /\ at' = "public" /\ proto' = proto /\ c' = conf
        /\ IF proto = "vless" THEN disk' = conf ELSE disk' = c
    <3>1. IF proto = "vless" THEN Save(conf) ELSE Keep(conf)
      BY <2>1, Zenon DEF k
    <3>2. QED
      BY <1>2, <2>1, <2>2, <3>1 DEF Save, Keep, Ask
  <2>6. CASE proto = "vless"
    <3> HIDE DEF conf
    <3>1. QED
      BY <2>5, <2>6 DEF Checkpointed
  <2>7. CASE proto # "vless"
    <3> DEFINE key == IF proto = "ss2022" THEN c.ssKey ELSE conf.ssKey
               y == [conf EXCEPT !.port[proto] = c.port[proto], !.ssKey = key]
    <3>1. key = c.ssKey
      BY <2>2 DEF k, Config
    <3>2. conf.port = [c.port EXCEPT ![proto] = n] /\ y.port = [conf.port EXCEPT ![proto] = c.port[proto]]
      BY <2>2 DEF Config
    <3>3. y.port = c.port
      <4>1. c.port \in [Proto -> Port \cup {0}]
        BY <2>2, ConfigFields
      <4> HIDE DEF y, conf
      <4>2. QED
        BY <1>1, <3>2, <4>1
    <3>4. y = [c EXCEPT !.port = y.port] /\ c = [c EXCEPT !.port = c.port]
      <4> HIDE DEF key
      <4> QED BY <2>2, <3>1 DEF Config
    <3>5. y = c
      BY <3>3, <3>4, Zenon
    <3> HIDE DEF conf
    <3>6. disk' = c /\ disk' = [c' EXCEPT !.port[proto'] = disk'.port[proto'],
                                        !.ssKey = IF proto' = "ss2022" THEN disk'.ssKey ELSE @]
      BY <2>5, <2>7, <3>5
    <3>7. QED
      BY <2>5, <2>7, <3>6 DEF Checkpointed
  <2>8. QED
    BY <2>6, <2>7
<1>8. CASE AskPublicPort
  BY <1>3, <1>8 DEF AskPublicPort, SavePublic, Save, AskNext, Ask
<1>9. CASE Cap \/ CustomDomain \/ Subdomain
  BY <1>3, <1>9 DEF Cap, CustomDomain, Subdomain, Save, Ask
<1>10. CASE ConfigureDomain
  <2>1. disk' = c /\ c \in Config
    BY <1>1, <1>2, <1>10 DEF ConfigureDomain, Keep
  <2>2. CASE at' = "custom" /\ c' = [c EXCEPT !.token = FALSE, !.label = "legacy"]
    BY <2>1, <2>2, Restored DEF Checkpointed
  <2>3. CASE at' = "token" /\ c' = [c EXCEPT !.custom = FALSE]
    BY <2>1, <2>3, Restored DEF Checkpointed
  <2>4. QED
    BY <1>10, <2>2, <2>3 DEF ConfigureDomain, UseDuckDNS, Keep, Ask
<1>11. CASE Token
  BY <1>3, <1>11 DEF Token, Save, Ask
<1>12. CASE ConfigureCamouflage
  BY <1>3, <1>12, CamouflageSteps DEF Save, Ask
<1>13. CASE Agree \/ Acknowledge \/ ChooseReality
  <2>1. (\E conf : Finishes(conf))
    BY <1>13, Zenon DEF Agree, Acknowledge, ChooseReality
  <2>2. QED
    BY <1>3, <2>1 DEF Finishes, Save, Ask
<1>14. CASE AgreeFails \/ RealityFails \/ Leave
  BY <1>4, <1>14 DEF AgreeFails, RealityFails, Leave, Ends, Ask
<1>15. CASE PlaceCert \/ Start \/ Stop \/ UNCHANGED vars
  BY <1>15 DEF PlaceCert, Start, Stop, setupVars, vars, Checkpointed
<1>16. QED
  BY <1>5, <1>6, <1>7, <1>8, <1>9, <1>10, <1>11, <1>12, <1>13, <1>14, <1>15 DEF Next

(* At every question the file holds every answer so far, save for the three *)
(* that setup keeps in memory until the next is given (the calls of save;   *)
(* Setup's Checkpointed).                                                   *)
THEOREM AlwaysCheckpointed == Spec => []Checkpointed
<1>1. Init => Checkpointed
  BY DEF Init, Checkpointed
<1>2. QED
  BY <1>1, TypeInvInit, TypeInvNext, CheckpointedNext, PTL DEF Spec

---------------------------------------------------------------------------
(* What a setup run again leaves, when the operator only presses Enter.     *)

(* The fields x and b must share for their links to be the same, the        *)
(* borrowed site aside.                                                     *)
SameLinks(x, b) ==
  /\ x.port = b.port
  /\ \A p \in Enabled(b) : DialPort(x, p) = DialPort(b, p)
  /\ b.port["ss2022"] # 0 => x.ssKey = b.ssKey
  /\ x.token = b.token /\ x.custom = b.custom /\ (b.token => x.label = b.label)
  /\ x.camouflage = b.camouflage
  /\ ~ CamouflageTLS(b) => x.keys = b.keys

(* What setup started from was itself the work of a finished one. *)
WasFinished(b) == b \in Config /\ IsConfigured(b) /\ PortsOf(b, Proto) /\ OneName(b)

KeepInv ==
  before # NoConfig =>
    /\ at # "idle" /\ WasFinished(before) /\ SameLinks(c, before)
    /\ at = "port" => c.port[proto] # 0

LEMMA SameLinksSuffice ==
  ASSUME NEW x \in Config, NEW b \in Config, SameLinks(x, b)
  PROVE  Links([x EXCEPT !.site = b.site]) = Links(b)
<1> DEFINE y == [x EXCEPT !.site = b.site]
<1>1. /\ y.port = b.port /\ y.pub = x.pub /\ y.ssKey = x.ssKey /\ y.token = b.token
      /\ y.custom = b.custom /\ y.label = x.label /\ y.camouflage = b.camouflage
      /\ y.site = b.site /\ y.keys = x.keys
  BY DEF SameLinks, Config
<1> HIDE DEF y
<1>2. Enabled(y) = Enabled(b)
  BY <1>1 DEF Enabled
<1>3. /\ DuckDNSHost(y) = DuckDNSHost(b) /\ Domain(y) = Domain(b) /\ TLSHost(y) = TLSHost(b)
      /\ CamouflageTLS(y) = CamouflageTLS(b)
  BY <1>1 DEF SameLinks, DuckDNSHost, Domain, TLSHost, CamouflageTLS
<1>4. camouflageQuery(y) = camouflageQuery(b)
  BY <1>1, <1>3 DEF camouflageQuery, SameLinks
<1>5. ASSUME NEW p \in Enabled(b) PROVE clientLink(y, p) = clientLink(b, p)
  <2>1. DialPort(y, p) = DialPort(b, p)
    BY <1>1 DEF SameLinks, DialPort
  <2>2. p = "ss2022" => y.ssKey = b.ssKey
    BY <1>1, <1>5 DEF SameLinks, Enabled
  <2>3. QED
    BY <1>3, <1>4, <2>1, <2>2 DEF clientLink
<1>6. QED
  BY <1>2, <1>5 DEF Links, y

LEMMA KeepInvNext ==
  TypeInv /\ PortsInv /\ NamesInv /\ StageInv /\ KeepInv /\ [Next]_vars => KeepInv'
<1> SUFFICES ASSUME TypeInv, PortsInv, NamesInv, StageInv, KeepInv, [Next]_vars,
                    before' # NoConfig
             PROVE  KeepInv'
  BY DEF KeepInv
<1>1. proto \in Proto /\ (at # "idle" => c \in Config)
  BY DEF TypeInv, TypeOK, HeldInv
<1>2. before # NoConfig =>
        /\ WasFinished(before) /\ SameLinks(c, before)
        /\ at = "port" => c.port[proto] # 0
  BY DEF KeepInv
\* A question whose answer, before' says, was the default.
<1>3. ASSUME before' = before, at' \notin {"idle", "port"},
             SameLinks(c, before) => SameLinks(c', before)
      PROVE  KeepInv'
  BY <1>2, <1>3 DEF KeepInv
<1>4. CASE StartSetup
  <2>1. finished /\ before' = disk /\ c' = disk /\ at' = "port" /\ proto' = "vless"
    BY <1>4 DEF StartSetup, Save, Ask
  <2>2. disk \in Config /\ PortsOf(disk, Proto)
    BY <2>1 DEF PortsInv
  <2>3. WasFinished(disk)
    BY <2>1, <2>2 DEF WasFinished, StageInv, Complete, NamesInv
  <2>4. SameLinks(disk, disk) /\ disk.port["vless"] # 0
    BY <2>2 DEF SameLinks, PortsOf, Proto
  <2>5. QED
    BY <2>1, <2>3, <2>4 DEF KeepInv
<1>5. CASE Enable
  <2>1. c \in Config /\ proto # "vless"
    BY <1>1, <1>5 DEF Enable, PortsInv
  <2>2. CASE at' = "port"
    <3>1. c' = c /\ proto' = proto /\ before' = before /\ c.port[proto] # 0
      BY <1>5, <2>2, Asking DEF Enable, Keep, Ask, Entered
    <3>2. QED
      BY <1>2, <2>2, <3>1 DEF KeepInv
  <2>3. CASE at' # "port"
    <3>1. /\ at' \in {"cap", "enable"} /\ c' = Disabled(proto)
          /\ before' = before /\ c.port[proto] = 0
      BY <1>5, <2>3, Asking DEF Enable, Save, Ask, Entered
    <3>2. c'.port = [c.port EXCEPT ![proto] = 0] /\ c'.pub = [c.pub EXCEPT ![proto] = 0]
          /\ c'.ssKey = c.ssKey /\ c'.token = c.token /\ c'.custom = c.custom
          /\ c'.label = c.label /\ c'.camouflage = c.camouflage /\ c'.keys = c.keys
      BY <2>1, <3>1 DEF Disabled, Config
    <3>3. c'.port = c.port /\ \A p \in Proto : p # proto => c'.pub[p] = c.pub[p]
      BY <1>1, <2>1, <3>1, <3>2, ConfigFields
    <3>4. SameLinks(c, before) => SameLinks(c', before)
      BY <3>1, <3>2, <3>3 DEF SameLinks, Enabled, DialPort
    <3>5. QED
      BY <1>3, <3>1, <3>4
  <2>4. QED
    BY <2>2, <2>3
<1>6. CASE AskPort
  <2>1. PICK n : /\ LET conf == [c EXCEPT !.port[proto] = n,
                                          !.ssKey = IF proto = "ss2022" /\ @ = 0 THEN 1 ELSE @]
                    IN  IF proto = "vless" THEN Save(conf) ELSE Keep(conf)
                 /\ Ask("public", proto)
                 /\ Entered(n \in DefaultPorts(c, proto))
    BY <1>6, Zenon DEF AskPort
  <2>2. at = "port" /\ at' = "public" /\ c \in Config
    BY <1>1, <1>6, <2>1 DEF AskPort, Ask
  <2>3. c' = [c EXCEPT !.port[proto] = n, !.ssKey = IF proto = "ss2022" /\ @ = 0 THEN 1 ELSE @]
    BY <2>1, Zenon DEF Save, Keep
  <2>4. before' = before /\ n \in DefaultPorts(c, proto)
    BY <2>1, Zenon DEF Entered
  <2>5. n = c.port[proto]
    BY <1>2, <2>2, <2>4 DEF DefaultPorts
  <2>6. /\ c'.port = [c.port EXCEPT ![proto] = n] /\ c'.pub = c.pub
        /\ c'.ssKey = (IF proto = "ss2022" /\ c.ssKey = 0 THEN 1 ELSE c.ssKey)
        /\ c'.token = c.token /\ c'.custom = c.custom
        /\ c'.label = c.label /\ c'.camouflage = c.camouflage /\ c'.keys = c.keys
    BY <2>2, <2>3 DEF Config
  <2>7. c'.port = c.port
    BY <1>1, <2>2, <2>5, <2>6, ConfigFields
  <2>8. before.port["ss2022"] # 0 => c'.ssKey = c.ssKey
    BY <1>2, <2>4, <2>6 DEF WasFinished, PortsOf, SameLinks, Proto
  <2>9. SameLinks(c, before) => SameLinks(c', before)
    BY <2>6, <2>7, <2>8 DEF SameLinks, DialPort
  <2>10. QED
    BY <1>3, <2>2, <2>4, <2>9
<1>7. CASE KeyFails
  BY <1>7 DEF KeyFails, Entered
<1>8. CASE AskPublicPort
  <2>1. PICK n : /\ c' = [c EXCEPT !.pub[proto] = IF n = c.port[proto] THEN 0 ELSE n]
                 /\ Entered(n = DefaultPublic(c, proto))
    BY <1>8, Zenon DEF AskPublicPort, SavePublic, Save
  <2>2. at = "public" /\ AskNext(proto) /\ c \in Config
    BY <1>1, <1>8 DEF AskPublicPort
  <2>3. before' = before /\ n = DefaultPublic(c, proto)
    BY <2>1, Zenon DEF Entered
  <2>4. /\ c'.port = c.port /\ c'.pub = [c.pub EXCEPT ![proto] = IF n = c.port[proto] THEN 0 ELSE n]
        /\ c'.ssKey = c.ssKey /\ c'.token = c.token /\ c'.custom = c.custom
        /\ c'.label = c.label /\ c'.camouflage = c.camouflage /\ c'.keys = c.keys
    BY <2>1, <2>2 DEF Config
  <2>5. \A p \in Proto : c'.pub[p] = IF p = proto THEN IF n = c.port[proto] THEN 0 ELSE n ELSE c.pub[p]
    BY <1>1, <2>2, <2>4, ConfigFields
  <2>6. \A p \in Proto : DialPort(c', p) = DialPort(c, p)
    BY <2>3, <2>4, <2>5 DEF DialPort, DefaultPublic
  <2>7. SameLinks(c, before) => SameLinks(c', before)
    BY <2>4, <2>6 DEF SameLinks, Enabled
  <2>8. QED
    BY <1>3, <2>2, <2>3, <2>7, Asking
<1>9. CASE Cap
  BY <1>1, <1>3, <1>9 DEF Cap, Save, Ask, Entered, SameLinks, DialPort, Config
<1>10. CASE ConfigureDomain
  <2>1. c \in Config /\ before' = before /\ at' \in {"custom", "token"}
    BY <1>1, <1>10 DEF ConfigureDomain, Ask, Entered
  <2>2. CASE c' = [c EXCEPT !.token = FALSE, !.label = "legacy"] /\ ~c.token
    <3>1. SameLinks(c, before) => SameLinks(c', before)
      BY <2>1, <2>2 DEF SameLinks, DialPort, Config
    <3>2. QED
      BY <1>3, <2>1, <3>1
  <2>3. CASE c' = [c EXCEPT !.custom = FALSE] /\ c.token
    <3>1. ~c.custom
      BY <2>1, <2>3 DEF NamesInv, OneName
    <3>2. SameLinks(c, before) => SameLinks(c', before)
      BY <2>1, <2>3, <3>1 DEF SameLinks, DialPort, Config
    <3>3. QED
      BY <1>3, <2>1, <3>2
  <2>4. QED
    BY <1>10, <2>2, <2>3 DEF ConfigureDomain, UseDuckDNS, Keep, Entered
<1>11. CASE CustomDomain
  BY <1>1, <1>3, <1>11 DEF CustomDomain, Save, Ask, Entered, SameLinks, DialPort, Config
<1>12. CASE Token
  BY <1>1, <1>3, <1>12 DEF Token, Save, Ask, Entered, SameLinks, DialPort, Config
<1>13. CASE Subdomain
  BY <1>1, <1>3, <1>13 DEF Subdomain, Save, Ask, Entered, SameLinks, DialPort, Config
<1>14. CASE ConfigureCamouflage
  <2>1. at = "camouflage" /\ c \in Config
    BY <1>1, <1>14 DEF ConfigureCamouflage
  <2>2. ASSUME NEW m \in {"reality", "tls"}, Save([c EXCEPT !.camouflage = m]),
               at' \notin {"idle", "port"}, before' = before, m = c.camouflage
        PROVE  KeepInv'
    <3>1. /\ c'.port = c.port /\ c'.pub = c.pub /\ c'.ssKey = c.ssKey /\ c'.token = c.token
          /\ c'.custom = c.custom /\ c'.label = c.label /\ c'.keys = c.keys
          /\ c'.camouflage = c.camouflage
      BY <2>1, <2>2 DEF Save, Config
    <3>2. SameLinks(c, before) => SameLinks(c', before)
      BY <3>1 DEF SameLinks, DialPort
    <3>3. QED
      BY <1>3, <2>2, <3>2
  <2>3. CASE UseTLS([c EXCEPT !.camouflage = "tls"])
    <3>1. /\ Save([c EXCEPT !.camouflage = "tls"]) /\ at' \notin {"idle", "port"}
          /\ before' = before /\ c.camouflage = "tls"
      BY <2>3 DEF UseTLS, Finishes, Ask, CamouflageTLS
    <3>2. QED
      BY <2>2, <3>1
  <2>4. ASSUME NEW m \in {"reality", "tls"}, ~(m = "tls" /\ CanUseTLS(c)),
               UseReality([c EXCEPT !.camouflage = "reality"], m = c.camouflage)
        PROVE  KeepInv'
    <3>1. Save([c EXCEPT !.camouflage = "reality"]) /\ Ask("scan", "vless")
      BY <2>4, Zenon DEF UseReality
    <3>2. before' = before /\ m = c.camouflage
      BY <2>4, Zenon DEF UseReality
    <3>3. m # "tls"
      <4>1. ASSUME c.camouflage = "tls" PROVE CanUseTLS(c)
        BY <1>2, <3>2, <4>1 DEF WasFinished, IsConfigured, SameLinks, CamouflageTLS, TLSHost,
           DuckDNSHost, CanUseTLS
      <4>2. QED
        BY <2>4, <3>2, <4>1
    <3>4. QED
      BY <2>2, <2>4, <3>1, <3>2, <3>3 DEF Ask
  <2>5. QED
    BY <1>14, <2>3, <2>4, Zenon DEF ConfigureCamouflage
<1>15. CASE Agree
  <2>1. /\ at' = "install" /\ before' = before /\ c \in Config
        /\ c' = [c EXCEPT !.agree = TRUE]
    BY <1>1, <1>15 DEF Agree, Finishes, Save, Ask
  <2>2. SameLinks(c, before) => SameLinks(c', before)
    BY <2>1 DEF SameLinks, DialPort, Config
  <2>3. QED
    BY <1>3, <2>1, <2>2
<1>16. CASE Acknowledge
  BY <1>3, <1>16 DEF Acknowledge, Finishes, Save, Ask
<1>17. CASE ChooseReality
  <2>1. PICK s \in Site : c' = Generated([c EXCEPT !.site = s])
    BY <1>17 DEF ChooseReality, Chosen, Finishes, Save
  <2>2. at' = "install" /\ before' = before /\ c \in Config /\ ~CamouflageTLS(c)
    BY <1>1, <1>17 DEF ChooseReality, Finishes, Ask, StageInv, CamouflageTLS
  <2>3. c.keys # 0
    BY <1>2, <2>2 DEF WasFinished, IsConfigured, SameLinks, CamouflageTLS
  <2>4. /\ c'.port = c.port /\ c'.pub = c.pub /\ c'.ssKey = c.ssKey /\ c'.token = c.token
        /\ c'.custom = c.custom /\ c'.label = c.label /\ c'.keys = c.keys
        /\ c'.camouflage = c.camouflage
    BY <2>1, <2>2, <2>3 DEF Generated, Config
  <2>5. SameLinks(c, before) => SameLinks(c', before)
    BY <2>4 DEF SameLinks, DialPort
  <2>6. QED
    BY <1>3, <2>2, <2>5
<1>18. CASE AgreeFails \/ RealityFails \/ Leave
  BY <1>18 DEF AgreeFails, RealityFails, Leave, Ends
<1>19. CASE PlaceCert \/ Start \/ Stop \/ UNCHANGED vars
  BY <1>19 DEF PlaceCert, Start, Stop, setupVars, vars, KeepInv
<1>20. QED
  BY <1>4, <1>5, <1>6, <1>7, <1>8, <1>9, <1>10, <1>11, <1>12, <1>13, <1>14, <1>15,
     <1>16, <1>17, <1>18, <1>19 DEF Next

(* Setup run again with nothing but Enter keeps every link handed out, save *)
(* for a borrowed site that no longer answers (the defaults of every        *)
(* question; Setup's KeepsLinks).                                           *)
THEOREM AlwaysKeepsLinks == Spec => []KeepsLinks
<1>1. Init => PortsInv /\ NamesInv /\ StageInv /\ KeepInv /\ Checkpointed
  <2> SUFFICES ASSUME Init PROVE PortsInv /\ NamesInv /\ StageInv /\ KeepInv /\ Checkpointed
    OBVIOUS
  <2>1. PortsInv /\ StageInv /\ KeepInv /\ Checkpointed
    BY DEF Init, PortsInv, StageInv, KeepInv, Checkpointed
  <2>2. NamesInv
    BY DEF Init, NamesInv, OneName, NoConfig, Config
  <2>3. QED
    BY <2>1, <2>2
<1>2. TypeInv /\ PortsInv /\ KeepInv /\ Checkpointed => KeepsLinks
  <2> SUFFICES ASSUME TypeInv, PortsInv, KeepInv, Checkpointed, finished, before # NoConfig
               PROVE  Links([disk EXCEPT !.site = before.site]) = Links(before)
    BY DEF KeepsLinks
  <2>1. at = "install" /\ disk \in Config /\ before \in Config /\ SameLinks(c, before)
    BY DEF PortsInv, KeepInv, WasFinished
  <2>2. disk = c
    BY <2>1 DEF Checkpointed
  <2>3. QED
    BY <2>1, <2>2, SameLinksSuffice
<1>3. QED
  BY <1>1, <1>2, TypeInvInit, TypeInvNext, PortsInvNext, NamesInvNext, StageInvNext,
     KeepInvNext, CheckpointedNext, PTL DEF Spec
============================================================================
