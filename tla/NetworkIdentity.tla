-------------------------- MODULE NetworkIdentity --------------------------
(***************************************************************************)
(* How the daemon keeps its DuckDNS record and its location label in step  *)
(* with a public IP that changes (internal/commands/node.go,               *)
(* refreshNetworkIdentity and refreshLocation): once at the start of       *)
(* runNode and on each tick, three network calls in a row, any of which    *)
(* may fail, and between any two of which the IP may change again.         *)
(***************************************************************************)
EXTENDS TLC

CONSTANTS
  IP,        \* public addresses the node can have
  Label,     \* country codes
  Country,   \* what detectLocation answers at each address
  NoIP, NoLabel, \* the empty strings
  PublicIP,  \* config.PublicIP: NoIP, or what the operator once entered
  DuckDNS    \* TRUE: DuckDNSHost is configured

ASSUME AddressAssumption ==
  NoIP \notin IP /\ NoLabel \notin Label /\ PublicIP \in IP \cup {NoIP}
ASSUME CountryAssumption == Country \in [IP -> Label]
ASSUME DuckDNSAssumption == DuckDNS \in BOOLEAN

VARIABLES
  ip,     \* the node's public address
  dns,    \* the address DuckDNS answers with
  saved,  \* Location in config.json
  label,  \* c.Location, and loc, which subscriptions read
  lastIP, \* runNode's lastPublicIP
  seen,   \* refreshNetworkIdentity's ip
  pc,     \* where the daemon is; "idle" is before a refresh
  \* history, read by the properties only
  missed, \* a detection failed, or the address moved in the middle of a refresh
  lost,   \* an update failed since lastIP was set
  back    \* the address was lastIP again while, or when, one had failed

vars == <<ip, dns, saved, label, lastIP, seen, pc, missed, lost, back>>
history == <<missed, lost, back>>

TypeOK ==
  /\ ip \in IP /\ dns \in IP \cup {NoIP}
  /\ saved \in Label \cup {NoLabel} /\ label \in Label \cup {NoLabel}
  /\ lastIP \in IP \cup {NoIP} /\ seen \in IP \cup {NoIP}
  /\ pc \in {"off", "idle", "update", "locate"}
  /\ pc \in {"update", "locate"} => seen # NoIP
  /\ missed \in BOOLEAN /\ lost \in BOOLEAN /\ back \in BOOLEAN

Init ==
  /\ ip \in IP
  /\ dns \in {NoIP, ip}
  /\ saved \in {NoLabel, Country[ip]}
  /\ label = NoLabel /\ lastIP = NoIP /\ seen = NoIP /\ pc = "off"
  /\ missed = FALSE /\ lost = FALSE /\ back = FALSE

---------------------------------------------------------------------------
(* The provider gives the node another address. *)
Move(i) ==
  /\ i # ip /\ ip' = i
  /\ missed' = (missed \/ pc \in {"update", "locate"})
  /\ back' = (back \/ (lost /\ i = lastIP))
  /\ UNCHANGED <<dns, saved, label, lastIP, seen, pc, lost>>

(* runNode: config.Load, lastPublicIP := c.PublicIP, and the first refresh. *)
Start ==
  /\ pc = "off" /\ pc' = "idle"
  /\ label' = saved /\ lastIP' = PublicIP /\ seen' = NoIP
  /\ lost' = FALSE
  /\ UNCHANGED <<ip, dns, saved, missed, back>>

Kill == pc # "off" /\ pc' = "off" /\ UNCHANGED <<ip, dns, saved, label, lastIP, seen, history>>

(* fetchPublicIP answered: DuckDNS and the location if the address changed, *)
(* the location alone if there is none yet.                                 *)
Fetch ==
  /\ pc = "idle"
  /\ seen' = ip
  /\ pc' = IF ip # lastIP THEN "update"
           ELSE IF label = NoLabel THEN "locate" ELSE "idle"
  /\ UNCHANGED <<ip, dns, saved, label, lastIP, history>>

FetchFailsUnchecked ==
  /\ pc = "idle" /\ pc' = "update" /\ seen' = NoIP
  /\ UNCHANGED <<ip, dns, saved, label, lastIP, history>>

(* No service answered: not this time. *)
FetchFails == pc = "idle" /\ UNCHANGED vars

(* duckdns.Update answered OK, or there is none to update. *)
Update ==
  /\ pc = "update" /\ pc' = "locate"
  /\ dns' = IF DuckDNS THEN seen ELSE dns
  /\ lastIP' = seen /\ lost' = FALSE
  /\ UNCHANGED <<ip, saved, label, seen, missed, back>>

(* The update, or only its answer, was lost: the next tick tries again. *)
UpdateFailsForgets ==
  /\ DuckDNS /\ pc = "update" /\ pc' = "locate"
  /\ dns' \in {dns, seen}
  /\ lastIP' = seen /\ lost' = TRUE
  /\ UNCHANGED <<ip, saved, label, seen, missed, back>>

UpdateFails ==
  /\ DuckDNS /\ pc = "update" /\ pc' = "locate"
  /\ dns' \in {dns, seen}
  /\ lost' = TRUE /\ back' = (back \/ ip = lastIP)
  /\ UNCHANGED <<ip, saved, label, lastIP, seen, missed>>

(* refreshLocation: a label that did not change is left alone; a save that *)
(* fails is logged.                                                        *)
LocateOnlyFirst ==
  /\ pc = "locate" /\ pc' = "idle"
  /\ IF label # NoLabel THEN UNCHANGED <<label, saved>>
     ELSE label' = Country[ip] /\ saved' \in {saved, Country[ip]}
  /\ UNCHANGED <<ip, dns, lastIP, seen, history>>

Locate ==
  /\ pc = "locate" /\ pc' = "idle"
  /\ IF Country[ip] = label THEN UNCHANGED <<label, saved>>
     ELSE label' = Country[ip] /\ saved' \in {saved, Country[ip]}
  /\ UNCHANGED <<ip, dns, lastIP, seen, history>>

(* detectLocation had no answer. *)
LocateFails ==
  /\ pc = "locate" /\ pc' = "idle" /\ missed' = TRUE
  /\ UNCHANGED <<ip, dns, saved, label, lastIP, seen, lost, back>>

Refresh == Fetch \/ FetchFails \/ Update \/ UpdateFails \/ Locate \/ LocateFails

Next == (\E i \in IP : Move(i)) \/ Start \/ Kill \/ Refresh

Spec == Init /\ [][Next]_vars

(* The ticker fires and the loop's statements are executed; the address     *)
(* services do not fail for ever.                                           *)
Fairness == WF_vars(Fetch) /\ WF_vars(Update \/ UpdateFails) /\ WF_vars(Locate \/ LocateFails)
FairSpec == Spec /\ Fairness

---------------------------------------------------------------------------
(* Properties.                                                             *)

Moves == \E i \in IP : Move(i)

(* An address the daemon has dealt with is the one DuckDNS has: lastIP = ip  *)
(* makes refreshNetworkIdentity leave DuckDNS alone, and it may, but for the *)
(* case DnsFollows names and an address PublicIP put there at the start.     *)
DealtWith == DuckDNS /\ PublicIP = NoIP /\ ~back /\ lastIP = ip => dns = ip

(* From some time on the address stays, the daemon is up and DuckDNS answers. *)
Calm == <>[](pc # "off") /\ <>[][~Moves /\ ~UpdateFails]_vars

(* DuckDNS ends up at the node's address, whatever updates failed, came     *)
(* late or were cut off by a restart before, but for one case: the address  *)
(* went back to lastIP after a failed update, which is then never repeated  *)
(* although DuckDNS may have carried it out (refreshNetworkIdentity).       *)
DnsFollows == []~back /\ Calm /\ DuckDNS => <>[](dns = ip)

(* So does the label in the subscriptions, provided also that no detection  *)
(* failed and the address never moved in the middle of a refresh: neither   *)
(* is made good later, as the address is taken for dealt with by then       *)
(* (refreshLocation runs only when it changed).                             *)
LabelFollows == [](~missed /\ ~back) /\ Calm => <>[](label = Country[ip])

(* setup.go:195, "the node keeps <subdomain>.duckdns.org pointed at the     *)
(* current IP", and node.go:155, "Point DuckDNS at our current IP right     *)
(* away [...] then keep both fresh on each tick".                           *)
DnsKept == Calm /\ DuckDNS => <>[](dns = ip)
============================================================================
