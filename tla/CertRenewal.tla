---------------------------- MODULE CertRenewal ----------------------------
(***************************************************************************)
(* How the node gets and renews its certificate (internal/acme, called by  *)
(* provisionTLS in internal/commands/node.go): the daemon before it starts *)
(* xray and twice a day after, and `setup` in an operator's session, two   *)
(* processes that share one directory and one DuckDNS TXT record.          *)
(*                                                                         *)
(* An issue is a key pair and the certificate for it.  It is named by the  *)
(* process that is writing it, and by one of Former once that process is   *)
(* through: what counts is which files are of one issue.  writeFileAtomic  *)
(* opens and truncates <name>.tmp, writes it and renames it, the same name *)
(* for both processes; a descriptor follows its file through a rename.     *)
(* What a .tmp file holds that nobody is going to rename is left out: the  *)
(* next open truncates it.                                                 *)
(***************************************************************************)
CONSTANTS
  Daemon, Setup, \* the two processes
  None,          \* no file
  Partial,       \* a file that is truncated, or written in part
  Marker,        \* cert.pem.env's text, the name of this build's CA
  Former         \* names of issues nobody writes any more; one is always unused

Process == {Daemon, Setup}
Other(p) == IF p = Daemon THEN Setup ELSE Daemon

ASSUME ProcessAssumption == Daemon # Setup

File == {"cert", "key", "env"} \* cert.pem, key.pem, cert.pem.env
Issue == Process \cup Former
Text == Issue \cup {None, Partial, Marker}

ASSUME TextAssumption ==
  /\ {None, Partial, Marker} \cap Issue = {}
  /\ None # Partial /\ None # Marker /\ Partial # Marker
ASSUME FormerAssumption ==
  /\ Former \cap Process = {} /\ Former # {}
  /\ \A a, b, c, d \in Former : Former \ {a, b, c, d} # {}

VARIABLES
  file,       \* what each file holds: an issue's part, or the marker
  tmp,        \* what its .tmp file holds
  handle,     \* where the file each process has open for writing is now
  io,         \* per process: how far writeFileAtomic is
  due,        \* cert.pem has less than 30 days left, or is for another domain
  txt,        \* DuckDNS's TXT record is set
  node,       \* the daemon's runNode
  current,    \* xray serves what cert.pem holds
  pc,         \* per process: where EnsureCert is
  \* history, read by the properties only
  alone,      \* per process: no other EnsureCert was under way since it began
  crossed,    \* somebody is writing the pair who began, or was met, beside another
  torn,       \* a cert.pem may be there whose key.pem is not
  littered    \* the TXT record was left without anyone to clear it

filesVars == <<file, tmp, handle, io, due, crossed>>
dnsVars == <<txt, littered>>
nodeVars == <<node, current>>
vars == <<file, tmp, handle, io, due, txt, node, current,
          pc, alone, crossed, torn, littered>>

(* A process at "cert", "key" or "env" is writing that file. *)
Steps == {"off", "check", "order", "publish", "wait", "accept", "clearOk",
          "clearErr", "finalize"} \cup File

TypeOK ==
  /\ file \in [File -> Text] /\ tmp \in [File -> Text]
  /\ handle \in [Process -> {"none", "tmp", "file", "gone"}]
  /\ io \in [Process -> {"open", "write", "rename"}]
  /\ due \in BOOLEAN /\ txt \in BOOLEAN
  /\ node \in {"off", "provision", "start", "serving"}
  /\ current \in BOOLEAN
  /\ current => node = "serving" /\ file["cert"] \in Issue
  /\ pc \in [Process -> Steps]
  /\ \A p \in Process : handle[p] # "none" <=> io[p] = "write"
  /\ alone \in [Process -> BOOLEAN]
  /\ crossed \in BOOLEAN /\ torn \in BOOLEAN /\ littered \in BOOLEAN

Init ==
  /\ file = [f \in File |-> None] /\ tmp = [f \in File |-> None]
  /\ handle = [p \in Process |-> "none"]
  /\ io = [p \in Process |-> "open"]
  /\ due = FALSE /\ txt = FALSE
  /\ node = "off" /\ current = FALSE
  /\ pc = [p \in Process |-> "off"]
  /\ alone = [p \in Process |-> FALSE]
  /\ crossed = FALSE /\ torn = FALSE /\ littered = FALSE

---------------------------------------------------------------------------
(* EnsureCert and obtain, run by process p.                                *)

needsRenewalIgnoresExpiry == file["cert"] \notin Issue \/ file["env"] # Marker
needsRenewal == file["cert"] \notin Issue \/ file["env"] # Marker \/ due

Goto(p, step) == pc' = [pc EXCEPT ![p] = step]

(* EnsureCert returns: runNode goes on to xray, or ends with the error; a  *)
(* renewal is logged, and setup reports.                                   *)
Return(p, ok) ==
  /\ pc' = [pc EXCEPT ![p] = "off"]
  /\ alone' = [alone EXCEPT ![p] = FALSE]
  /\ node' = IF p = Daemon /\ node = "provision"
             THEN (IF ok THEN "start" ELSE "off") ELSE node

Begin(p) ==
  /\ pc[p] = "off"
  /\ Goto(p, "check")
  /\ alone' = [q \in Process |-> q = p /\ pc[Other(p)] = "off"]
  /\ UNCHANGED <<filesVars, dnsVars, current, torn>>

CheckAlwaysObtains(p) ==
  /\ pc[p] = "check"
  /\ Goto(p, "order")
  /\ UNCHANGED <<filesVars, dnsVars, node, current, alone, torn>>

Check(p) ==
  /\ pc[p] = "check"
  /\ IF needsRenewal THEN Goto(p, "order") /\ UNCHANGED <<node, alone>>
     ELSE Return(p, TRUE)
  /\ UNCHANGED <<filesVars, dnsVars, current, torn>>

(* loadOrCreateAccountKey (its file is left out), Register, AuthorizeOrder *)
(* and GetAuthorization: an authorization the CA still holds from an       *)
(* earlier order spares the challenge.                                     *)
Order(p, spared) ==
  /\ pc[p] = "order"
  /\ Goto(p, IF spared THEN "finalize" ELSE "publish")
  /\ UNCHANGED <<filesVars, dnsVars, nodeVars, alone, torn>>

OrderFails(p) ==
  /\ pc[p] = "order"
  /\ Return(p, FALSE)
  /\ UNCHANGED <<filesVars, dnsVars, current, torn>>

AtChallenge(p) == pc[p] \in {"wait", "accept", "clearOk", "clearErr"}

(* SetTXT: the one record of the domain now answers this challenge. *)
Publish(p) ==
  /\ pc[p] = "publish"
  /\ txt' = TRUE /\ littered' = FALSE
  /\ Goto(p, "wait")
  /\ UNCHANGED <<filesVars, nodeVars, alone, torn>>

(* The request, or only its answer, was lost; nothing is cleared. *)
PublishFails(p) ==
  /\ pc[p] = "publish"
  /\ \/ UNCHANGED dnsVars
     \/ txt' = TRUE /\ littered' = ~AtChallenge(Other(p))
  /\ Return(p, FALSE)
  /\ UNCHANGED <<filesVars, current, torn>>

(* waitTXT: resolvers may see the value late, and may still see it when   *)
(* the record is another's by now.                                         *)
TxtSeen(p) ==
  /\ pc[p] = "wait"
  /\ Goto(p, "accept")
  /\ UNCHANGED <<filesVars, dnsVars, nodeVars, alone, torn>>

WaitFailsNoClear(p) ==
  /\ pc[p] = "wait"
  /\ Return(p, FALSE)
  /\ UNCHANGED <<filesVars, dnsVars, current, torn>>

WaitFails(p) ==
  /\ pc[p] = "wait"
  /\ Goto(p, "clearErr")
  /\ UNCHANGED <<filesVars, dnsVars, nodeVars, alone, torn>>

(* Accept and WaitAuthorization: the CA looks the record up for itself. *)
Authorize(p) ==
  /\ pc[p] = "accept"
  /\ Goto(p, "clearOk")
  /\ UNCHANGED <<filesVars, dnsVars, nodeVars, alone, torn>>

AuthorizeFails(p) ==
  /\ pc[p] = "accept"
  /\ Goto(p, "clearErr")
  /\ UNCHANGED <<filesVars, dnsVars, nodeVars, alone, torn>>

(* The deferred ClearTXT, its error ignored, and solveDNS01's return. *)
Clear(p, cleared) ==
  /\ pc[p] \in {"clearOk", "clearErr"}
  /\ txt' = (txt /\ ~cleared)
  /\ littered' = (txt' /\ ~AtChallenge(Other(p)))
  /\ IF pc[p] = "clearOk" THEN Goto(p, "finalize") /\ UNCHANGED <<node, alone>>
     ELSE Return(p, FALSE)
  /\ UNCHANGED <<filesVars, current, torn>>

(* newCSR's key and the CA's certificate for it. *)
Finalize(p) ==
  /\ pc[p] = "finalize"
  /\ Goto(p, "cert")
  /\ UNCHANGED <<filesVars, dnsVars, nodeVars, alone, torn>>

FinalizeFails(p) ==
  /\ pc[p] = "finalize"
  /\ Return(p, FALSE)
  /\ UNCHANGED <<filesVars, dnsVars, current, torn>>

---------------------------------------------------------------------------
(* writeFileAtomic by process p, of the file pc[p] names.                  *)

(* From opening cert.pem.tmp to renaming key.pem.tmp. *)
AtPair(p) == pc[p] = "key" \/ (pc[p] = "cert" /\ io[p] # "open")

OpenInPlace(p) ==
  /\ pc[p] \in File /\ io[p] = "open"
  /\ LET there == file[pc[p]] # None IN
       /\ file' = IF there THEN [file EXCEPT ![pc[p]] = Partial] ELSE file
       /\ tmp' = IF there THEN tmp ELSE [tmp EXCEPT ![pc[p]] = Partial]
       /\ handle' = [handle EXCEPT ![p] = IF there THEN "file" ELSE "tmp"]
  /\ io' = [io EXCEPT ![p] = "write"]
  /\ crossed' = IF pc[p] = "cert" THEN AtPair(Other(p)) ELSE crossed
  /\ torn' = (torn \/ crossed')
  /\ UNCHANGED <<due, dnsVars, nodeVars, pc, alone>>

OpenTmp(p) ==
  /\ pc[p] \in File /\ io[p] = "open"
  /\ tmp' = [tmp EXCEPT ![pc[p]] = Partial]
  /\ handle' = [handle EXCEPT ![p] = "tmp"]
  /\ io' = [io EXCEPT ![p] = "write"]
  /\ crossed' = IF pc[p] = "cert" THEN AtPair(Other(p)) ELSE crossed
  /\ torn' = (torn \/ crossed')
  /\ UNCHANGED <<file, due, dnsVars, nodeVars, pc, alone>>

(* `texts` with t in the file p writes, if that is where its handle is.  Of *)
(* what two writers put into one file the first whole PEM block counts.    *)
Put(p, where, texts, t) ==
  IF handle[p] = where THEN [texts EXCEPT ![pc[p]] = t] ELSE texts

(* cert.pem itself becomes another, which xray has not loaded. *)
Replaced(there) ==
  /\ due' = (due /\ ~there)
  /\ current' = (current /\ ~there)

WriteTmp(p) ==
  /\ pc[p] \in File /\ io[p] = "write"
  /\ LET text == IF pc[p] = "env" THEN Marker ELSE p IN
       /\ file' = Put(p, "file", file, text)
       /\ tmp' = Put(p, "tmp", tmp, text)
  /\ Replaced(pc[p] = "cert" /\ handle[p] = "file")
  /\ handle' = [handle EXCEPT ![p] = "none"]
  /\ io' = [io EXCEPT ![p] = "rename"]
  /\ UNCHANGED <<dnsVars, node, pc, alone, crossed, torn>>

Unused == Former \ ({file[f] : f \in {"cert", "key"}} \cup {tmp[f] : f \in {"cert", "key"}})

(* p is through with its issue, which gets another name wherever it is. *)
Retire(p, files, tmps) ==
  LET former == CHOOSE x \in Unused : TRUE
      Named(texts) == [f \in File |-> IF texts[f] = p THEN former ELSE texts[f]]
  IN  file' = Named(files) /\ tmp' = Named(tmps)

(* os.Rename with `files` as its outcome; then obtain writes the next file, *)
(* or returns.                                                             *)
RenameTo(p, files) ==
  LET tmps == [tmp EXCEPT ![pc[p]] = None] IN
  /\ pc[p] \in File /\ io[p] = "rename" /\ tmp[pc[p]] # None
  /\ IF pc[p] = "env" THEN Retire(p, files, tmps) /\ Return(p, TRUE)
     ELSE /\ file' = files /\ tmp' = tmps
          /\ Goto(p, IF pc[p] = "cert" THEN "key" ELSE "env")
          /\ UNCHANGED <<node, alone>>
  /\ Replaced(pc[p] = "cert")
  /\ handle' = [q \in Process |->
       CASE pc[q] = pc[p] /\ handle[q] = "tmp" -> "file"
         [] pc[q] = pc[p] /\ handle[q] = "file" -> "gone"
         [] OTHER -> handle[q]]
  /\ io' = [io EXCEPT ![p] = "open"]
  /\ torn' = IF pc[p] = "key" THEN crossed ELSE torn
  /\ crossed' = (crossed /\ (pc[p] = "key" => AtPair(Other(p))))
  /\ UNCHANGED dnsVars

RenameKeepsKey(p) ==
  RenameTo(p, IF pc[p] = "key" /\ file["key"] # None THEN file
              ELSE [file EXCEPT ![pc[p]] = tmp[pc[p]]])

Rename(p) == RenameTo(p, [file EXCEPT ![pc[p]] = tmp[pc[p]]])

(* p stops with those texts in the files; a .tmp only matters to another   *)
(* process that is at it.                                                  *)
Abandon(p, files, tmps) ==
  LET shared == pc[Other(p)] = pc[p] /\ io[Other(p)] # "open"
      kept == IF pc[p] \in File /\ ~shared THEN [tmps EXCEPT ![pc[p]] = None] ELSE tmps
  IN  /\ Retire(p, files, kept)
      /\ handle' = [handle EXCEPT ![p] = "none"]
      /\ io' = [io EXCEPT ![p] = "open"]
      /\ torn' = (torn \/ pc[p] = "key")
      /\ crossed' = (crossed /\ AtPair(Other(p)))

(* The open fails, the disk is full in the middle of the write, or the     *)
(* rename fails, as it does when another has renamed the file away: what   *)
(* was written before stays.                                               *)
WriteFails(p) ==
  /\ pc[p] \in File
  /\ Return(p, FALSE)
  /\ Abandon(p, Put(p, "file", file, Partial), Put(p, "tmp", tmp, Partial))
  /\ Replaced(pc[p] = "cert" /\ handle[p] = "file")
  /\ UNCHANGED dnsVars

(* The ways an attempt of process p can fail, and the steps of one that     *)
(* does not.                                                                *)
Fails(p) ==
  \/ OrderFails(p) \/ PublishFails(p) \/ WaitFails(p) \/ AuthorizeFails(p)
  \/ Clear(p, FALSE) \/ FinalizeFails(p) \/ WriteFails(p)

Succeeds(p) ==
  \/ Check(p) \/ (\E spared \in BOOLEAN : Order(p, spared)) \/ Publish(p)
  \/ TxtSeen(p) \/ Authorize(p) \/ Clear(p, TRUE) \/ Finalize(p)
  \/ OpenTmp(p) \/ WriteTmp(p) \/ Rename(p)

EnsureCert(p) == Succeeds(p) \/ Fails(p)

---------------------------------------------------------------------------
(* The daemon and setup.                                                   *)

StartNode ==
  /\ node = "off" /\ node' = "provision"
  /\ Begin(Daemon)

Pair == file["cert"] = file["key"] /\ file["cert"] \in Issue

(* xray loads the pair, and refuses one whose parts do not match. *)
StartXray ==
  /\ node = "start"
  /\ IF Pair THEN node' = "serving" /\ current' = TRUE
     ELSE node' = "off" /\ current' = FALSE
  /\ UNCHANGED <<filesVars, dnsVars, pc, alone, torn>>

(* maybeRenewCert: every 12 hours, long after the previous call has ended. *)
Renew ==
  /\ node = "serving" /\ node' = node
  /\ Begin(Daemon)

(* configureTLS. *)
RunSetup == node' = node /\ Begin(Setup)

(* A process dies, or is stopped, at any point. *)
Kill(p) ==
  /\ pc[p] # "off" \/ (p = Daemon /\ node # "off")
  /\ Goto(p, "off")
  /\ alone' = [alone EXCEPT ![p] = FALSE]
  /\ Abandon(p, file, tmp)
  /\ littered' = (littered \/ (txt /\ AtChallenge(p) /\ ~AtChallenge(Other(p))))
  /\ IF p = Daemon THEN node' = "off" /\ current' = FALSE ELSE UNCHANGED nodeVars
  /\ UNCHANGED <<due, txt>>

---------------------------------------------------------------------------
(* The world: xray polling its files, and time.                            *)

HotReload ==
  /\ node = "serving" /\ Pair /\ ~current
  /\ current' = TRUE
  /\ UNCHANGED <<filesVars, dnsVars, node, pc, alone, torn>>

Age ==
  /\ file["cert"] \in Issue /\ due' = TRUE
  /\ UNCHANGED <<file, tmp, handle, io, dnsVars, nodeVars, pc, alone, crossed, torn>>

Next ==
  \/ StartNode \/ StartXray \/ Renew \/ RunSetup
  \/ \E p \in Process : EnsureCert(p) \/ Kill(p)
  \/ HotReload \/ Age

Spec == Init /\ [][Next]_vars

(* The loop's ticker fires, its goroutine runs, and xray polls its files. *)
Fairness ==
  /\ WF_vars(Renew) /\ WF_vars(EnsureCert(Daemon))
  /\ WF_vars(HotReload)

FairSpec == Spec /\ Fairness

---------------------------------------------------------------------------
(* Properties.                                                             *)

(* Once obtain is through, cert.pem and key.pem are whole and of one issue *)
(* (obtain's two writeFileAtomic).  Two things nothing in the code keeps   *)
(* from happening are taken out by `torn`, until a writer gets through     *)
(* undisturbed: a process stopped or failing between the two renames, and  *)
(* two that write the pair at once, over the same .tmp names.              *)
PairMatches ==
  \/ torn
  \/ \E p \in Process : pc[p] = "key"
  \/ Pair
  \/ file["cert"] = None /\ file["key"] = None

(* The challenge record does not outlive the challenge: when no EnsureCert  *)
(* is at it, the record is gone, but for a process killed at it and for a   *)
(* DuckDNS request that failed (solveDNS01's defer).                        *)
NoRecordLeft ==
  littered \/ ~txt \/ \E p \in Process : AtChallenge(p)

(* The CA is asked for a certificate only while the one on disk will not    *)
(* do, unless the other process was at it too (EnsureCert, "a cheap no-op   *)
(* until <30 days to expiry").                                              *)
NeededOnly ==
  [][\A p \in Process :
       pc[p] = "finalize" /\ pc'[p] = "cert" => ~alone[p] \/ needsRenewal]_vars

(* A node that stays up renews: once it is left alone, with a network and a *)
(* disk that work, a certificate that is due is replaced, whatever earlier  *)
(* attempts left behind, and xray serves the new one (maybeRenewCert,       *)
(* README "renews automatically").  A torn pair is left out: nothing        *)
(* notices it, see EnsuredPair.                                             *)
LeftAlone == <>[](node = "serving" /\ pc[Setup] = "off" /\ ~torn)
Calm == <>[][~Age /\ ~Fails(Daemon)]_vars
Renewed == current /\ ~due
Renews == LeftAlone /\ Calm => []<>Renewed

===========================================================================
