------------------------- MODULE CertRenewalProofs -------------------------
(***************************************************************************)
(* Proofs about CertRenewal: its types, that the two files make a pair but *)
(* for a torn or a crossed write, that no challenge record is left behind  *)
(* unnoticed, and that the CA is not asked without need; for every set of  *)
(* names an issue nobody writes can have.                                  *)
(***************************************************************************)
EXTENDS CertRenewal, TLAPS

LEMMA ProcessFacts ==
  /\ Daemon \in Process /\ Setup \in Process
  /\ \A p \in Process : Other(p) \in Process /\ Other(p) # p
  /\ \A p, q \in Process : q # p => q = Other(p)
  BY ProcessAssumption DEF Process, Other

LEMMA TextFacts ==
  /\ Former \subseteq Issue /\ Process \subseteq Issue /\ Issue \subseteq Text
  /\ None \in Text /\ Partial \in Text /\ Marker \in Text
  /\ None \notin Issue /\ Partial \notin Issue /\ Marker \notin Issue
  /\ \A x \in Former : x \notin Process
  BY TextAssumption, FormerAssumption DEF Issue, Text

---------------------------------------------------------------------------
(* An issue nobody writes any more.                                        *)

(* At most four of the names are in use, and there are more. *)
LEMMA UnusedNotEmpty == \E x \in Former : x \in Unused
<1> PICK x0 \in Former : TRUE
  BY FormerAssumption
<1> DEFINE name(x) == IF x \in Former THEN x ELSE x0
<1>1. \A x : name(x) \in Former /\ (x \in Former => name(x) = x)
  OBVIOUS
<1> HIDE DEF name
<1>2. Former \ {name(file["cert"]), name(file["key"]), name(tmp["cert"]), name(tmp["key"])} # {}
  BY <1>1, FormerAssumption
<1>3. PICK x \in Former : x \notin {name(file["cert"]), name(file["key"]), name(tmp["cert"]), name(tmp["key"])}
  BY <1>2
<1>4. x \notin {file["cert"], file["key"], tmp["cert"], tmp["key"]}
  BY <1>1, <1>3
<1>5. x \in Unused
  BY <1>4 DEF Unused
<1>6. QED
  BY <1>5

(* What Retire does: it gives p's issue a name of Former, and nothing else. *)
Renamed(p, x, texts) == [f \in File |-> IF texts[f] = p THEN x ELSE texts[f]]

LEMMA RetireFacts ==
  ASSUME NEW p, NEW files, NEW tmps, Retire(p, files, tmps)
  PROVE  \E x \in Former : file' = Renamed(p, x, files) /\ tmp' = Renamed(p, x, tmps)
<1> DEFINE x == CHOOSE y \in Unused : TRUE
<1>1. x \in Former
  BY UnusedNotEmpty DEF Unused
<1>2. file' = Renamed(p, x, files) /\ tmp' = Renamed(p, x, tmps)
  BY DEF Retire, Renamed
<1>3. QED
  BY <1>1, <1>2

LEMMA RenamedFacts ==
  ASSUME NEW p \in Process, NEW x \in Former, NEW texts \in [File -> Text]
  PROVE  /\ Renamed(p, x, texts) \in [File -> Text]
         /\ \A f \in File : texts[f] \in Issue <=> Renamed(p, x, texts)[f] \in Issue
         /\ \A f \in File : texts[f] \notin Issue => Renamed(p, x, texts)[f] = texts[f]
         /\ \A f \in File : texts[f] = Marker <=> Renamed(p, x, texts)[f] = Marker
         /\ \A f, g \in File : texts[f] = texts[g] => Renamed(p, x, texts)[f] = Renamed(p, x, texts)[g]
         /\ \A q \in Process, f \in File : q # p /\ texts[f] = q => Renamed(p, x, texts)[f] = q
  BY TextFacts DEF Renamed

---------------------------------------------------------------------------
(* Types.                                                                  *)

(* The part of TypeOK that is about the files and who has them open. *)
FilesOK ==
  /\ file \in [File -> Text] /\ tmp \in [File -> Text]
  /\ handle \in [Process -> {"none", "tmp", "file", "gone"}]
  /\ io \in [Process -> {"open", "write", "rename"}]
  /\ \A p \in Process : handle[p] # "none" <=> io[p] = "write"

RestOK ==
  /\ due \in BOOLEAN /\ txt \in BOOLEAN
  /\ node \in {"off", "provision", "start", "serving"}
  /\ current \in BOOLEAN
  /\ pc \in [Process -> Steps]
  /\ alone \in [Process -> BOOLEAN]
  /\ crossed \in BOOLEAN /\ torn \in BOOLEAN /\ littered \in BOOLEAN

CurrentOK == current => node = "serving" /\ file["cert"] \in Issue

LEMMA TypeParts == TypeOK <=> FilesOK /\ RestOK /\ CurrentOK
  BY DEF TypeOK, FilesOK, RestOK, CurrentOK

LEMMA TypeInit == Init => TypeOK
<1> SUFFICES ASSUME Init PROVE TypeOK
  OBVIOUS
<1>1. FilesOK
  BY TextFacts DEF Init, FilesOK
<1>2. RestOK /\ CurrentOK
  BY DEF Init, RestOK, CurrentOK, Steps
<1>3. QED
  BY <1>1, <1>2, TypeParts

(* Return leaves the node "serving" as it is, and only then. *)
LEMMA ReturnFacts ==
  ASSUME TypeOK, NEW p \in Process, NEW ok, Return(p, ok)
  PROVE  /\ pc' \in [Process -> Steps] /\ alone' \in [Process -> BOOLEAN]
         /\ node' \in {"off", "provision", "start", "serving"}
         /\ node = "serving" <=> node' = "serving"
<1>1. pc' \in [Process -> Steps] /\ alone' \in [Process -> BOOLEAN]
  BY DEF Return, TypeOK, Steps
<1>2. node' = node \/ (node = "provision" /\ node' \in {"off", "start"})
  BY Zenon DEF Return
<1>3. QED
  BY <1>1, <1>2 DEF TypeOK

LEMMA ReturnType ==
  ASSUME TypeOK, NEW p \in Process, NEW ok, Return(p, ok),
         UNCHANGED <<filesVars, current, torn>>, txt' \in BOOLEAN, littered' \in BOOLEAN
  PROVE  TypeOK'
<1>1. /\ pc' \in [Process -> Steps] /\ alone' \in [Process -> BOOLEAN]
      /\ node' \in {"off", "provision", "start", "serving"}
      /\ node = "serving" <=> node' = "serving"
  BY ReturnFacts
<1>2. QED
  BY <1>1 DEF TypeOK, filesVars

LEMMA OpenTmpType == ASSUME TypeOK, NEW p \in Process, OpenTmp(p) PROVE TypeOK'
<1>1. FilesOK'
  BY TextFacts DEF OpenTmp, TypeOK, FilesOK
<1>2. crossed' \in BOOLEAN /\ torn' \in BOOLEAN
  BY Zenon DEF OpenTmp, TypeOK, AtPair
<1>3. RestOK' /\ CurrentOK'
  BY <1>2 DEF OpenTmp, TypeOK, RestOK, CurrentOK, dnsVars, nodeVars
<1>4. QED
  BY <1>1, <1>3, TypeParts, PTL

LEMMA PutType ==
  ASSUME TypeOK, NEW p \in Process, NEW where, NEW texts \in [File -> Text], NEW t \in Text
  PROVE  Put(p, where, texts, t) \in [File -> Text]
  BY DEF Put

(* Writing leaves cert.pem alone, or xray no longer has what it holds. *)
LEMMA ReplacedFacts ==
  ASSUME TypeOK, NEW there \in BOOLEAN, Replaced(there)
  PROVE  /\ due' \in BOOLEAN /\ current' \in BOOLEAN
         /\ current' <=> current /\ ~there
  BY DEF Replaced, TypeOK

LEMMA WriteTmpType == ASSUME TypeOK, NEW p \in Process, WriteTmp(p) PROVE TypeOK'
<1> DEFINE text == IF pc[p] = "env" THEN Marker ELSE p
<1>1. text \in Text
  BY TextFacts
<1>2. /\ pc[p] \in File /\ io[p] = "write"
      /\ file' = Put(p, "file", file, text) /\ tmp' = Put(p, "tmp", tmp, text)
      /\ Replaced(pc[p] = "cert" /\ handle[p] = "file")
      /\ handle' = [handle EXCEPT ![p] = "none"] /\ io' = [io EXCEPT ![p] = "rename"]
      /\ UNCHANGED <<dnsVars, node, pc, alone, crossed, torn>>
  BY DEF WriteTmp
<1> HIDE DEF text
<1>3. file' \in [File -> Text] /\ tmp' \in [File -> Text]
  BY <1>1, <1>2, PutType DEF TypeOK
<1>4. FilesOK'
  BY <1>2, <1>3 DEF FilesOK, TypeOK
<1>5. /\ due' \in BOOLEAN /\ current' \in BOOLEAN
      /\ current' <=> current /\ ~(pc[p] = "cert" /\ handle[p] = "file")
  BY <1>2, ReplacedFacts
<1>6. ~(pc[p] = "cert" /\ handle[p] = "file") => file'["cert"] = file["cert"]
  BY <1>2 DEF Put, TypeOK, File
<1>7. RestOK' /\ CurrentOK'
  BY <1>2, <1>5, <1>6 DEF TypeOK, RestOK, CurrentOK, dnsVars
<1>8. QED
  BY <1>4, <1>7, TypeParts, PTL

LEMMA RenameType == ASSUME TypeOK, NEW p \in Process, Rename(p) PROVE TypeOK'
<1> DEFINE files == [file EXCEPT ![pc[p]] = tmp[pc[p]]]
           tmps == [tmp EXCEPT ![pc[p]] = None]
<1>1. pc[p] \in File /\ files \in [File -> Text] /\ tmps \in [File -> Text]
  BY TextFacts DEF Rename, RenameTo, TypeOK
<1>2. pc[p] # "cert" => files["cert"] = file["cert"]
  BY DEF File, TypeOK
<1>3. /\ IF pc[p] = "env" THEN Retire(p, files, tmps) /\ Return(p, TRUE)
         ELSE /\ file' = files /\ tmp' = tmps
              /\ Goto(p, IF pc[p] = "cert" THEN "key" ELSE "env")
              /\ UNCHANGED <<node, alone>>
      /\ io[p] = "rename"
      /\ Replaced(pc[p] = "cert")
      /\ handle' = [q \in Process |->
           CASE pc[q] = pc[p] /\ handle[q] = "tmp" -> "file"
             [] pc[q] = pc[p] /\ handle[q] = "file" -> "gone"
             [] OTHER -> handle[q]]
      /\ io' = [io EXCEPT ![p] = "open"]
      /\ UNCHANGED dnsVars
  BY DEF Rename, RenameTo
<1> HIDE DEF files, tmps
<1>4. /\ file' \in [File -> Text] /\ tmp' \in [File -> Text]
      /\ pc[p] # "cert" /\ file["cert"] \in Issue => file'["cert"] \in Issue
  <2>1. CASE pc[p] = "env"
    <3>1. PICK x \in Former : file' = Renamed(p, x, files) /\ tmp' = Renamed(p, x, tmps)
      BY <1>3, <2>1, RetireFacts
    <3>2. QED
      BY <1>1, <1>2, <3>1, RenamedFacts DEF File
  <2>2. CASE pc[p] # "env"
    BY <1>1, <1>2, <1>3, <2>2
  <2>3. QED
    BY <2>1, <2>2
<1>5. /\ pc' \in [Process -> Steps] /\ alone' \in [Process -> BOOLEAN]
      /\ node' \in {"off", "provision", "start", "serving"}
      /\ node = "serving" <=> node' = "serving"
  <2>1. CASE pc[p] = "env"
    BY <1>3, <2>1, ReturnFacts
  <2>2. CASE pc[p] # "env"
    <3>1. (IF pc[p] = "cert" THEN "key" ELSE "env") \in Steps
      BY DEF Steps, File
    <3>2. QED
      BY <1>3, <2>2, <3>1 DEF Goto, TypeOK
  <2>3. QED
    BY <2>1, <2>2
<1>6. FilesOK'
  <2>1. handle' \in [Process -> {"none", "tmp", "file", "gone"}]
    BY <1>3 DEF TypeOK
  <2>2. \A q \in Process : handle'[q] # "none" <=> handle[q] # "none"
    BY <1>3
  <2>3. QED
    BY <1>3, <1>4, <2>1, <2>2 DEF FilesOK, TypeOK
<1>7. /\ due' \in BOOLEAN /\ current' \in BOOLEAN
      /\ current' <=> current /\ ~(pc[p] = "cert")
  BY <1>3, ReplacedFacts
<1>8. crossed' \in BOOLEAN /\ torn' \in BOOLEAN
  BY Zenon DEF Rename, RenameTo, TypeOK
<1>9. RestOK'
  BY <1>3, <1>5, <1>7, <1>8 DEF RestOK, TypeOK, dnsVars
<1>10. CurrentOK'
  BY <1>4, <1>5, <1>7 DEF CurrentOK, TypeOK
<1>11. QED
  BY <1>6, <1>9, <1>10, TypeParts, PTL

LEMMA AbandonFacts ==
  ASSUME TypeOK, NEW p \in Process, NEW files \in [File -> Text], NEW tmps \in [File -> Text],
         Abandon(p, files, tmps)
  PROVE  /\ FilesOK'
         /\ \A f \in File : files[f] \in Issue <=> file'[f] \in Issue
         /\ crossed' \in BOOLEAN /\ torn' \in BOOLEAN
<1> DEFINE shared == pc[Other(p)] = pc[p] /\ io[Other(p)] # "open"
           kept == IF pc[p] \in File /\ ~shared THEN [tmps EXCEPT ![pc[p]] = None] ELSE tmps
<1>1. kept \in [File -> Text]
  BY TextFacts
<1>2. /\ Retire(p, files, kept)
      /\ handle' = [handle EXCEPT ![p] = "none"] /\ io' = [io EXCEPT ![p] = "open"]
  BY DEF Abandon
<1> HIDE DEF kept
<1>3. PICK x \in Former : file' = Renamed(p, x, files) /\ tmp' = Renamed(p, x, kept)
  BY <1>2, RetireFacts
<1>4. /\ file' \in [File -> Text] /\ tmp' \in [File -> Text]
      /\ \A f \in File : files[f] \in Issue <=> file'[f] \in Issue
  BY <1>1, <1>3, RenamedFacts
<1>5. FilesOK'
  BY <1>2, <1>4 DEF FilesOK, TypeOK
<1>6. crossed' \in BOOLEAN /\ torn' \in BOOLEAN
  BY Zenon DEF Abandon
<1>7. QED
  BY <1>4, <1>5, <1>6

LEMMA WriteFailsType == ASSUME TypeOK, NEW p \in Process, WriteFails(p) PROVE TypeOK'
<1> DEFINE files == Put(p, "file", file, Partial)
           tmps == Put(p, "tmp", tmp, Partial)
<1>1. files \in [File -> Text] /\ tmps \in [File -> Text]
  BY PutType, TextFacts DEF TypeOK
<1>2. /\ Return(p, FALSE) /\ Abandon(p, files, tmps)
      /\ Replaced(pc[p] = "cert" /\ handle[p] = "file")
      /\ UNCHANGED dnsVars
  BY DEF WriteFails
<1>3. ~(pc[p] = "cert" /\ handle[p] = "file") => files["cert"] = file["cert"]
  BY DEF Put, TypeOK, File
<1> HIDE DEF files, tmps
<1>4. /\ FilesOK' /\ crossed' \in BOOLEAN /\ torn' \in BOOLEAN
      /\ files["cert"] \in Issue <=> file'["cert"] \in Issue
  BY <1>1, <1>2, AbandonFacts DEF File
<1>5. /\ due' \in BOOLEAN /\ current' \in BOOLEAN
      /\ current' <=> current /\ ~(pc[p] = "cert" /\ handle[p] = "file")
  BY <1>2, ReplacedFacts
<1>6. /\ pc' \in [Process -> Steps] /\ alone' \in [Process -> BOOLEAN]
      /\ node' \in {"off", "provision", "start", "serving"}
      /\ node = "serving" <=> node' = "serving"
  BY <1>2, ReturnFacts
<1>7. RestOK'
  BY <1>2, <1>4, <1>5, <1>6 DEF RestOK, TypeOK, dnsVars
<1>8. CurrentOK'
  BY <1>3, <1>4, <1>5, <1>6 DEF CurrentOK, TypeOK
<1>9. QED
  BY <1>4, <1>7, <1>8, TypeParts, PTL

LEMMA KillType == ASSUME TypeOK, NEW p \in Process, Kill(p) PROVE TypeOK'
<1>1. /\ pc' = [pc EXCEPT ![p] = "off"] /\ alone' = [alone EXCEPT ![p] = FALSE]
      /\ Abandon(p, file, tmp)
      /\ \/ node' = "off" /\ current' = FALSE
         \/ node' = node /\ current' = current
      /\ due' = due /\ txt' = txt
  BY Zenon DEF Kill, Goto, nodeVars
<1>2. /\ FilesOK' /\ crossed' \in BOOLEAN /\ torn' \in BOOLEAN
      /\ file["cert"] \in Issue <=> file'["cert"] \in Issue
  BY <1>1, AbandonFacts DEF TypeOK, File
<1>3. littered' \in BOOLEAN
  BY Zenon DEF Kill, TypeOK, AtChallenge
<1>4. pc' \in [Process -> Steps] /\ alone' \in [Process -> BOOLEAN]
  BY <1>1 DEF TypeOK, Steps
<1>5. RestOK'
  BY <1>1, <1>2, <1>3, <1>4 DEF RestOK, TypeOK
<1>6. CurrentOK'
  BY <1>1, <1>2 DEF CurrentOK, TypeOK
<1>7. QED
  BY <1>2, <1>5, <1>6, TypeParts, PTL

LEMMA ClearBoolean ==
  ASSUME NEW p \in Process, NEW cleared \in BOOLEAN, Clear(p, cleared)
  PROVE  txt' \in BOOLEAN /\ littered' \in BOOLEAN
<1>1. txt' = (txt /\ ~cleared) /\ littered' = (txt' /\ ~AtChallenge(Other(p)))
  BY DEF Clear
<1>2. QED
  BY <1>1, Zenon

LEMMA TypeNext == TypeOK /\ [Next]_vars => TypeOK'
<1> SUFFICES ASSUME TypeOK, [Next]_vars PROVE TypeOK'
  OBVIOUS
<1> USE ProcessFacts DEF filesVars, dnsVars, nodeVars, Goto
<1>1. CASE StartNode
  BY <1>1 DEF TypeOK, Steps, StartNode, Begin
<1>2. CASE StartXray
  <2>1. Pair => file["cert"] \in Issue
    BY DEF Pair
  <2> HIDE DEF Pair
  <2>2. QED
    BY <1>2, <2>1 DEF TypeOK, Steps, StartXray
<1>3. CASE Renew
  BY <1>3 DEF TypeOK, Steps, Renew, Begin
<1>4. CASE RunSetup
  BY <1>4 DEF TypeOK, Steps, RunSetup, Begin
<1>5. ASSUME NEW p \in Process, EnsureCert(p) PROVE TypeOK'
  <2> USE DEF TypeOK, Steps, Return
  <2>1. CASE Check(p)
    <3>1. CASE needsRenewal
      BY <2>1, <3>1 DEF Check
    <3>2. CASE ~needsRenewal
      <4>1. Return(p, TRUE) /\ UNCHANGED <<filesVars, dnsVars, current, torn>>
        BY <2>1, <3>2 DEF Check
      <4>2. QED
        BY <4>1, ReturnType DEF TypeOK
    <3>3. QED
      BY <3>1, <3>2
  <2>2. ASSUME NEW spared \in BOOLEAN, Order(p, spared) PROVE TypeOK'
    BY <2>2 DEF Order
  <2>3. CASE Publish(p)
    BY <2>3 DEF Publish
  <2>4. CASE TxtSeen(p)
    BY <2>4 DEF TxtSeen
  <2>5. CASE Authorize(p)
    BY <2>5 DEF Authorize
  <2>6. ASSUME NEW cleared \in BOOLEAN, Clear(p, cleared) PROVE TypeOK'
    <3>1. txt' \in BOOLEAN /\ littered' \in BOOLEAN
      BY <2>6, ClearBoolean
    <3>2. CASE pc[p] = "clearOk"
      BY <2>6, <3>1, <3>2 DEF Clear
    <3>3. CASE pc[p] # "clearOk"
      <4>1. Return(p, FALSE) /\ UNCHANGED <<filesVars, current, torn>>
        BY <2>6, <3>3 DEF Clear
      <4>2. QED
        BY <3>1, <4>1, ReturnType
    <3>4. QED
      BY <3>2, <3>3
  <2>7. CASE Finalize(p)
    BY <2>7 DEF Finalize, File
  <2>8. CASE OrderFails(p)
    BY <2>8 DEF OrderFails
  <2>9. CASE PublishFails(p)
    <3>1. txt' \in BOOLEAN /\ littered' \in BOOLEAN
      BY <2>9, Zenon DEF PublishFails, AtChallenge
    <3>2. QED
      BY <2>9, <3>1 DEF PublishFails
  <2>10. CASE WaitFails(p)
    BY <2>10 DEF WaitFails
  <2>11. CASE AuthorizeFails(p)
    BY <2>11 DEF AuthorizeFails
  <2>12. CASE FinalizeFails(p)
    BY <2>12 DEF FinalizeFails
  <2>13. QED
    <3> HIDE DEF TypeOK, Steps, Return
    <3> QED
      BY <1>5, <2>1, <2>2, <2>3, <2>4, <2>5, <2>6, <2>7, <2>8, <2>9, <2>10, <2>11, <2>12,
         OpenTmpType, WriteTmpType, RenameType, WriteFailsType DEF EnsureCert, Succeeds, Fails
<1>6. ASSUME NEW p \in Process, Kill(p) PROVE TypeOK'
  BY <1>6, KillType
<1>7. CASE HotReload
  BY <1>7 DEF TypeOK, HotReload, Pair
<1>8. CASE Age
  BY <1>8 DEF TypeOK, Age
<1>9. CASE UNCHANGED vars
  BY <1>9 DEF TypeOK, vars
<1>10. QED
  BY <1>1, <1>2, <1>3, <1>4, <1>5, <1>6, <1>7, <1>8, <1>9 DEF Next

(* Every variable keeps its type, and xray serves only when there is a      *)
(* certificate (CertRenewal's TypeOK).                                      *)
THEOREM TypeCorrect == Spec => []TypeOK
  BY TypeInit, TypeNext, PTL DEF Spec

---------------------------------------------------------------------------
(* cert.pem and key.pem.                                                   *)

(* While writers of the pair do not cross, the one there is finds its own  *)
(* text under the .tmp name it writes, and between its renames its own     *)
(* certificate in cert.pem.                                                *)
OwnText ==
  ~crossed => \A p \in Process : pc[p] \in {"cert", "key"} =>
    /\ io[p] = "write" => handle[p] = "tmp"
    /\ io[p] = "rename" => tmp[pc[p]] = p
    /\ pc[p] = "key" => file["cert"] = p

PairInv ==
  /\ PairMatches
  /\ crossed => torn
  /\ \A p \in Process : AtPair(p) /\ AtPair(Other(p)) => crossed
  /\ \A p \in Process : io[p] # "open" => pc[p] \in File
  /\ OwnText

(* Steps of p that touch no file, before it writes one. *)
Outside(p) ==
  /\ pc[p] \notin File
  /\ \E s \in (Steps \ File) \cup {"cert"} : pc' = [pc EXCEPT ![p] = s]
  /\ UNCHANGED <<file, tmp, handle, io, crossed, torn>>

LEMMA OutsideKeeps == ASSUME TypeOK, PairInv, NEW p \in Process, Outside(p) PROVE PairInv'
<1> PICK s \in (Steps \ File) \cup {"cert"} : pc' = [pc EXCEPT ![p] = s]
  BY DEF Outside
<1>1. /\ pc[p] \notin File /\ io[p] = "open"
      /\ file' = file /\ tmp' = tmp /\ handle' = handle /\ io' = io
      /\ crossed' = crossed /\ torn' = torn
  BY DEF Outside, PairInv, TypeOK
<1>2. pc'[p] = s /\ s # "key" /\ (\A q \in Process : q # p => pc'[q] = pc[q])
  BY DEF TypeOK, File
<1>3. \A q \in Process : AtPair(q)' <=> AtPair(q)
  BY <1>1, <1>2 DEF AtPair, File
<1>4. \A q \in Process : pc'[q] = "key" <=> pc[q] = "key"
  BY <1>1, <1>2 DEF File
<1>5. PairMatches'
  BY <1>1, <1>4 DEF PairInv, PairMatches, Pair
<1>6. OwnText'
  BY <1>1, <1>2, <1>4 DEF PairInv, OwnText, File
<1>7. \A q \in Process : io'[q] # "open" => pc'[q] \in File
  BY <1>1, <1>2 DEF PairInv
<1>8. (\A q \in Process : AtPair(q) /\ AtPair(Other(q)) => crossed)'
  <2>1. \A q \in Process : AtPair(q)' /\ AtPair(Other(q))' => crossed'
    BY <1>1, <1>3, ProcessFacts DEF PairInv
  <2>2. QED
    BY <2>1 DEF Other
<1>9. QED
  BY <1>1, <1>5, <1>6, <1>7, <1>8 DEF PairInv

LEMMA OpenTmpPair == ASSUME TypeOK, PairInv, NEW p \in Process, OpenTmp(p) PROVE PairInv'
<1>1. /\ pc[p] \in File /\ io[p] = "open"
      /\ tmp' = [tmp EXCEPT ![pc[p]] = Partial]
      /\ handle' = [handle EXCEPT ![p] = "tmp"] /\ io' = [io EXCEPT ![p] = "write"]
      /\ file' = file /\ pc' = pc
  BY DEF OpenTmp
<1>2. /\ pc[p] = "cert" => (crossed' <=> AtPair(Other(p)))
      /\ pc[p] # "cert" => crossed' = crossed
      /\ torn' <=> torn \/ crossed'
  BY Zenon DEF OpenTmp
<1>3. /\ AtPair(p)' <=> pc[p] \in {"cert", "key"}
      /\ \A q \in Process : q # p => (AtPair(q)' <=> AtPair(q))
  BY <1>1 DEF AtPair, File, TypeOK
<1>4. PairMatches'
  BY <1>1, <1>2 DEF PairInv, PairMatches, Pair
<1>5. \A q \in Process : AtPair(q)' /\ AtPair(Other(q))' => crossed'
  <2>1. AtPair(p)' /\ AtPair(Other(p))' => crossed'
    <3>1. CASE pc[p] = "cert"
      BY <1>2, <1>3, <3>1, ProcessFacts
    <3>2. CASE pc[p] # "cert"
      BY <1>2, <1>3, <3>2, ProcessFacts DEF PairInv, AtPair
    <3>3. QED
      BY <3>1, <3>2
  <2>2. QED
    BY <2>1, ProcessFacts
<1>6. ASSUME ~crossed', NEW q \in Process, pc[q] \in {"cert", "key"}
      PROVE  /\ io'[q] = "write" => handle'[q] = "tmp"
             /\ io'[q] = "rename" => tmp'[pc[q]] = q
             /\ pc[q] = "key" => file["cert"] = q
  <2>1. CASE q = p
    <3>1. pc[p] = "key" => ~crossed
      BY <1>2, <1>6
    <3>2. io'[q] = "write" /\ handle'[q] = "tmp"
      BY <1>1, <2>1 DEF TypeOK
    <3>3. QED
      BY <1>6, <2>1, <3>1, <3>2 DEF PairInv, OwnText
  <2>2. CASE q # p
    <3>1. io'[q] = io[q] /\ handle'[q] = handle[q]
      BY <1>1, <2>2 DEF TypeOK
    <3>2. CASE pc[p] \in {"cert", "key"}
      <4>1. ~AtPair(q)
        BY <1>3, <1>5, <1>6, <2>2, <3>2, ProcessFacts
      <4>2. pc[q] = "cert" /\ io[q] = "open"
        BY <4>1, <1>6 DEF AtPair
      <4>3. QED
        BY <3>1, <4>2
    <3>3. CASE pc[p] = "env"
      <4>1. ~crossed /\ tmp'[pc[q]] = tmp[pc[q]]
        BY <1>1, <1>2, <1>6, <3>3 DEF TypeOK, File
      <4>2. QED
        BY <1>6, <3>1, <4>1 DEF PairInv, OwnText
    <3>4. QED
      BY <1>1, <3>2, <3>3 DEF File
  <2>3. QED
    BY <2>1, <2>2
<1>7. OwnText'
  BY <1>1, <1>6 DEF OwnText
<1>8. \A q \in Process : io'[q] # "open" => pc'[q] \in File
  BY <1>1 DEF PairInv, TypeOK
<1>9. (\A q \in Process : AtPair(q) /\ AtPair(Other(q)) => crossed)'
  BY <1>5 DEF Other
<1>10. crossed' => torn'
  BY <1>2
<1>11. QED
  BY <1>4, <1>7, <1>8, <1>9, <1>10 DEF PairInv

LEMMA WriteTmpPair == ASSUME TypeOK, PairInv, NEW p \in Process, WriteTmp(p) PROVE PairInv'
<1> DEFINE text == IF pc[p] = "env" THEN Marker ELSE p
<1>1. /\ pc[p] \in File /\ io[p] = "write"
      /\ file' = Put(p, "file", file, text) /\ tmp' = Put(p, "tmp", tmp, text)
      /\ handle' = [handle EXCEPT ![p] = "none"] /\ io' = [io EXCEPT ![p] = "rename"]
      /\ pc' = pc /\ crossed' = crossed /\ torn' = torn
  BY DEF WriteTmp
<1>2. pc[p] # "env" => text = p
  OBVIOUS
<1> HIDE DEF text
<1>3. \A q \in Process : AtPair(q)' <=> AtPair(q)
  BY <1>1 DEF AtPair, TypeOK
<1>4. ~crossed => file'["cert"] = file["cert"] /\ file'["key"] = file["key"]
  <2>1. CASE pc[p] = "env"
    BY <1>1, <2>1 DEF Put, TypeOK, File
  <2>2. CASE pc[p] # "env"
    <3>1. ~crossed => handle[p] = "tmp"
      BY <1>1, <2>2 DEF PairInv, OwnText, File
    <3>2. QED
      BY <1>1, <3>1 DEF Put
  <2>3. QED
    BY <2>1, <2>2
<1>5. PairMatches'
  BY <1>1, <1>4 DEF PairInv, PairMatches, Pair
<1>6. ASSUME ~crossed, NEW q \in Process, pc[q] \in {"cert", "key"}
      PROVE  /\ io'[q] = "write" => handle'[q] = "tmp"
             /\ io'[q] = "rename" => tmp'[pc[q]] = q
             /\ pc[q] = "key" => file'["cert"] = q
  <2>1. CASE q = p
    <3>1. handle[p] = "tmp" /\ text = p
      BY <1>1, <1>2, <1>6, <2>1 DEF PairInv, OwnText
    <3>2. tmp'[pc[p]] = p
      BY <1>1, <3>1 DEF Put, TypeOK
    <3>3. io'[p] = "rename"
      BY <1>1 DEF TypeOK
    <3>4. QED
      BY <1>4, <1>6, <2>1, <3>2, <3>3 DEF PairInv, OwnText
  <2>2. CASE q # p
    <3>1. io'[q] = io[q] /\ handle'[q] = handle[q]
      BY <1>1, <2>2 DEF TypeOK
    <3>2. CASE pc[p] \in {"cert", "key"}
      <4>1. ~AtPair(q)
        BY <1>1, <1>6, <2>2, <3>2, ProcessFacts DEF PairInv, AtPair
      <4>2. pc[q] = "cert" /\ io[q] = "open"
        BY <4>1, <1>6 DEF AtPair
      <4>3. QED
        BY <3>1, <4>2
    <3>3. CASE pc[p] = "env"
      <4>1. tmp'[pc[q]] = tmp[pc[q]]
        BY <1>1, <1>6, <3>3 DEF TypeOK, File, Put
      <4>2. QED
        BY <1>4, <1>6, <3>1, <4>1 DEF PairInv, OwnText
    <3>4. QED
      BY <1>1, <3>2, <3>3 DEF File
  <2>3. QED
    BY <2>1, <2>2
<1>7. OwnText'
  BY <1>1, <1>6 DEF OwnText
<1>8. \A q \in Process : io'[q] # "open" => pc'[q] \in File
  BY <1>1 DEF PairInv, TypeOK
<1>9. (\A q \in Process : AtPair(q) /\ AtPair(Other(q)) => crossed)'
  <2>1. \A q \in Process : AtPair(q)' /\ AtPair(Other(q))' => crossed'
    BY <1>1, <1>3, ProcessFacts DEF PairInv
  <2>2. QED
    BY <2>1 DEF Other
<1>10. QED
  BY <1>1, <1>5, <1>7, <1>8, <1>9 DEF PairInv

(* What every rename does to the control state. *)
LEMMA RenameSteps ==
  ASSUME TypeOK, PairInv, NEW p \in Process, Rename(p)
  PROVE  /\ pc[p] \in File /\ io[p] = "rename" /\ io' = [io EXCEPT ![p] = "open"]
         /\ pc' = [pc EXCEPT ![p] = CASE pc[p] = "cert" -> "key" [] pc[p] = "key" -> "env" [] OTHER -> "off"]
         /\ \A q \in Process : pc[q] # pc[p] => handle'[q] = handle[q]
         /\ pc[p] # "key" => torn' = torn /\ (crossed' <=> crossed)
         /\ pc[p] = "key" => (torn' <=> crossed) /\ (crossed' <=> crossed /\ AtPair(Other(p)))
<1>1. /\ pc[p] \in File /\ io[p] = "rename" /\ io' = [io EXCEPT ![p] = "open"]
      /\ handle' = [q \in Process |->
           CASE pc[q] = pc[p] /\ handle[q] = "tmp" -> "file"
             [] pc[q] = pc[p] /\ handle[q] = "file" -> "gone"
             [] OTHER -> handle[q]]
      /\ torn' = IF pc[p] = "key" THEN crossed ELSE torn
      /\ crossed' = (crossed /\ (pc[p] = "key" => AtPair(Other(p))))
  BY Zenon DEF Rename, RenameTo
<1>2. pc' = [pc EXCEPT ![p] = CASE pc[p] = "cert" -> "key" [] pc[p] = "key" -> "env" [] OTHER -> "off"]
  <2>1. CASE pc[p] = "env"
    BY <2>1 DEF Rename, RenameTo, Return
  <2>2. CASE pc[p] # "env"
    <3>1. pc' = [pc EXCEPT ![p] = IF pc[p] = "cert" THEN "key" ELSE "env"]
      BY <2>2 DEF Rename, RenameTo, Goto
    <3>2. CASE pc[p] = "cert"
      BY <3>1, <3>2
    <3>3. CASE pc[p] = "key"
      BY <3>1, <3>3
    <3>4. QED
      BY <1>1, <2>2, <3>2, <3>3 DEF File
  <2>3. QED
    BY <2>1, <2>2
<1>3. \A q \in Process : pc[q] # pc[p] => handle'[q] = handle[q]
  BY <1>1
<1>4. /\ pc[p] # "key" => torn' = torn /\ (crossed' <=> crossed)
      /\ pc[p] = "key" => (torn' <=> crossed) /\ (crossed' <=> crossed /\ AtPair(Other(p)))
  BY <1>1, Zenon
<1>5. QED
  BY <1>1, <1>2, <1>3, <1>4

LEMMA RenamePair == ASSUME TypeOK, PairInv, NEW p \in Process, Rename(p) PROVE PairInv'
<1> DEFINE files == [file EXCEPT ![pc[p]] = tmp[pc[p]]]
           tmps == [tmp EXCEPT ![pc[p]] = None]
<1>1. /\ pc[p] \in File /\ io[p] = "rename" /\ io' = [io EXCEPT ![p] = "open"]
      /\ pc' = [pc EXCEPT ![p] = CASE pc[p] = "cert" -> "key" [] pc[p] = "key" -> "env" [] OTHER -> "off"]
      /\ \A q \in Process : pc[q] # pc[p] => handle'[q] = handle[q]
      /\ pc[p] # "key" => torn' = torn /\ (crossed' <=> crossed)
      /\ pc[p] = "key" => (torn' <=> crossed) /\ (crossed' <=> crossed /\ AtPair(Other(p)))
  BY RenameSteps
<1>2. \A q \in Process : q # p =>
        pc'[q] = pc[q] /\ io'[q] = io[q] /\ (AtPair(q)' <=> AtPair(q))
  BY <1>1 DEF AtPair, TypeOK
<1>3. io'[p] = "open"
  BY <1>1 DEF TypeOK
<1>4. \A q \in Process : io'[q] # "open" => pc'[q] \in File
  BY <1>2, <1>3 DEF PairInv
<1>5. crossed' => torn'
  BY <1>1 DEF PairInv
<1>6. CASE pc[p] = "cert"
  <2>1. /\ file'["cert"] = tmp["cert"] /\ pc'[p] = "key" /\ torn' = torn /\ (crossed' <=> crossed)
    BY <1>1, <1>6 DEF Rename, RenameTo, TypeOK
  <2>2. PairMatches'
    BY <2>1 DEF PairMatches
  <2>3. AtPair(p)
    BY <1>1, <1>6 DEF AtPair
  <2>4. \A q \in Process : AtPair(q)' /\ AtPair(Other(q))' => crossed'
    BY <1>2, <2>1, <2>3, ProcessFacts DEF PairInv
  <2>5. ASSUME ~crossed, NEW q \in Process, pc'[q] \in {"cert", "key"}
        PROVE  io'[q] = "open" /\ (pc'[q] = "key" => file'["cert"] = q)
    <3>1. CASE q = p
      BY <1>1, <1>3, <1>6, <2>1, <2>5, <3>1 DEF PairInv, OwnText
    <3>2. CASE q # p
      <4>1. ~AtPair(q)
        BY <2>3, <2>5, <3>2, ProcessFacts DEF PairInv
      <4>2. QED
        BY <1>2, <2>5, <3>2, <4>1 DEF AtPair
    <3>3. QED
      BY <3>1, <3>2
  <2>6. OwnText'
    BY <2>1, <2>5 DEF OwnText
  <2>7. (\A q \in Process : AtPair(q) /\ AtPair(Other(q)) => crossed)'
    BY <2>4 DEF Other
  <2>8. QED
    BY <1>4, <1>5, <2>2, <2>6, <2>7 DEF PairInv
<1>7. CASE pc[p] = "key"
  <2>1. /\ file'["cert"] = file["cert"] /\ file'["key"] = tmp["key"] /\ pc'[p] = "env"
        /\ (torn' <=> crossed) /\ (crossed' <=> crossed /\ AtPair(Other(p)))
    BY <1>1, <1>7 DEF Rename, RenameTo, TypeOK, File
  <2>2. AtPair(p) /\ ~AtPair(p)'
    BY <1>7, <2>1 DEF AtPair
  <2>3. PairMatches'
    <3>1. CASE crossed
      BY <2>1, <3>1 DEF PairMatches
    <3>2. CASE ~crossed
      <4>1. file["cert"] = p /\ tmp["key"] = p
        BY <1>1, <1>7, <3>2 DEF PairInv, OwnText
      <4>2. QED
        BY <2>1, <4>1, TextFacts DEF PairMatches, Pair
    <3>3. QED
      BY <3>1, <3>2
  <2>4. \A q \in Process : AtPair(q)' /\ AtPair(Other(q))' => crossed'
    BY <2>2, ProcessFacts
  <2>5. ASSUME ~crossed', NEW q \in Process, pc'[q] \in {"cert", "key"}
        PROVE  io'[q] = "open" /\ pc'[q] # "key"
    <3>1. q # p /\ q = Other(p)
      BY <2>1, <2>5, ProcessFacts
    <3>2. ~AtPair(q)
      BY <2>1, <2>2, <2>5, <3>1, ProcessFacts DEF PairInv
    <3>3. QED
      BY <1>2, <2>5, <3>1, <3>2 DEF AtPair
  <2>6. OwnText'
    BY <2>5 DEF OwnText
  <2>7. (\A q \in Process : AtPair(q) /\ AtPair(Other(q)) => crossed)'
    BY <2>4 DEF Other
  <2>8. QED
    BY <1>4, <1>5, <2>3, <2>6, <2>7 DEF PairInv
<1>8. CASE pc[p] = "env"
  <2>1. Retire(p, files, tmps)
    BY <1>8 DEF Rename, RenameTo
  <2>2. /\ files \in [File -> Text] /\ tmps \in [File -> Text]
        /\ \A f \in {"cert", "key"} : files[f] = file[f] /\ tmps[f] = tmp[f]
    BY <1>8, TextFacts DEF TypeOK, File
  <2> HIDE DEF files, tmps
  <2>3. PICK x \in Former : file' = Renamed(p, x, files) /\ tmp' = Renamed(p, x, tmps)
    BY <2>1, RetireFacts
  <2>4. /\ pc'[p] = "off" /\ torn' = torn /\ (crossed' <=> crossed)
        /\ ~AtPair(p) /\ ~AtPair(p)'
    BY <1>1, <1>8 DEF AtPair, TypeOK
  <2>5. Pair => Pair'
    BY <2>2, <2>3, RenamedFacts DEF Pair, File
  <2>6. file["cert"] = None /\ file["key"] = None => file'["cert"] = None /\ file'["key"] = None
    BY <2>2, <2>3, RenamedFacts, TextFacts DEF File
  <2>7. \A q \in Process : pc[q] = "key" => pc'[q] = "key"
    BY <1>2, <1>8
  <2>8. PairMatches'
    BY <2>4, <2>5, <2>6, <2>7 DEF PairInv, PairMatches
  <2>9. \A q \in Process : AtPair(q)' /\ AtPair(Other(q))' => crossed'
    BY <1>2, <2>4, ProcessFacts DEF PairInv
  <2>10. ASSUME ~crossed, NEW q \in Process, pc'[q] \in {"cert", "key"}
         PROVE  /\ io'[q] = "write" => handle'[q] = "tmp"
                /\ io'[q] = "rename" => tmp'[pc'[q]] = q
                /\ pc'[q] = "key" => file'["cert"] = q
    <3>1. q # p /\ pc'[q] = pc[q] /\ io'[q] = io[q] /\ handle'[q] = handle[q]
      BY <1>1, <1>2, <1>8, <2>4, <2>10
    <3>2. tmp[pc[q]] = q => tmp'[pc[q]] = q
      BY <2>2, <2>3, <2>10, <3>1, RenamedFacts DEF File
    <3>3. file["cert"] = q => file'["cert"] = q
      BY <2>2, <2>3, <3>1, RenamedFacts DEF File
    <3>4. QED
      BY <2>10, <3>1, <3>2, <3>3 DEF PairInv, OwnText
  <2>11. OwnText'
    BY <2>4, <2>10 DEF OwnText
  <2>12. (\A q \in Process : AtPair(q) /\ AtPair(Other(q)) => crossed)'
    BY <2>9 DEF Other
  <2>13. QED
    BY <1>4, <1>5, <2>8, <2>11, <2>12 DEF PairInv
<1>9. QED
  BY <1>1, <1>6, <1>7, <1>8 DEF File

(* p stops, with what it left in the files it had open; unless it crossed  *)
(* with the other, those of the pair are as they were.                     *)
LEMMA AbandonPair ==
  ASSUME TypeOK, PairInv, NEW p \in Process,
         NEW files \in [File -> Text], NEW tmps \in [File -> Text],
         ~crossed => files["cert"] = file["cert"] /\ files["key"] = file["key"],
         \A f \in File : pc[p] # f \/ io[p] = "open" => tmps[f] = tmp[f],
         pc' = [pc EXCEPT ![p] = "off"], Abandon(p, files, tmps)
  PROVE  PairInv'
<1> DEFINE shared == pc[Other(p)] = pc[p] /\ io[Other(p)] # "open"
           kept == IF pc[p] \in File /\ ~shared THEN [tmps EXCEPT ![pc[p]] = None] ELSE tmps
<1>1. /\ Retire(p, files, kept)
      /\ handle' = [handle EXCEPT ![p] = "none"] /\ io' = [io EXCEPT ![p] = "open"]
  BY DEF Abandon
<1>2. /\ torn' <=> torn \/ pc[p] = "key"
      /\ crossed' <=> crossed /\ AtPair(Other(p))
  BY Zenon DEF Abandon
<1>3. /\ kept \in [File -> Text]
      /\ \A f \in File : pc[p] # f => kept[f] = tmp[f]
      /\ shared => kept = tmps
  BY TextFacts
<1> HIDE DEF kept
<1>4. PICK x \in Former : file' = Renamed(p, x, files) /\ tmp' = Renamed(p, x, kept)
  BY <1>1, RetireFacts
<1>5. /\ pc'[p] = "off" /\ io'[p] = "open" /\ ~AtPair(p)'
      /\ \A q \in Process : q # p =>
           pc'[q] = pc[q] /\ io'[q] = io[q] /\ handle'[q] = handle[q] /\ (AtPair(q)' <=> AtPair(q))
  BY <1>1 DEF AtPair, TypeOK
<1>6. ~torn' => ~torn /\ ~crossed /\ pc[p] # "key"
  BY <1>2 DEF PairInv
<1>7. ~crossed /\ Pair => Pair'
  BY <1>4, RenamedFacts DEF Pair, File
<1>8. ~crossed /\ file["cert"] = None /\ file["key"] = None
        => file'["cert"] = None /\ file'["key"] = None
  BY <1>4, RenamedFacts, TextFacts DEF File
<1>9. PairMatches'
  <2>1. pc[p] # "key" => \A q \in Process : pc[q] = "key" => pc'[q] = "key"
    BY <1>5
  <2>2. QED
    BY <1>6, <1>7, <1>8, <2>1 DEF PairInv, PairMatches
<1>10. crossed' => torn'
  BY <1>2 DEF PairInv
<1>11. \A q \in Process : AtPair(q)' /\ AtPair(Other(q))' => crossed'
  BY <1>5, ProcessFacts
<1>12. \A q \in Process : io'[q] # "open" => pc'[q] \in File
  BY <1>5 DEF PairInv
<1>13. ASSUME ~crossed', NEW q \in Process, pc'[q] \in {"cert", "key"}
       PROVE  /\ io'[q] = "write" => handle'[q] = "tmp"
              /\ io'[q] = "rename" => tmp'[pc'[q]] = q
              /\ pc'[q] = "key" => file'["cert"] = q
  <2>1. q # p /\ q = Other(p)
    BY <1>5, <1>13, ProcessFacts
  <2>2. /\ pc'[q] = pc[q] /\ io'[q] = io[q] /\ handle'[q] = handle[q]
        /\ pc[q] \in {"cert", "key"}
    BY <1>5, <1>13, <2>1
  <2>3. CASE ~AtPair(q)
    BY <2>2, <2>3 DEF AtPair
  <2>4. CASE AtPair(q)
    <3>1. ~crossed /\ ~AtPair(p)
      BY <1>2, <1>13, <2>1, <2>4, ProcessFacts DEF PairInv
    <3>2. io[q] = "rename" => kept[pc[q]] = q
      <4>1. io[q] = "rename" => tmp[pc[q]] = q
        BY <2>2, <3>1 DEF PairInv, OwnText
      <4>2. CASE pc[p] # pc[q]
        BY <1>3, <2>2, <4>1, <4>2 DEF File
      <4>3. CASE pc[p] = pc[q]
        <5>1. io[q] # "open" => shared
          BY <2>1, <4>3
        <5>2. pc[p] = "cert" /\ io[p] = "open"
          BY <2>2, <3>1, <4>3 DEF AtPair
        <5>3. QED
          BY <1>3, <2>2, <4>1, <4>3, <5>1, <5>2 DEF File
      <4>4. QED
        BY <4>2, <4>3
    <3>3. kept[pc[q]] = q => tmp'[pc[q]] = q
      BY <1>3, <1>4, <2>1, <2>2, RenamedFacts DEF File
    <3>4. pc[q] = "key" => file'["cert"] = q
      BY <1>4, <2>1, <2>2, <3>1, RenamedFacts DEF PairInv, OwnText, File
    <3>5. QED
      BY <2>2, <3>1, <3>2, <3>3, <3>4 DEF PairInv, OwnText
  <2>5. QED
    BY <2>3, <2>4
<1>14. OwnText'
  BY <1>13 DEF OwnText
<1>15. (\A q \in Process : AtPair(q) /\ AtPair(Other(q)) => crossed)'
  BY <1>11 DEF Other
<1>16. QED
  BY <1>9, <1>10, <1>12, <1>14, <1>15 DEF PairInv

LEMMA WriteFailsPair == ASSUME TypeOK, PairInv, NEW p \in Process, WriteFails(p) PROVE PairInv'
<1> DEFINE files == Put(p, "file", file, Partial)
           tmps == Put(p, "tmp", tmp, Partial)
<1>1. files \in [File -> Text] /\ tmps \in [File -> Text]
  BY PutType, TextFacts DEF TypeOK
<1>2. pc[p] \in File /\ Abandon(p, files, tmps) /\ pc' = [pc EXCEPT ![p] = "off"]
  BY DEF WriteFails, Return
<1>3. \A f \in File : pc[p] # f \/ io[p] = "open" => tmps[f] = tmp[f]
  BY DEF Put, TypeOK
<1>4. ~crossed => files["cert"] = file["cert"] /\ files["key"] = file["key"]
  <2>1. CASE pc[p] = "env"
    BY <2>1 DEF Put, TypeOK, File
  <2>2. CASE pc[p] \in {"cert", "key"}
    <3>1. ~crossed => handle[p] # "file"
      BY <2>2 DEF PairInv, OwnText, TypeOK
    <3>2. QED
      BY <3>1 DEF Put
  <2>3. QED
    BY <1>2, <2>1, <2>2 DEF File
<1> HIDE DEF files, tmps
<1>5. QED
  BY <1>1, <1>2, <1>3, <1>4, AbandonPair

LEMMA KillPair == ASSUME TypeOK, PairInv, NEW p \in Process, Kill(p) PROVE PairInv'
<1>1. pc' = [pc EXCEPT ![p] = "off"] /\ Abandon(p, file, tmp)
  BY DEF Kill, Goto
<1>2. QED
  BY <1>1, AbandonPair DEF TypeOK

LEMMA PairInvNext == TypeOK /\ PairInv /\ [Next]_vars => PairInv'
<1> SUFFICES ASSUME TypeOK, PairInv, [Next]_vars PROVE PairInv'
  OBVIOUS
<1> USE DEF filesVars, dnsVars, nodeVars, Goto
<1>1. ASSUME NEW p \in Process, Begin(p) PROVE PairInv'
  <2>1. Outside(p)
    BY <1>1 DEF Begin, Outside, Steps, File
  <2>2. QED
    BY <2>1, OutsideKeeps
<1>2. ASSUME UNCHANGED <<file, tmp, handle, io, crossed, torn, pc>> PROVE PairInv'
  <2>1. PairMatches' /\ OwnText'
    BY <1>2 DEF PairInv, PairMatches, Pair, OwnText
  <2>2. (\A p \in Process : AtPair(p) /\ AtPair(Other(p)) => crossed)'
    BY <1>2 DEF PairInv, AtPair, Other
  <2>3. QED
    BY <1>2, <2>1, <2>2 DEF PairInv
<1>3. CASE StartNode \/ Renew \/ RunSetup
  BY <1>1, <1>3, ProcessFacts DEF StartNode, Renew, RunSetup
<1>4. CASE StartXray \/ HotReload \/ Age \/ UNCHANGED vars
  BY <1>2, <1>4 DEF StartXray, HotReload, Age, vars
<1>5. ASSUME NEW p \in Process, EnsureCert(p) PROVE PairInv'
  <2>1. CASE OpenTmp(p) \/ WriteTmp(p) \/ Rename(p) \/ WriteFails(p)
    BY <2>1, OpenTmpPair, WriteTmpPair, RenamePair, WriteFailsPair
  <2> USE DEF Outside, Return, Steps, File
  <2>2. Check(p) => Outside(p)
    BY DEF Check
  <2>3. (\E spared \in BOOLEAN : Order(p, spared)) => Outside(p)
    BY DEF Order
  <2>4. Publish(p) \/ TxtSeen(p) \/ Authorize(p) \/ Finalize(p) => Outside(p)
    BY DEF Publish, TxtSeen, Authorize, Finalize
  <2>5. \A cleared \in BOOLEAN : Clear(p, cleared) => Outside(p)
    BY DEF Clear
  <2>6. OrderFails(p) \/ PublishFails(p) \/ WaitFails(p) \/ AuthorizeFails(p) \/ FinalizeFails(p)
        => Outside(p)
    BY DEF OrderFails, PublishFails, WaitFails, AuthorizeFails, FinalizeFails
  <2> HIDE DEF Outside, Return, Steps, File
  <2>7. OpenTmp(p) \/ WriteTmp(p) \/ Rename(p) \/ WriteFails(p) \/ Outside(p)
    BY <1>5, <2>2, <2>3, <2>4, <2>5, <2>6 DEF EnsureCert, Succeeds, Fails
  <2>8. QED
    BY <2>1, <2>7, OutsideKeeps
<1>6. ASSUME NEW p \in Process, Kill(p) PROVE PairInv'
  BY <1>6, KillPair
<1>7. QED
  BY <1>3, <1>4, <1>5, <1>6 DEF Next

LEMMA PairInvInit == Init => PairInv
<1> SUFFICES ASSUME Init PROVE PairInv
  OBVIOUS
<1>1. PairMatches
  BY DEF Init, PairMatches, File
<1>2. OwnText /\ \A p \in Process : ~AtPair(p) /\ io[p] = "open"
  BY DEF Init, OwnText, AtPair
<1>3. QED
  BY <1>1, <1>2 DEF Init, PairInv

(* Once a process is through, cert.pem and key.pem are whole and of one    *)
(* issue, unless one stopped or failed between its two renames or two      *)
(* wrote the pair at once, and no other has written it alone since         *)
(* (writeFileAtomic's open, write and rename; CertRenewal's PairMatches).  *)
THEOREM PairAlwaysMatches == Spec => []PairMatches
<1>1. PairInv => PairMatches
  BY DEF PairInv
<1>2. QED
  BY <1>1, PairInvInit, TypeCorrect, PairInvNext, PTL DEF Spec

---------------------------------------------------------------------------
(* The challenge record.                                                   *)

LEMMA NoRecordNext == TypeOK /\ NoRecordLeft /\ [Next]_vars => NoRecordLeft'
<1> SUFFICES ASSUME TypeOK, NoRecordLeft, [Next]_vars PROVE NoRecordLeft'
  OBVIOUS
<1>1. ASSUME NEW p \in Process, NEW s \in Steps,
             pc' = [pc EXCEPT ![p] = s], UNCHANGED dnsVars,
             ~AtChallenge(p) \/ s \in {"wait", "accept", "clearOk", "clearErr"}
      PROVE  NoRecordLeft'
  <2>1. \A q \in Process : AtChallenge(q) => AtChallenge(q)'
    BY <1>1 DEF AtChallenge, TypeOK
  <2>2. QED
    BY <1>1, <2>1 DEF NoRecordLeft, dnsVars
<1>2. ASSUME UNCHANGED <<dnsVars, pc>> PROVE NoRecordLeft'
  BY <1>2 DEF NoRecordLeft, AtChallenge, dnsVars
<1>3. ASSUME NEW p \in Process, \A q \in Process : q # p => pc'[q] = pc[q],
             littered' \/ ~txt' \/ AtChallenge(Other(p))
      PROVE  NoRecordLeft'
  <2>1. AtChallenge(Other(p)) => AtChallenge(Other(p))'
    BY <1>3, ProcessFacts DEF AtChallenge, Other
  <2>2. QED
    BY <1>3, <2>1, ProcessFacts DEF NoRecordLeft
<1>4. ASSUME NEW p \in Process, Begin(p) PROVE NoRecordLeft'
  BY <1>1, <1>4 DEF Begin, Goto, AtChallenge, Steps
<1>5. CASE StartNode \/ Renew \/ RunSetup
  BY <1>4, <1>5, ProcessFacts DEF StartNode, Renew, RunSetup
<1>6. CASE StartXray \/ HotReload \/ Age \/ UNCHANGED vars
  BY <1>2, <1>6 DEF StartXray, HotReload, Age, vars, dnsVars
<1>7. ASSUME NEW p \in Process, EnsureCert(p) PROVE NoRecordLeft'
  <2> USE DEF Return, Goto, AtChallenge, Steps, File
  <2>1. CASE Check(p)
    BY <1>1, <2>1 DEF Check
  <2>2. ASSUME NEW spared \in BOOLEAN, Order(p, spared) PROVE NoRecordLeft'
    BY <1>1, <2>2 DEF Order
  <2>3. CASE Publish(p)
    BY <2>3 DEF Publish, NoRecordLeft, TypeOK
  <2>4. CASE TxtSeen(p) \/ WaitFails(p)
    BY <1>1, <2>4 DEF TxtSeen, WaitFails
  <2>5. CASE Authorize(p) \/ AuthorizeFails(p)
    BY <1>1, <2>5 DEF Authorize, AuthorizeFails
  <2>6. CASE Finalize(p) \/ OrderFails(p) \/ FinalizeFails(p)
    BY <1>1, <2>6 DEF Finalize, OrderFails, FinalizeFails
  <2>7. CASE PublishFails(p)
    <3>1. CASE UNCHANGED dnsVars
      BY <1>1, <2>7, <3>1 DEF PublishFails
    <3>2. CASE ~UNCHANGED dnsVars
      <4>1. littered' \/ AtChallenge(Other(p))
        BY <2>7, <3>2, Zenon DEF PublishFails
      <4>2. \A q \in Process : q # p => pc'[q] = pc[q]
        BY <2>7 DEF PublishFails, TypeOK
      <4>3. QED
        BY <1>3, <4>1, <4>2
    <3>3. QED
      BY <3>1, <3>2
  <2>8. ASSUME NEW cleared \in BOOLEAN, Clear(p, cleared) PROVE NoRecordLeft'
    <3>1. littered' \/ ~txt' \/ AtChallenge(Other(p))
      BY <2>8, Zenon DEF Clear
    <3>2. \A q \in Process : q # p => pc'[q] = pc[q]
      BY <2>8 DEF Clear, TypeOK
    <3>3. QED
      BY <1>3, <3>1, <3>2
  <2>9. CASE OpenTmp(p) \/ WriteTmp(p)
    BY <1>2, <2>9 DEF OpenTmp, WriteTmp
  <2>10. CASE Rename(p)
    <3>1. /\ pc[p] \in File /\ UNCHANGED dnsVars
          /\ \E s \in Steps : pc' = [pc EXCEPT ![p] = s]
      BY <2>10 DEF Rename, RenameTo
    <3>2. QED
      BY <1>1, <3>1
  <2>11. CASE WriteFails(p)
    BY <1>1, <2>11 DEF WriteFails
  <2>12. QED
    <3> HIDE DEF Return, Goto, AtChallenge, Steps, File
    <3> QED
      BY <1>7, <2>1, <2>2, <2>3, <2>4, <2>5, <2>6, <2>7, <2>8, <2>9, <2>10, <2>11
      DEF EnsureCert, Succeeds, Fails
<1>8. ASSUME NEW p \in Process, Kill(p) PROVE NoRecordLeft'
  <2>1. /\ littered' <=> littered \/ (txt /\ AtChallenge(p) /\ ~AtChallenge(Other(p)))
        /\ txt' = txt
    BY <1>8, Zenon DEF Kill
  <2>2. \A q \in Process : q # p => pc'[q] = pc[q]
    BY <1>8 DEF Kill, Goto, TypeOK
  <2>3. \A q \in Process : q # p => (AtChallenge(q) <=> AtChallenge(Other(p)))
    BY ProcessFacts
  <2>4. littered' \/ ~txt' \/ AtChallenge(Other(p))
    BY <2>1, <2>3 DEF NoRecordLeft
  <2>5. QED
    BY <1>3, <2>2, <2>4
<1>9. QED
  BY <1>5, <1>6, <1>7, <1>8 DEF Next

(* No challenge record outlives its challenge unnoticed (solveDNS01's       *)
(* deferred ClearTXT; CertRenewal's NoRecordLeft).                          *)
THEOREM RecordCleared == Spec => []NoRecordLeft
<1>1. Init => NoRecordLeft
  BY DEF Init, NoRecordLeft
<1>2. QED
  BY <1>1, TypeCorrect, NoRecordNext, PTL DEF Spec

---------------------------------------------------------------------------
(* Asking the CA.                                                          *)

Asking == {"order", "publish", "wait", "accept", "clearOk", "clearErr", "finalize"}

(* While p is alone the other process is off, so that what p checked holds  *)
(* until p itself replaces the certificate.                                 *)
AloneInv ==
  \A p \in Process : alone[p] /\ pc[p] # "off" =>
    /\ pc[Other(p)] = "off"
    /\ pc[p] \in Asking => needsRenewal

(* A step of p after which it asks only if it asked already, or it is to.  *)
LEMMA AloneStep ==
  ASSUME TypeOK, AloneInv, NEW p \in Process, NEW s \in Steps,
         pc' = [pc EXCEPT ![p] = s], pc[p] # "off",
         alone' = alone \/ alone' = [alone EXCEPT ![p] = FALSE],
         s \in Asking => UNCHANGED <<file, due>> /\ (needsRenewal' \/ pc[p] \in Asking)
  PROVE  AloneInv'
<1> SUFFICES ASSUME NEW q \in Process, alone'[q], pc'[q] # "off"
             PROVE  pc'[Other(q)] = "off" /\ (pc'[q] \in Asking => needsRenewal')
  BY DEF AloneInv, Other
<1>1. alone[q]
  BY DEF TypeOK
<1>2. CASE q = p
  <2>1. pc[Other(p)] = "off" /\ (pc[p] \in Asking => needsRenewal)
    BY <1>1, <1>2 DEF AloneInv
  <2>2. pc'[Other(p)] = "off" /\ pc'[p] = s
    BY <2>1, ProcessFacts DEF TypeOK
  <2>3. UNCHANGED <<file, due>> => (needsRenewal <=> needsRenewal')
    BY DEF needsRenewal
  <2>4. QED
    BY <1>2, <2>1, <2>2, <2>3
<1>3. CASE q # p
  <2>1. pc[q] # "off" /\ Other(q) = p
    BY <1>3, ProcessFacts DEF TypeOK
  <2>2. QED
    BY <1>1, <2>1 DEF AloneInv
<1>4. QED
  BY <1>2, <1>3

LEMMA AloneNext == TypeOK /\ AloneInv /\ [Next]_vars => AloneInv'
<1> SUFFICES ASSUME TypeOK, AloneInv, [Next]_vars PROVE AloneInv'
  OBVIOUS
<1>1. ASSUME NEW p \in Process, Begin(p) PROVE AloneInv'
  <2>1. /\ pc' = [pc EXCEPT ![p] = "check"] /\ pc[p] = "off"
        /\ \A q \in Process : alone'[q] <=> q = p /\ pc[Other(p)] = "off"
    BY <1>1 DEF Begin, Goto
  <2>2. ASSUME NEW q \in Process, alone'[q]
        PROVE  pc'[Other(q)] = "off" /\ pc'[q] \notin Asking
    <3>1. q = p /\ pc[Other(p)] = "off"
      BY <2>1, <2>2
    <3>2. pc'[p] = "check" /\ pc'[Other(p)] = "off"
      BY <2>1, <3>1, ProcessFacts DEF TypeOK
    <3>3. QED
      BY <3>1, <3>2 DEF Asking
  <2>3. QED
    BY <2>2 DEF AloneInv, Other
<1>2. CASE StartNode \/ Renew \/ RunSetup
  BY <1>1, <1>2, ProcessFacts DEF StartNode, Renew, RunSetup
<1>3. CASE StartXray \/ HotReload \/ UNCHANGED vars
  BY <1>3 DEF StartXray, HotReload, vars, filesVars, AloneInv, needsRenewal, Other
<1>4. CASE Age
  BY <1>4 DEF Age, AloneInv, needsRenewal, Other
<1>5. ASSUME NEW p \in Process, EnsureCert(p) PROVE AloneInv'
  <2> USE DEF Return, Goto, Asking, Steps, File, filesVars, nodeVars
  <2>1. CASE Check(p)
    <3>1. CASE needsRenewal
      <4>1. /\ pc[p] = "check" /\ pc' = [pc EXCEPT ![p] = "order"] /\ alone' = alone
            /\ UNCHANGED <<file, due>>
        BY <2>1, <3>1 DEF Check
      <4>2. needsRenewal'
        BY <3>1, <4>1 DEF needsRenewal
      <4>3. QED
        BY <4>1, <4>2, AloneStep
    <3>2. CASE ~needsRenewal
      <4>1. pc[p] = "check" /\ pc' = [pc EXCEPT ![p] = "off"] /\ alone' = [alone EXCEPT ![p] = FALSE]
        BY <2>1, <3>2 DEF Check
      <4>2. QED
        BY <4>1, AloneStep
    <3>3. QED
      BY <3>1, <3>2
  <2>2. ASSUME NEW spared \in BOOLEAN, Order(p, spared) PROVE AloneInv'
    BY <2>2, AloneStep DEF Order
  <2>3. CASE Publish(p) \/ TxtSeen(p) \/ WaitFails(p) \/ Authorize(p) \/ AuthorizeFails(p)
    BY <2>3, AloneStep DEF Publish, TxtSeen, WaitFails, Authorize, AuthorizeFails
  <2>4. CASE Finalize(p)
    BY <2>4, AloneStep DEF Finalize
  <2>5. CASE OrderFails(p) \/ PublishFails(p) \/ FinalizeFails(p)
    BY <2>5, AloneStep DEF OrderFails, PublishFails, FinalizeFails
  <2>6. ASSUME NEW cleared \in BOOLEAN, Clear(p, cleared) PROVE AloneInv'
    <3>1. CASE pc[p] = "clearOk"
      BY <2>6, <3>1, AloneStep DEF Clear
    <3>2. CASE pc[p] = "clearErr"
      BY <2>6, <3>2, AloneStep DEF Clear
    <3>3. QED
      BY <2>6, <3>1, <3>2 DEF Clear
  <2>7. CASE OpenTmp(p) \/ WriteTmp(p)
    <3>1. pc[p] \in File /\ pc' = [pc EXCEPT ![p] = pc[p]] /\ alone' = alone
      BY <2>7 DEF OpenTmp, WriteTmp, TypeOK
    <3>2. QED
      BY <3>1, AloneStep DEF TypeOK
  <2>8. CASE Rename(p)
    <3>1. CASE pc[p] = "env"
      BY <2>8, <3>1, AloneStep DEF Rename, RenameTo
    <3>2. CASE pc[p] # "env"
      <4>1. /\ pc[p] \in File /\ alone' = alone
            /\ pc' = [pc EXCEPT ![p] = IF pc[p] = "cert" THEN "key" ELSE "env"]
        BY <2>8, <3>2 DEF Rename, RenameTo
      <4>2. QED
        BY <4>1, AloneStep
    <3>3. QED
      BY <3>1, <3>2
  <2>9. CASE WriteFails(p)
    BY <2>9, AloneStep DEF WriteFails
  <2>10. QED
    <3> HIDE DEF Return, Goto, Asking, Steps, File, filesVars, nodeVars
    <3> QED
      BY <1>5, <2>1, <2>2, <2>3, <2>4, <2>5, <2>6, <2>7, <2>8, <2>9
      DEF EnsureCert, Succeeds, Fails
<1>6. ASSUME NEW p \in Process, Kill(p) PROVE AloneInv'
  <2>1. /\ pc' = [pc EXCEPT ![p] = "off"] /\ alone' = [alone EXCEPT ![p] = FALSE]
        /\ due' = due /\ Abandon(p, file, tmp)
    BY <1>6 DEF Kill, Goto
  <2>2. \E files : Retire(p, file, files)
    BY <2>1 DEF Abandon
  <2>3. PICK x \in Former : file' = Renamed(p, x, file)
    BY <2>2, RetireFacts
  <2>4. needsRenewal => needsRenewal'
    <3>1. /\ file["cert"] \notin Issue => file'["cert"] \notin Issue
          /\ file["env"] # Marker => file'["env"] # Marker
      BY <2>3, RenamedFacts DEF TypeOK, File
    <3>2. QED
      BY <2>1, <3>1 DEF needsRenewal
  <2>5. ASSUME NEW q \in Process, alone'[q], pc'[q] # "off"
        PROVE  pc'[Other(q)] = "off" /\ (pc'[q] \in Asking => needsRenewal')
    <3>1. q # p /\ alone[q] /\ pc'[q] = pc[q] /\ pc'[Other(q)] = "off"
      BY <2>1, <2>5, ProcessFacts DEF TypeOK
    <3>2. QED
      BY <2>4, <2>5, <3>1 DEF AloneInv
  <2>6. QED
    BY <2>5 DEF AloneInv, Other
<1>7. QED
  BY <1>2, <1>3, <1>4, <1>5, <1>6 DEF Next

(* The CA is asked for a certificate only while the one on disk will not    *)
(* do, unless the other process was at it too (EnsureCert; CertRenewal's    *)
(* NeededOnly).                                                             *)
THEOREM AskedOnlyWhenNeeded == Spec => NeededOnly
<1>1. Init => AloneInv
  BY DEF Init, AloneInv
<1>2. AloneInv => \A p \in Process :
        pc[p] = "finalize" /\ pc'[p] = "cert" => ~alone[p] \/ needsRenewal
  BY DEF AloneInv, Asking
<1>3. QED
  BY <1>1, <1>2, TypeCorrect, AloneNext, PTL DEF Spec, NeededOnly
============================================================================
