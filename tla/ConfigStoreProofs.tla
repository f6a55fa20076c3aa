------------------------- MODULE ConfigStoreProofs -------------------------
(***************************************************************************)
(* Proofs about ConfigStore: its types, that saves that do not overlap     *)
(* replace config.json as a whole, and that what an undisturbed command    *)
(* said is in force is; for every set of clients, sessions and labels and  *)
(* every bound.                                                            *)
(***************************************************************************)
EXTENDS ConfigStore, TLAPS

LEMMA ProcessFacts ==
  /\ Daemon \in Process /\ Daemon \notin Cli
  /\ \A w \in Cli : w \in Process /\ w # Daemon
  /\ \A p \in Process : p # Daemon => p \in Cli
  BY DaemonAssumption DEF Process

LEMMA ConfigFields ==
  ASSUME NEW conf \in Config
  PROVE  /\ conf.clients \in SUBSET Client /\ conf.rest \in Rest
         /\ \A S \in SUBSET Client : [conf EXCEPT !.clients = S] \in Config
         /\ \A r \in Rest : [conf EXCEPT !.rest = r] \in Config
         /\ \A l \in Label : /\ [conf EXCEPT !.label = l] \in Config
                             /\ [conf EXCEPT !.label = l].clients = conf.clients
                             /\ [conf EXCEPT !.label = l].rest = conf.rest
  BY DEF Config

---------------------------------------------------------------------------
(* Types.                                                                  *)

LEMMA TypeInit == Init => TypeOK
<1> SUFFICES ASSUME Init PROVE TypeOK
  OBVIOUS
<1>1. DefaultConfig \in Config
  BY LabelAssumption DEF DefaultConfig, Config
<1>2. config \in Config /\ issued \in SUBSET Client
  BY DEF Init, Config
<1>3. QED
  BY <1>1, <1>2, ProcessFacts DEF Init, TypeOK, Text, CliSteps, DaemonSteps, Saving

(* Where a process goes next, it may be. *)
PcOK(f) ==
  /\ f \in [Process -> CliSteps \cup DaemonSteps]
  /\ \A w \in Cli : f[w] \in CliSteps
  /\ f[Daemon] \in DaemonSteps

LEMMA PcStep ==
  ASSUME PcOK(pc), NEW p \in Process,
         NEW s \in IF p = Daemon THEN DaemonSteps ELSE CliSteps
  PROVE  PcOK([pc EXCEPT ![p] = s])
  BY ProcessFacts DEF PcOK

LEMMA PcNext == TypeOK /\ [Next]_vars => PcOK(pc)'
<1> SUFFICES ASSUME TypeOK, [Next]_vars PROVE PcOK(pc)'
  OBVIOUS
<1>1. PcOK(pc)
  BY DEF TypeOK, PcOK
<1>2. ASSUME NEW w \in Cli, NEW s \in CliSteps, pc' = [pc EXCEPT ![w] = s] PROVE PcOK(pc)'
  BY <1>1, <1>2, PcStep, ProcessFacts
<1>3. ASSUME NEW s \in DaemonSteps, pc' = [pc EXCEPT ![Daemon] = s] PROVE PcOK(pc)'
  BY <1>1, <1>3, PcStep, ProcessFacts
<1>4. ASSUME NEW w \in Cli, pc' = [pc EXCEPT ![w] = "off", ![Daemon] = "load"] PROVE PcOK(pc)'
  BY <1>1, <1>4, ProcessFacts DEF PcOK, CliSteps, DaemonSteps
<1>5. \A s \in Saving \cup {"off"} : s \in CliSteps /\ s \in DaemonSteps
  BY DEF CliSteps, DaemonSteps
<1>6. ASSUME NEW p \in Process, NEW s \in Saving \cup {"off"}, pc' = [pc EXCEPT ![p] = s]
      PROVE  PcOK(pc)'
  BY <1>2, <1>3, <1>5, <1>6, ProcessFacts
<1>7. \A p \in Process, ok \in BOOLEAN :
        AfterSave(p, ok) \in IF p = Daemon THEN DaemonSteps ELSE CliSteps
  BY DEF AfterSave, DaemonSteps, CliSteps
<1>8. ASSUME NEW w \in Cli, CliStep(w) PROVE PcOK(pc)'
  <2> USE DEF CliSteps, Saving
  <2>1. CASE StartLink(w)
    BY <1>2, <2>1 DEF StartLink
  <2>2. CASE StartSetup(w)
    BY <1>2, <2>2 DEF StartSetup
  <2>3. ASSUME NEW u \in Client, Add(w, u) PROVE PcOK(pc)'
    BY <1>2, <2>3 DEF Add, Edited
  <2>4. ASSUME NEW S \in SUBSET Client, Remove(w, S) PROVE PcOK(pc)'
    BY <1>2, <2>4 DEF Remove, Edited
  <2>5. ASSUME NEW r \in Rest, Change(w, r) PROVE PcOK(pc)'
    BY <1>2, <2>5 DEF Change, Edited
  <2>6. ASSUME NEW l \in Label, Locate(w, l) PROVE PcOK(pc)'
    BY <1>2, <2>6 DEF Locate, Edited
  <2>7. CASE Quit(w)
    BY <1>2, <2>7 DEF Quit
  <2>8. CASE SetupInstalls(w)
    BY <1>4, <2>8 DEF SetupInstalls
  <2>9. CASE Reload(w)
    BY <1>4, <2>9 DEF Reload
  <2>10. CASE ReloadFails(w)
    BY <1>2, <2>10 DEF ReloadFails
  <2>11. QED
    BY <1>8, <2>1, <2>2, <2>3, <2>4, <2>5, <2>6, <2>7, <2>8, <2>9, <2>10 DEF CliStep
<1>9. CASE Boot \/ Load \/ LoadFails \/ \E l \in Label : Relabel(l)
  <2>1. \E s \in DaemonSteps : pc' = [pc EXCEPT ![Daemon] = s]
    BY <1>9 DEF Boot, Load, LoadFails, Relabel, DaemonSteps, Saving
  <2>2. QED
    BY <1>3, <2>1
<1>10. ASSUME NEW p \in Process, SaveStep(p) \/ Kill(p) PROVE PcOK(pc)'
  <2>1. \/ \E s \in Saving \cup {"off"} : pc' = [pc EXCEPT ![p] = s]
        \/ \E ok \in BOOLEAN : pc' = [pc EXCEPT ![p] = AfterSave(p, ok)]
    <3>1. CASE Open(p) \/ Write(p) \/ Kill(p)
      BY <3>1 DEF Open, Write, Kill, Saving
    <3>2. CASE WriteFails(p)
      BY <3>2 DEF WriteFails
    <3>3. CASE Rename(p)
      <4>1. (tmp # Absent) \in BOOLEAN
        OBVIOUS
      <4>2. QED
        BY <3>3, <4>1, Zenon DEF Rename
    <3>4. QED
      BY <1>10, <3>1, <3>2, <3>3 DEF SaveStep
  <2>2. QED
    BY <1>1, <1>6, <1>7, <2>1, PcStep
<1>11. CASE UNCHANGED vars
  BY <1>1, <1>11 DEF vars, PcOK
<1>12. QED
  BY <1>8, <1>9, <1>10, <1>11 DEF Next

LEMMA RacedType ==
  ASSUME TypeOK, NEW p \in Process, Disturb(p)
  PROVE  raced' \in [Cli -> BOOLEAN] /\ promised' \in Config \cup {Absent}
  BY DEF Disturb

LEMMA TypeNext == TypeOK /\ [Next]_vars => TypeOK'
<1> SUFFICES ASSUME TypeOK, [Next]_vars PROVE TypeOK'
  OBVIOUS
<1> DEFINE FilesOK == /\ config \in Text /\ tmp \in Text
                      /\ handle \in [Process -> {"none", "tmp", "config", "gone"}]
           MemOK == mem \in [Process -> Config]
           CountsOK == /\ setup \in [Cli -> BOOLEAN] /\ commands \in Nat /\ relabels \in Nat
           HistoryOK == /\ issued \in SUBSET Client /\ revoked \in SUBSET Client
                        /\ removed \in [Cli -> SUBSET Client]
                        /\ overlapped \in BOOLEAN /\ raced \in [Cli -> BOOLEAN]
                        /\ promised \in Config \cup {Absent}
<1>1. PcOK(pc)'
  BY PcNext
<1>2. FilesOK' /\ MemOK' /\ CountsOK' /\ HistoryOK' => TypeOK'
  BY <1>1 DEF TypeOK, PcOK
<1>3. FilesOK /\ MemOK /\ CountsOK /\ HistoryOK
  BY DEF TypeOK
<1>4. /\ UNCHANGED files => FilesOK'
      /\ UNCHANGED mem => MemOK'
      /\ UNCHANGED <<setup, commands, relabels>> => CountsOK'
      /\ UNCHANGED history => HistoryOK'
  BY <1>3 DEF files, history
<1>5. \A p \in Process, conf \in Config : mem' = [mem EXCEPT ![p] = conf] => MemOK'
  BY <1>3
<1>6. ASSUME NEW w \in Cli, NEW asSetup \in BOOLEAN, StartCommand(w, asSetup)
      PROVE  CountsOK' /\ HistoryOK' /\ FilesOK'
  <2>1. raced' \in [Cli -> BOOLEAN]
    BY <1>3, <1>6 DEF StartCommand
  <2>2. QED
    BY <1>3, <1>4, <1>6, <2>1 DEF StartCommand
<1>7. ASSUME NEW w \in Cli, CliStep(w) PROVE TypeOK'
  <2>1. CASE StartLink(w)
    BY <1>2, <1>5, <1>6, <2>1, ProcessFacts DEF StartLink, Readable
  <2>2. CASE StartSetup(w)
    <3>1. DefaultConfig \in Config
      BY LabelAssumption DEF DefaultConfig, Config
    <3>2. (IF Readable THEN config ELSE DefaultConfig) \in Config
      BY <3>1 DEF Readable
    <3>3. MemOK'
      BY <1>5, <2>2, <3>2, ProcessFacts DEF StartSetup
    <3>4. QED
      BY <1>2, <1>6, <2>2, <3>3 DEF StartSetup
  <2>3. mem[w] \in Config
    BY <1>3, ProcessFacts
  <2>4. ASSUME NEW conf \in Config, Edited(w, conf), issued' \in SUBSET Client,
               removed' \in [Cli -> SUBSET Client]
        PROVE  TypeOK'
    <3>1. FilesOK' /\ CountsOK' /\ MemOK'
      BY <1>4, <1>5, <2>4, ProcessFacts DEF Edited
    <3>2. HistoryOK'
      BY <1>3, <2>4 DEF Edited
    <3>3. QED
      BY <1>2, <3>1, <3>2
  <2>5. ASSUME NEW u \in Client, Add(w, u) PROVE TypeOK'
    <3>1. [mem[w] EXCEPT !.clients = @ \cup {u}] \in Config
      BY <2>3, ConfigFields
    <3>2. QED
      BY <1>3, <2>4, <2>5, <3>1 DEF Add
  <2>6. ASSUME NEW S \in SUBSET Client, Remove(w, S) PROVE TypeOK'
    <3>1. [mem[w] EXCEPT !.clients = @ \ S] \in Config
      BY <2>3, ConfigFields
    <3>2. QED
      BY <1>3, <2>4, <2>6, <3>1 DEF Remove
  <2>7. ASSUME NEW r \in Rest, Change(w, r) PROVE TypeOK'
    BY <1>3, <2>3, <2>4, <2>7, ConfigFields DEF Change
  <2>8. ASSUME NEW l \in Label, Locate(w, l) PROVE TypeOK'
    BY <1>3, <2>3, <2>4, <2>8, ConfigFields DEF Locate
  <2>9. CASE Quit(w) \/ SetupInstalls(w) \/ ReloadFails(w)
    BY <1>2, <1>4, <2>9 DEF Quit, SetupInstalls, ReloadFails
  <2>10. CASE Reload(w)
    <3>1. FilesOK' /\ MemOK' /\ CountsOK'
      BY <1>3, <1>4, <2>10 DEF Reload
    <3>2. promised' \in Config \cup {Absent} /\ revoked' \in SUBSET Client
      BY <1>3, <2>3, <2>10 DEF Reload
    <3>3. QED
      BY <1>2, <1>3, <2>10, <3>1, <3>2 DEF Reload
  <2>11. QED
    BY <1>7, <2>1, <2>2, <2>5, <2>6, <2>7, <2>8, <2>9, <2>10 DEF CliStep
<1>8. CASE Boot \/ LoadFails
  BY <1>2, <1>4, <1>8 DEF Boot, LoadFails
<1>9. CASE Load
  BY <1>2, <1>4, <1>5, <1>9, ProcessFacts DEF Load, Readable
<1>10. ASSUME NEW l \in Label, Relabel(l) PROVE TypeOK'
  <2>1. MemOK'
    BY <1>3, <1>5, <1>10, ProcessFacts, ConfigFields DEF Relabel
  <2>2. FilesOK' /\ CountsOK' /\ HistoryOK'
    BY <1>3, <1>4, <1>10 DEF Relabel
  <2>3. QED
    BY <1>2, <2>1, <2>2
<1>11. ASSUME NEW p \in Process, Disturb(p), UNCHANGED <<mem, setup, commands, relabels, issued, removed, revoked>>,
              overlapped' \in BOOLEAN, FilesOK'
       PROVE  TypeOK'
  <2>1. HistoryOK'
    BY <1>3, <1>11, RacedType
  <2>2. QED
    BY <1>2, <1>4, <1>11, <2>1
<1>12. ASSUME NEW p \in Process, SaveStep(p) \/ Kill(p) PROVE TypeOK'
  <2>1. CASE Open(p)
    <3>1. overlapped' \in BOOLEAN
      BY <2>1, Zenon DEF Open
    <3>2. FilesOK'
      BY <1>3, <2>1 DEF Open, Text
    <3>3. QED
      BY <1>11, <2>1, <3>1, <3>2 DEF Open
  <2>2. ASSUME NEW t \in Text, PutText(p, t) PROVE FilesOK'
    BY <1>3, <2>2 DEF PutText
  <2>3. CASE Write(p)
    <3>1. \A t : t \in Over(OldText(p), mem[p]) => t \in Text
      BY <1>3 DEF Over, Text
    <3>2. FilesOK'
      BY <2>2, <2>3, <3>1 DEF Write
    <3>3. QED
      BY <1>3, <1>11, <2>3, <3>2 DEF Write
  <2>4. CASE WriteFails(p)
    <3>1. FilesOK'
      BY <2>2, <2>4 DEF WriteFails, Text
    <3>2. QED
      BY <1>3, <1>11, <2>4, <3>1 DEF WriteFails
  <2>5. CASE Rename(p)
    <3>1. FilesOK'
      BY <1>3, <1>4, <2>5 DEF Rename, Text
    <3>2. QED
      BY <1>3, <1>11, <2>5, <3>1 DEF Rename
  <2>6. CASE Kill(p)
    <3>1. FilesOK'
      BY <1>3, <2>6 DEF Kill
    <3>2. QED
      BY <1>2, <1>4, <2>6, <3>1 DEF Kill
  <2>7. QED
    BY <1>12, <2>1, <2>3, <2>4, <2>5, <2>6 DEF SaveStep
<1>13. CASE UNCHANGED vars
  BY <1>2, <1>4, <1>13 DEF vars, files, history
<1>14. QED
  BY <1>7, <1>8, <1>9, <1>10, <1>12, <1>13 DEF Next

(* Every variable keeps its type; in particular what a process holds is     *)
(* always a whole configuration (config.Load; ConfigStore's TypeOK).        *)
THEOREM TypeCorrect == Spec => []TypeOK
  BY TypeInit, TypeNext, PTL DEF Spec

---------------------------------------------------------------------------
(* config.json is replaced as a whole.                                     *)

(* Only a process that writes has a file open. *)
HandleInv == \A p \in Process : pc[p] # "write" => handle[p] = "none"

(* A step that is not one of a save: nobody enters a save's write or        *)
(* rename, and whoever is there stays as he is.                             *)
Quiet ==
  /\ UNCHANGED <<config, tmp, overlapped>>
  /\ \A q \in Process :
       /\ pc'[q] \in {"write", "rename"} => pc'[q] = pc[q] /\ mem'[q] = mem[q] /\ handle'[q] = handle[q]
       /\ pc'[q] # "write" => handle'[q] = "none"

LEMMA QuietSteps ==
  ASSUME TypeOK, HandleInv,
         \/ \E w \in Cli : CliStep(w)
         \/ Boot \/ Load \/ LoadFails
         \/ \E l \in Label : Relabel(l)
         \/ \E p \in Process : Kill(p)
         \/ UNCHANGED vars
  PROVE  Quiet
<1>1. /\ pc \in [Process -> CliSteps \cup DaemonSteps] /\ mem \in [Process -> Config]
      /\ handle \in [Process -> {"none", "tmp", "config", "gone"}]
  BY DEF TypeOK
<1>2. ASSUME NEW p \in Process, pc[p] \notin {"write", "rename"},
             NEW s \in {"off", "edit", "reload", "load", "up", "open"},
             pc' = [pc EXCEPT ![p] = s],
             mem' = mem \/ \E conf : mem' = [mem EXCEPT ![p] = conf],
             UNCHANGED <<config, tmp, handle, overlapped>>
      PROVE  Quiet
  BY <1>1, <1>2 DEF Quiet, HandleInv
<1>3. ASSUME NEW w \in Cli, CliStep(w) PROVE Quiet
  <2> USE ProcessFacts
  <2>1. CASE StartLink(w)
    BY <1>2, <2>1 DEF StartLink, StartCommand, files
  <2>2. CASE StartSetup(w)
    BY <1>2, <2>2 DEF StartSetup, StartCommand, files
  <2>3. ASSUME NEW conf, Edited(w, conf) PROVE Quiet
    BY <1>2, <2>3 DEF Edited, files
  <2>4. CASE Quit(w) \/ ReloadFails(w)
    BY <1>2, <2>4 DEF Quit, ReloadFails, files, history
  <2>5. CASE SetupInstalls(w)
    BY <1>1, <2>5 DEF SetupInstalls, files, history, Quiet, HandleInv
  <2>6. CASE Reload(w)
    BY <1>1, <2>6 DEF Reload, Quiet, HandleInv
  <2>7. QED
    BY <1>3, <2>1, <2>2, <2>3, <2>4, <2>5, <2>6 DEF CliStep, Add, Remove, Change, Locate
<1>4. CASE Boot \/ LoadFails \/ Load
  BY <1>2, <1>4, ProcessFacts DEF Boot, LoadFails, Load, files, history
<1>5. ASSUME NEW l \in Label, Relabel(l) PROVE Quiet
  BY <1>2, <1>5, ProcessFacts DEF Relabel, files, history
<1>6. ASSUME NEW p \in Process, Kill(p) PROVE Quiet
  BY <1>1, <1>6 DEF Kill, history, Quiet, HandleInv
<1>7. CASE UNCHANGED vars
  BY <1>7 DEF vars, Quiet, HandleInv
<1>8. QED
  BY <1>3, <1>4, <1>5, <1>6, <1>7

(* While no two saves overlap, at most one process is in one, and the       *)
(* temporary file holds what it has got to so far.                          *)
SaveInv ==
  /\ HandleInv
  /\ ~overlapped => \A p \in Process :
       /\ MidSave(p) => \A q \in Process : MidSave(q) => q = p
       /\ pc[p] = "write" => handle[p] = "tmp" /\ tmp = Empty
       /\ pc[p] = "rename" => tmp = mem[p]

LEMMA SaveInvNext == TypeOK /\ SaveInv /\ [Next]_vars => SaveInv'
<1> SUFFICES ASSUME TypeOK, SaveInv, [Next]_vars PROVE SaveInv'
  OBVIOUS
<1>1. /\ pc \in [Process -> CliSteps \cup DaemonSteps] /\ mem \in [Process -> Config]
      /\ handle \in [Process -> {"none", "tmp", "config", "gone"}] /\ HandleInv
  BY DEF TypeOK, SaveInv
<1>2. CASE Quiet
  BY <1>1, <1>2 DEF Quiet, SaveInv, HandleInv, MidSave
<1>3. ASSUME NEW p \in Process, Open(p) PROVE SaveInv'
  <2>1. /\ pc' = [pc EXCEPT ![p] = "write"] /\ handle' = [handle EXCEPT ![p] = "tmp"]
        /\ tmp' = Empty /\ mem' = mem
    BY <1>3 DEF Open
  <2>2. ~overlapped' => ~overlapped /\ \A q \in Process \ {p} : ~MidSave(q)
    BY <1>3, Zenon DEF Open
  <2>3. HandleInv'
    BY <1>1, <2>1 DEF HandleInv
  <2>4. QED
    BY <1>1, <2>1, <2>2, <2>3 DEF SaveInv, MidSave
<1>4. ASSUME NEW p \in Process, Write(p) PROVE SaveInv'
  <2>1. PICK t \in Over(OldText(p), mem[p]) : PutText(p, t)
    BY <1>4 DEF Write
  <2>2. /\ pc[p] = "write" /\ pc' = [pc EXCEPT ![p] = "rename"] /\ mem' = mem
        /\ overlapped' = overlapped /\ handle' = [handle EXCEPT ![p] = "none"]
    BY <1>4 DEF Write, PutText
  <2>3. HandleInv'
    BY <1>1, <2>2 DEF HandleInv
  <2>4. ~overlapped => tmp' = mem[p]
    BY <2>1, <2>2 DEF SaveInv, PutText, OldText, Over
  <2>5. QED
    BY <1>1, <2>2, <2>3, <2>4 DEF SaveInv, MidSave
<1>5. ASSUME NEW p \in Process, pc[p] \in {"write", "rename"},
             NEW s \in {"up", "edit", "reload", "off"}, pc' = [pc EXCEPT ![p] = s],
             mem' = mem, overlapped' = overlapped, HandleInv'
      PROVE  SaveInv'
  BY <1>1, <1>5 DEF SaveInv, MidSave
<1>6. \A p \in Process, ok \in BOOLEAN : AfterSave(p, ok) \in {"up", "edit", "reload", "off"}
  BY DEF AfterSave
<1>7. ASSUME NEW p \in Process, WriteFails(p) PROVE SaveInv'
  <2>1. HandleInv'
    BY <1>1, <1>6, <1>7 DEF WriteFails, PutText, HandleInv
  <2>2. QED
    BY <1>5, <1>6, <1>7, <2>1 DEF WriteFails
<1>8. ASSUME NEW p \in Process, Rename(p) PROVE SaveInv'
  <2>1. PICK ok \in BOOLEAN : pc' = [pc EXCEPT ![p] = AfterSave(p, ok)]
    BY <1>8, Zenon DEF Rename
  <2>2. \A q \in Process : handle[q] = "none" => handle'[q] = "none"
    BY <1>8 DEF Rename, files
  <2>3. HandleInv'
    BY <1>1, <1>6, <1>8, <2>1, <2>2 DEF Rename, HandleInv
  <2>4. QED
    BY <1>5, <1>6, <1>8, <2>1, <2>3 DEF Rename
<1>9. QED
  BY <1>1, <1>2, <1>3, <1>4, <1>7, <1>8, QuietSteps DEF Next, SaveStep

LEMMA SaveAlways == Spec => [](TypeOK /\ SaveInv)
<1>1. Init => SaveInv
  BY DEF Init, SaveInv, HandleInv, MidSave
<1>2. QED
  BY <1>1, TypeInit, TypeNext, SaveInvNext, PTL DEF Spec

(* As long as no two saves overlap, config.json is replaced only as a       *)
(* whole, by what the saving process meant (config.Save; ConfigStore's      *)
(* ReplacedWhole).                                                          *)
THEOREM AlwaysReplacedWhole == Spec => ReplacedWhole
<1>1. TypeOK /\ SaveInv /\ [Next]_vars =>
        [config' # config =>
           overlapped \/ \E p \in Process : pc[p] = "rename" /\ config' = mem[p]]_vars
  <2> SUFFICES ASSUME TypeOK, SaveInv, [Next]_vars, config' # config, ~overlapped
               PROVE  \E p \in Process : pc[p] = "rename" /\ config' = mem[p]
    OBVIOUS
  <2>1. HandleInv
    BY DEF SaveInv
  <2>2. ~Quiet
    BY DEF Quiet
  <2>3. PICK p \in Process : SaveStep(p)
    BY <2>1, <2>2, QuietSteps DEF Next
  <2>4. CASE Open(p)
    BY <2>4 DEF Open
  <2>5. CASE Write(p) \/ WriteFails(p)
    BY <2>5 DEF Write, WriteFails, PutText, SaveInv
  <2>6. CASE Rename(p)
    BY <2>6 DEF Rename, SaveInv, files
  <2>7. QED
    BY <2>3, <2>4, <2>5, <2>6 DEF SaveStep
<1>2. QED
  BY <1>1, SaveAlways, PTL DEF Spec, ReplacedWhole

---------------------------------------------------------------------------
(* A command that saw no other save is in force once it reloaded.          *)

(* A session no other process disturbed: nobody else is in a save, and the *)
(* files hold what its own save has got to.                                *)
Alone(w) ==
  /\ \A q \in Process : MidSave(q) => q = w
  /\ pc[w] = "write" => handle[w] = "tmp" /\ tmp = Empty
  /\ pc[w] = "rename" => tmp = mem[w]
  /\ pc[w] = "reload" => config = mem[w]

AloneInv == \A w \in Cli : pc[w] # "off" /\ ~raced[w] => Alone(w)

(* A session that a quiet step leaves undisturbed was so before, or has     *)
(* just begun with nobody in a save.                                        *)
QuietSessions ==
  \A w \in Cli :
    /\ pc'[w] = "reload" => pc[w] = "reload" /\ mem'[w] = mem[w]
    /\ pc'[w] # "off" /\ ~raced'[w] =>
         \/ pc[w] # "off" /\ ~raced[w]
         \/ pc'[w] \in {"edit", "open"} /\ \A q \in Process \ {w} : ~MidSave(q)

LEMMA QuietSessionSteps ==
  ASSUME TypeOK,
         \/ \E w \in Cli : CliStep(w)
         \/ Boot \/ Load \/ LoadFails
         \/ \E l \in Label : Relabel(l)
         \/ \E p \in Process : Kill(p)
         \/ UNCHANGED vars
  PROVE  QuietSessions
<1>1. /\ pc \in [Process -> CliSteps \cup DaemonSteps] /\ mem \in [Process -> Config]
      /\ raced \in [Cli -> BOOLEAN]
  BY DEF TypeOK
<1>2. ASSUME NEW w \in Cli, NEW asSetup, StartCommand(w, asSetup),
             NEW s \in {"edit", "open"}, pc' = [pc EXCEPT ![w] = s],
             NEW conf, mem' = [mem EXCEPT ![w] = conf]
      PROVE  QuietSessions
  <2> SUFFICES ASSUME NEW v \in Cli
               PROVE  /\ pc'[v] = "reload" => pc[v] = "reload" /\ mem'[v] = mem[v]
                      /\ pc'[v] # "off" /\ ~raced'[v] =>
                           \/ pc[v] # "off" /\ ~raced[v]
                           \/ /\ pc'[v] \in {"edit", "open"}
                              /\ \A q \in Process \ {v} : ~MidSave(q)
    BY DEF QuietSessions
  <2>1. raced' = [raced EXCEPT ![w] = \E q \in Process \ {w} : MidSave(q)]
    BY <1>2 DEF StartCommand
  <2>2. CASE v = w
    <3>1. raced'[w] <=> \E q \in Process \ {w} : MidSave(q)
      BY <1>1, <2>1, Zenon
    <3>2. pc'[w] = s
      BY <1>1, <1>2, ProcessFacts
    <3>3. QED
      BY <2>2, <3>1, <3>2, Zenon
  <2>3. CASE v # w
    <3>1. pc'[v] = pc[v] /\ mem'[v] = mem[v]
      BY <1>1, <1>2, <2>3, ProcessFacts
    <3>2. raced'[v] = raced[v]
      BY <1>1, <2>1, <2>3, Zenon
    <3>3. QED
      BY <3>1, <3>2
  <2>4. QED
    BY <2>2, <2>3
<1>3. ASSUME NEW p \in Process, NEW s \in {"off", "edit", "open", "load", "up"},
             pc' = [pc EXCEPT ![p] = s], UNCHANGED raced,
             s = "off" \/ p = Daemon \/ pc[p] # "off",
             mem' = mem \/ \E conf : mem' = [mem EXCEPT ![p] = conf]
      PROVE  QuietSessions
  BY <1>1, <1>3, ProcessFacts DEF QuietSessions
<1>4. ASSUME NEW w \in Cli, CliStep(w) PROVE QuietSessions
  <2> USE ProcessFacts
  <2>1. CASE StartLink(w)
    BY <1>2, <2>1 DEF StartLink
  <2>2. CASE StartSetup(w)
    BY <1>2, <2>2 DEF StartSetup
  <2>3. ASSUME NEW conf, Edited(w, conf) PROVE QuietSessions
    BY <1>3, <2>3 DEF Edited
  <2>4. CASE Quit(w) \/ ReloadFails(w)
    BY <1>3, <2>4 DEF Quit, ReloadFails, history
  <2>5. CASE SetupInstalls(w)
    BY <1>1, <2>5 DEF SetupInstalls, history, QuietSessions
  <2>6. CASE Reload(w)
    BY <1>1, <2>6 DEF Reload, QuietSessions
  <2>7. QED
    BY <1>4, <2>1, <2>2, <2>3, <2>4, <2>5, <2>6 DEF CliStep, Add, Remove, Change, Locate
<1>5. CASE Boot \/ LoadFails \/ Load
  BY <1>3, <1>5, ProcessFacts DEF Boot, LoadFails, Load, history
<1>6. ASSUME NEW l \in Label, Relabel(l) PROVE QuietSessions
  BY <1>3, <1>6, ProcessFacts DEF Relabel, history
<1>7. ASSUME NEW p \in Process, Kill(p) PROVE QuietSessions
  BY <1>3, <1>7 DEF Kill, history
<1>8. CASE UNCHANGED vars
  BY <1>8 DEF vars, QuietSessions
<1>9. QED
  BY <1>4, <1>5, <1>6, <1>7, <1>8

LEMMA AloneNext == TypeOK /\ HandleInv /\ AloneInv /\ [Next]_vars => AloneInv'
<1> SUFFICES ASSUME TypeOK, HandleInv, AloneInv, [Next]_vars PROVE AloneInv'
  OBVIOUS
<1>1. /\ pc \in [Process -> CliSteps \cup DaemonSteps] /\ mem \in [Process -> Config]
      /\ handle \in [Process -> {"none", "tmp", "config", "gone"}]
      /\ raced \in [Cli -> BOOLEAN]
  BY DEF TypeOK
<1>2. ASSUME Quiet, QuietSessions PROVE AloneInv'
  <2> SUFFICES ASSUME NEW w \in Cli, pc'[w] # "off", ~raced'[w] PROVE Alone(w)'
    BY DEF AloneInv
  <2>1. \A q \in Process : pc'[q] \in {"write", "rename"} =>
          pc'[q] = pc[q] /\ mem'[q] = mem[q] /\ handle'[q] = handle[q]
    BY <1>2 DEF Quiet
  <2>2. CASE pc[w] # "off" /\ ~raced[w]
    <3>1. Alone(w)
      BY <2>2 DEF AloneInv
    <3>2. config' = config /\ tmp' = tmp
      BY <1>2 DEF Quiet
    <3>3. pc'[w] = "reload" => pc[w] = "reload" /\ mem'[w] = mem[w]
      BY <1>2 DEF QuietSessions
    <3>4. QED
      BY <2>1, <3>1, <3>2, <3>3, ProcessFacts DEF Alone, MidSave
  <2>3. CASE pc'[w] \in {"edit", "open"} /\ \A q \in Process \ {w} : ~MidSave(q)
    BY <2>1, <2>3 DEF Alone, MidSave
  <2>4. QED
    BY <1>2, <2>2, <2>3 DEF QuietSessions
<1>3. ASSUME NEW p \in Process, Disturb(p), NEW s, pc' = [pc EXCEPT ![p] = s],
             p \in Cli /\ s # "off" /\ ~raced[p] => Alone(p)'
      PROVE  AloneInv'
  <2> SUFFICES ASSUME NEW w \in Cli, pc'[w] # "off", ~raced'[w] PROVE Alone(w)'
    BY DEF AloneInv
  <2>1. raced'[w] <=> raced[w] \/ (w # p /\ pc[w] # "off")
    BY <1>3, Zenon DEF Disturb
  <2>2. w = p
    BY <1>1, <1>3, <2>1, ProcessFacts
  <2>3. QED
    BY <1>1, <1>3, <2>1, <2>2
<1>4. ASSUME NEW p \in Cli, ~raced[p], pc[p] \in Saving, NEW s, pc' = [pc EXCEPT ![p] = s]
      PROVE  /\ Alone(p)
             /\ \A q \in Process : MidSave(q)' => q = p
  <2>1. Alone(p)
    BY <1>4 DEF AloneInv, Saving
  <2>2. QED
    BY <1>1, <1>4, <2>1 DEF Alone, MidSave
<1>5. \A p \in Process, ok \in BOOLEAN :
        AfterSave(p, ok) \in {"up", "edit", "off"} \cup (IF ok THEN {"reload"} ELSE {})
  BY DEF AfterSave
<1>6. ASSUME NEW p \in Process, Open(p) PROVE AloneInv'
  <2>1. /\ pc[p] = "open" /\ pc' = [pc EXCEPT ![p] = "write"] /\ Disturb(p)
        /\ handle' = [handle EXCEPT ![p] = "tmp"] /\ tmp' = Empty
    BY <1>6 DEF Open
  <2>2. ASSUME p \in Cli, ~raced[p] PROVE Alone(p)'
    <3>1. \A q \in Process : MidSave(q)' => q = p
      BY <1>4, <2>1, <2>2 DEF Saving
    <3>2. QED
      BY <1>1, <2>1, <3>1 DEF Alone
  <2>3. QED
    BY <1>3, <2>1, <2>2
<1>7. ASSUME NEW p \in Process, Write(p) PROVE AloneInv'
  <2>1. PICK t \in Over(OldText(p), mem[p]) : PutText(p, t)
    BY <1>7 DEF Write
  <2>2. /\ pc[p] = "write" /\ pc' = [pc EXCEPT ![p] = "rename"] /\ Disturb(p) /\ mem' = mem
    BY <1>7 DEF Write
  <2>3. ASSUME p \in Cli, ~raced[p] PROVE Alone(p)'
    <3>1. Alone(p) /\ \A q \in Process : MidSave(q)' => q = p
      BY <1>4, <2>2, <2>3 DEF Saving
    <3>2. handle[p] = "tmp" /\ OldText(p) = Empty
      BY <2>2, <3>1 DEF Alone, OldText
    <3>3. tmp' = mem[p]
      BY <2>1, <3>2 DEF PutText, Over
    <3>4. QED
      BY <1>1, <2>2, <3>1, <3>3 DEF Alone
  <2>4. QED
    BY <1>3, <2>2, <2>3
<1>8. ASSUME NEW p \in Process, WriteFails(p) PROVE AloneInv'
  <2>1. /\ pc[p] = "write" /\ pc' = [pc EXCEPT ![p] = AfterSave(p, FALSE)] /\ Disturb(p)
    BY <1>8 DEF WriteFails
  <2>2. ASSUME p \in Cli, ~raced[p] PROVE Alone(p)'
    <3>1. \A q \in Process : MidSave(q)' => q = p
      BY <1>4, <2>1, <2>2 DEF Saving
    <3>2. pc'[p] \in {"up", "edit", "off"}
      BY <1>1, <1>5, <2>1
    <3>3. QED
      BY <3>1, <3>2 DEF Alone
  <2>3. QED
    BY <1>3, <2>1, <2>2
<1>9. ASSUME NEW p \in Process, Rename(p) PROVE AloneInv'
  <2>1. PICK ok \in BOOLEAN : pc' = [pc EXCEPT ![p] = AfterSave(p, ok)]
    BY <1>9, Zenon DEF Rename
  <2>2. pc[p] = "rename" /\ Disturb(p) /\ mem' = mem
    BY <1>9 DEF Rename
  <2>3. ASSUME p \in Cli, ~raced[p] PROVE Alone(p)'
    <3>1. Alone(p) /\ \A q \in Process : MidSave(q)' => q = p
      BY <1>4, <2>1, <2>2, <2>3 DEF Saving
    <3>2. tmp = mem[p] /\ tmp # Absent
      BY <1>1, <2>2, <3>1, TextAssumption DEF Alone
    <3>3. config' = mem[p]
      BY <1>9, <3>2 DEF Rename
    <3>4. pc'[p] \in {"up", "edit", "off", "reload"}
      BY <1>1, <1>5, <2>1
    <3>5. QED
      BY <2>2, <3>1, <3>3, <3>4 DEF Alone
  <2>4. QED
    BY <1>3, <2>1, <2>2, <2>3
<1>10. QED
  BY <1>2, <1>6, <1>7, <1>8, <1>9, QuietSteps, QuietSessionSteps DEF Next, SaveStep

LEMMA AppliedNext == TypeOK /\ AloneInv /\ Applied /\ [Next]_vars => Applied'
<1> SUFFICES ASSUME TypeOK, AloneInv, Applied, [Next]_vars PROVE Applied'
  OBVIOUS
<1>1. /\ pc \in [Process -> CliSteps \cup DaemonSteps] /\ mem \in [Process -> Config]
  BY DEF TypeOK
<1>2. ASSUME UNCHANGED <<config, promised>>,
             \/ pc'[Daemon] \in {"off", "load"}
             \/ pc'[Daemon] = pc[Daemon] /\ mem'[Daemon] = mem[Daemon]
      PROVE  Applied'
  BY <1>2 DEF Applied
<1>3. ASSUME NEW w \in Cli, CliStep(w) PROVE Applied'
  <2>1. CASE StartLink(w) \/ StartSetup(w)
    BY <1>1, <1>2, <2>1, ProcessFacts DEF StartLink, StartSetup, StartCommand, files
  <2>2. ASSUME NEW conf, Edited(w, conf) PROVE Applied'
    BY <1>1, <1>2, <2>2, ProcessFacts DEF Edited, files
  <2>3. CASE Quit(w) \/ ReloadFails(w) \/ SetupInstalls(w)
    BY <1>1, <1>2, <2>3, ProcessFacts DEF Quit, ReloadFails, SetupInstalls, files, history
  <2>4. CASE Reload(w)
    <3>1. pc'[Daemon] = "load" /\ config' = config
      BY <1>1, <2>4, ProcessFacts DEF Reload
    <3>2. promised' # Absent => ~raced[w] /\ promised' = mem[w]
      BY <2>4 DEF Reload
    <3>3. ~raced[w] => config = mem[w]
      BY <2>4 DEF Reload, AloneInv, Alone
    <3>4. QED
      BY <3>1, <3>2, <3>3 DEF Applied
  <2>5. QED
    BY <1>3, <2>1, <2>2, <2>3, <2>4 DEF CliStep, Add, Remove, Change, Locate
<1>4. CASE Boot \/ LoadFails
  BY <1>1, <1>2, <1>4, ProcessFacts DEF Boot, LoadFails, files, history
<1>5. CASE Load
  BY <1>1, <1>5, ProcessFacts DEF Load, files, history, Applied
<1>6. ASSUME NEW l \in Label, Relabel(l) PROVE Applied'
  <2>1. /\ pc[Daemon] = "up" /\ mem' = [mem EXCEPT ![Daemon].label = l]
        /\ config' = config /\ promised' = promised
    BY <1>6 DEF Relabel, files, history
  <2>2. mem'[Daemon].clients = mem[Daemon].clients /\ mem'[Daemon].rest = mem[Daemon].rest
    BY <1>1, <2>1, ProcessFacts DEF Config
  <2>3. QED
    BY <2>1, <2>2 DEF Applied
<1>7. ASSUME NEW p \in Process, SaveStep(p) PROVE Applied'
  BY <1>7 DEF SaveStep, Open, Write, WriteFails, Rename, Disturb, Applied
<1>8. ASSUME NEW p \in Process, Kill(p) PROVE Applied'
  <2>1. pc'[Daemon] = "off" \/ pc'[Daemon] = pc[Daemon]
    BY <1>1, <1>8, ProcessFacts DEF Kill
  <2>2. QED
    BY <1>2, <1>8, <2>1 DEF Kill, history
<1>9. CASE UNCHANGED vars
  BY <1>2, <1>9 DEF vars
<1>10. QED
  BY <1>3, <1>4, <1>5, <1>6, <1>7, <1>8, <1>9 DEF Next

(* A command that reported the service reloaded, and saw no other process   *)
(* save since it loaded the file, is in force until the next save           *)
(* (saveAndReload, runNode; ConfigStore's Applied).                         *)
THEOREM AlwaysApplied == Spec => []Applied
<1>1. Init => AloneInv /\ Applied
  BY ProcessFacts DEF Init, AloneInv, Applied
<1>2. TypeOK /\ SaveInv => HandleInv
  BY DEF SaveInv
<1>3. QED
  BY <1>1, <1>2, SaveAlways, AloneNext, AppliedNext, PTL DEF Spec
============================================================================
