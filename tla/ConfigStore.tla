---------------------------- MODULE ConfigStore ----------------------------
(***************************************************************************)
(* config.json and the processes that load and save it: operator commands  *)
(* (internal/commands link.go, setup.go, debug.go) and the node daemon,    *)
(* which saves its own in-memory copy when its location label changes      *)
(* (node.go refreshLocation).  Nothing locks the file: config.Save writes  *)
(* the fixed name config.json.tmp and renames it, and os.WriteFile is an   *)
(* open that truncates, then a write.                                      *)
(*                                                                         *)
(* A file descriptor follows its file through a rename: `handle` says      *)
(* where the file a process has open is now.                               *)
(***************************************************************************)
EXTENDS Integers, FiniteSets

CONSTANTS
  Client,      \* UUIDs
  Label,       \* location labels detectLocation can return
  NoLabel,     \* the empty label
  Rest,        \* all an operator can change besides: policies, caps, ports...
  DefaultRest, \* config.Default's
  Cli,         \* operator sessions
  Daemon,      \* the node daemon
  Absent, Empty, Garbage, \* a file that is missing, truncated, half overwritten
  MaxCommands, \* bound: commands started over the whole history
  MaxRelabels  \* bound: label changes the daemon detects over the whole history

ASSUME DaemonAssumption == Daemon \notin Cli
ASSUME LabelAssumption == NoLabel \notin Label /\ DefaultRest \in Rest
ASSUME BoundAssumption == MaxCommands \in Nat /\ MaxRelabels \in Nat

Process == Cli \cup {Daemon}

(* config.AppConfig, and the text a file of it can hold. *)
Config == [clients : SUBSET Client, rest : Rest, label : Label \cup {NoLabel}]
Text == Config \cup {Absent, Empty, Garbage}

ASSUME TextAssumption == {Absent, Empty, Garbage} \cap Config = {}

VARIABLES
  config,    \* config.json
  tmp,       \* config.json.tmp
  handle,    \* where the file each process has open for writing is
  pc,        \* what each process is doing
  mem,       \* the AppConfig each process holds
  setup,     \* which operator sessions are running setup
  commands,  \* commands started
  relabels,  \* label changes detected
  \* history, read by the properties only
  issued,    \* UUIDs ever given to a client
  removed,   \* per session: the clients its `link remove` took out
  revoked,   \* clients a `link remove` reported as gone, the service reloaded
  overlapped,\* a save was begun while another was between its open and rename
  raced,     \* per session: another process saved since it loaded the file
  promised   \* what an undisturbed command said it has put in force, or Absent

files == <<config, tmp, handle>>
history == <<issued, removed, revoked, overlapped, raced, promised>>
vars == <<config, tmp, handle, pc, mem, setup, commands, relabels,
          issued, removed, revoked, overlapped, raced, promised>>

Saving == {"open", "write", "rename"}
CliSteps == {"off", "edit", "reload"} \cup Saving
DaemonSteps == {"off", "load", "up"} \cup Saving

TypeOK ==
  /\ config \in Text /\ tmp \in Text
  /\ handle \in [Process -> {"none", "tmp", "config", "gone"}]
  /\ pc \in [Process -> CliSteps \cup DaemonSteps]
  /\ \A w \in Cli : pc[w] \in CliSteps
  /\ pc[Daemon] \in DaemonSteps
  /\ mem \in [Process -> Config]
  /\ setup \in [Cli -> BOOLEAN]
  /\ commands \in Nat /\ relabels \in Nat
  /\ issued \in SUBSET Client /\ revoked \in SUBSET Client
  /\ removed \in [Cli -> SUBSET Client]
  /\ overlapped \in BOOLEAN /\ raced \in [Cli -> BOOLEAN]
  /\ promised \in Config \cup {Absent}

DefaultConfig == [clients |-> {}, rest |-> DefaultRest, label |-> NoLabel]

(* A node that was set up, its daemon not yet started. *)
Init ==
  /\ \E S \in SUBSET Client, r \in Rest :
       /\ S # {}
       /\ config = [clients |-> S, rest |-> r, label |-> NoLabel]
       /\ issued = S
  /\ tmp = Absent
  /\ handle = [p \in Process |-> "none"]
  /\ pc = [p \in Process |-> "off"]
  /\ mem = [p \in Process |-> DefaultConfig]
  /\ setup = [w \in Cli |-> FALSE]
  /\ commands = 0 /\ relabels = 0
  /\ removed = [w \in Cli |-> {}] /\ revoked = {}
  /\ overlapped = FALSE /\ raced = [w \in Cli |-> FALSE]
  /\ promised = Absent

---------------------------------------------------------------------------
(* config.Save by process p: WriteFile's open and write, then Rename.      *)

MidSave(p) == pc[p] \in {"write", "rename"}

(* Where p goes when Save returned. *)
AfterSaveAlwaysReloads(p, ok) ==
  IF p # Daemon /\ setup[p] THEN "edit" ELSE IF ok THEN "reload" ELSE "off"

AfterSave(p, ok) ==
  IF p = Daemon THEN "up"
  ELSE IF setup[p] THEN "edit"
  ELSE IF ok THEN "reload" ELSE "off"

(* p touches the files: every other session under way is raced. *)
Disturb(p) ==
  /\ raced' = [w \in Cli |-> raced[w] \/ (w # p /\ pc[w] # "off")]
  /\ promised' = Absent

OpenKeepsText(p) ==
  /\ pc[p] = "open"
  /\ tmp' = IF tmp = Absent THEN Empty ELSE tmp
  /\ handle' = [handle EXCEPT ![p] = "tmp"]
  /\ pc' = [pc EXCEPT ![p] = "write"]
  /\ overlapped' = (overlapped \/ \E q \in Process \ {p} : MidSave(q))
  /\ Disturb(p)
  /\ UNCHANGED <<config, mem, setup, commands, relabels, issued, removed, revoked>>

Open(p) ==
  /\ pc[p] = "open"
  /\ tmp' = Empty
  /\ handle' = [handle EXCEPT ![p] = "tmp"]
  /\ pc' = [pc EXCEPT ![p] = "write"]
  /\ overlapped' = (overlapped \/ \E q \in Process \ {p} : MidSave(q))
  /\ Disturb(p)
  /\ UNCHANGED <<config, mem, setup, commands, relabels, issued, removed, revoked>>

(* The bytes go over whatever another writer put into the same file; what  *)
(* was longer shows behind them.                                           *)
Over(old, new) == IF old \in {Empty, new} THEN {new} ELSE {new, Garbage}

PutText(p, t) ==
  /\ config' = IF handle[p] = "config" THEN t ELSE config
  /\ tmp' = IF handle[p] = "tmp" THEN t ELSE tmp
  /\ handle' = [handle EXCEPT ![p] = "none"]

OldText(p) ==
  CASE handle[p] = "config" -> config [] handle[p] = "tmp" -> tmp [] OTHER -> Empty

Write(p) ==
  /\ pc[p] = "write"
  /\ \E t \in Over(OldText(p), mem[p]) : PutText(p, t)
  /\ pc' = [pc EXCEPT ![p] = "rename"]
  /\ Disturb(p)
  /\ UNCHANGED <<mem, setup, commands, relabels, issued, removed, revoked, overlapped>>

(* The disk is full: part of the bytes are there, and Save returns. *)
WriteFails(p) ==
  /\ pc[p] = "write"
  /\ PutText(p, Garbage)
  /\ pc' = [pc EXCEPT ![p] = AfterSave(p, FALSE)]
  /\ Disturb(p)
  /\ UNCHANGED <<mem, setup, commands, relabels, issued, removed, revoked, overlapped>>

(* Rename, which fails when another process has renamed the file away. *)
Rename(p) ==
  /\ pc[p] = "rename"
  /\ IF tmp = Absent THEN UNCHANGED files
     ELSE /\ config' = tmp /\ tmp' = Absent
          /\ handle' = [q \in Process |->
               CASE handle[q] = "tmp" -> "config"
                 [] handle[q] = "config" -> "gone"
                 [] OTHER -> handle[q]]
  /\ pc' = [pc EXCEPT ![p] = AfterSave(p, tmp # Absent)]
  /\ Disturb(p)
  /\ UNCHANGED <<mem, setup, commands, relabels, issued, removed, revoked, overlapped>>

SaveStep(p) == Open(p) \/ Write(p) \/ WriteFails(p) \/ Rename(p)

---------------------------------------------------------------------------
(* Operator commands.                                                      *)

Readable == config \in Config

StartCommand(w, asSetup) ==
  /\ pc[w] = "off" /\ commands < MaxCommands
  /\ commands' = commands + 1
  /\ setup' = [setup EXCEPT ![w] = asSetup]
  /\ removed' = [removed EXCEPT ![w] = {}]
  /\ raced' = [raced EXCEPT ![w] = \E q \in Process \ {w} : MidSave(q)]
  /\ UNCHANGED <<files, relabels, issued, revoked, overlapped, promised>>

(* link add | edit | remove and debug: config.Load, an error ends them. *)
StartLink(w) ==
  /\ Readable
  /\ StartCommand(w, FALSE)
  /\ mem' = [mem EXCEPT ![w] = config]
  /\ pc' = [pc EXCEPT ![w] = "edit"]

(* setup: an unreadable file gives Default, and is saved over at once. *)
StartSetup(w) ==
  /\ StartCommand(w, TRUE)
  /\ mem' = [mem EXCEPT ![w] = IF Readable THEN config ELSE DefaultConfig]
  /\ pc' = [pc EXCEPT ![w] = "open"]

Edited(w, c) ==
  /\ pc[w] = "edit"
  /\ mem' = [mem EXCEPT ![w] = c]
  /\ pc' = [pc EXCEPT ![w] = "open"]
  /\ UNCHANGED <<files, setup, commands, relabels, revoked, overlapped, raced, promised>>

(* link add, and setup's first client: a fresh UUID. *)
Add(w, u) ==
  /\ u \notin issued
  /\ setup[w] => mem[w].clients = {}
  /\ Edited(w, [mem[w] EXCEPT !.clients = @ \cup {u}])
  /\ issued' = issued \cup {u}
  /\ UNCHANGED removed

(* link remove: the UUID, or every client of that name. *)
Remove(w, S) ==
  /\ ~setup[w] /\ S # {} /\ S \subseteq mem[w].clients
  /\ Edited(w, [mem[w] EXCEPT !.clients = @ \ S])
  /\ removed' = [removed EXCEPT ![w] = S]
  /\ UNCHANGED issued

(* link edit, debug, and each answer of setup. *)
Change(w, r) ==
  /\ Edited(w, [mem[w] EXCEPT !.rest = r])
  /\ UNCHANGED <<issued, removed>>

(* setup's network check found the country. *)
Locate(w, l) ==
  /\ setup[w] /\ l # mem[w].label
  /\ Edited(w, [mem[w] EXCEPT !.label = l])
  /\ UNCHANGED <<issued, removed>>

(* link edit or add: q; and an operator who leaves setup half way. *)
Quit(w) ==
  /\ pc[w] = "edit"
  /\ pc' = [pc EXCEPT ![w] = "off"]
  /\ UNCHANGED <<files, mem, setup, commands, relabels, history>>

(* The end of setup: service install starts a daemon where none is         *)
(* installed, and otherwise fails without touching the one that runs.      *)
SetupInstalls(w) ==
  /\ pc[w] = "edit" /\ setup[w] /\ pc[Daemon] = "off"
  /\ pc' = [pc EXCEPT ![w] = "off", ![Daemon] = "load"]
  /\ UNCHANGED <<files, mem, setup, commands, relabels, history>>

(* saveAndReload after the save: writeXrayConfig and restartService, which *)
(* stops the daemon where it is and starts it again.                       *)
ReloadLeavesDaemon(w) ==
  /\ pc[w] = "reload"
  /\ pc' = [pc EXCEPT ![w] = "off"]
  /\ revoked' = revoked \cup removed[w]
  /\ promised' = IF raced[w] THEN Absent ELSE mem[w]
  /\ UNCHANGED <<files, mem, setup, commands, relabels, issued, removed, overlapped, raced>>

Reload(w) ==
  /\ pc[w] = "reload"
  /\ pc' = [pc EXCEPT ![w] = "off", ![Daemon] = "load"]
  /\ handle' = [handle EXCEPT ![Daemon] = "none"]
  /\ revoked' = revoked \cup removed[w]
  /\ promised' = IF raced[w] THEN Absent ELSE mem[w]
  /\ UNCHANGED <<config, tmp, mem, setup, commands, relabels, issued, removed, overlapped, raced>>

(* One of the two failed, or the restart is switched off. *)
ReloadFails(w) ==
  /\ pc[w] = "reload"
  /\ pc' = [pc EXCEPT ![w] = "off"]
  /\ UNCHANGED <<files, mem, setup, commands, relabels, history>>

CliStep(w) ==
  \/ StartLink(w) \/ StartSetup(w)
  \/ \E u \in Client : Add(w, u)
  \/ \E S \in SUBSET Client : Remove(w, S)
  \/ \E r \in Rest : Change(w, r)
  \/ \E l \in Label : Locate(w, l)
  \/ Quit(w) \/ SetupInstalls(w) \/ Reload(w) \/ ReloadFails(w)

---------------------------------------------------------------------------
(* The daemon.                                                             *)

(* The system starts the service at boot, or again after it died. *)
Boot ==
  /\ pc[Daemon] = "off"
  /\ pc' = [pc EXCEPT ![Daemon] = "load"]
  /\ UNCHANGED <<files, mem, setup, commands, relabels, history>>

(* runNode: config.Load; xray serves exactly these clients from now on. *)
Load ==
  /\ pc[Daemon] = "load" /\ Readable
  /\ mem' = [mem EXCEPT ![Daemon] = config]
  /\ pc' = [pc EXCEPT ![Daemon] = "up"]
  /\ UNCHANGED <<files, setup, commands, relabels, history>>

LoadFails ==
  /\ pc[Daemon] = "load" /\ ~Readable
  /\ pc' = [pc EXCEPT ![Daemon] = "off"]
  /\ UNCHANGED <<files, mem, setup, commands, relabels, history>>

(* refreshLocation saw another country: the whole configuration is saved. *)
Relabel(l) ==
  /\ pc[Daemon] = "up" /\ relabels < MaxRelabels
  /\ l # mem[Daemon].label
  /\ mem' = [mem EXCEPT ![Daemon].label = l]
  /\ relabels' = relabels + 1
  /\ pc' = [pc EXCEPT ![Daemon] = "open"]
  /\ UNCHANGED <<files, setup, commands, history>>

(* A process is killed, or Ctrl-C ends it, at any point. *)
Kill(p) ==
  /\ pc[p] # "off"
  /\ pc' = [pc EXCEPT ![p] = "off"]
  /\ handle' = [handle EXCEPT ![p] = "none"]
  /\ UNCHANGED <<config, tmp, mem, setup, commands, relabels, history>>

Next ==
  \/ \E w \in Cli : CliStep(w)
  \/ Boot \/ Load \/ LoadFails
  \/ \E l \in Label : Relabel(l)
  \/ \E p \in Process : SaveStep(p) \/ Kill(p)

Spec == Init /\ [][Next]_vars

---------------------------------------------------------------------------
(* Properties.                                                             *)

(* As long as no two saves overlap, config.json is replaced only as a       *)
(* whole, by what the saving process meant, whatever is killed or fails     *)
(* half way and whatever it leaves in config.json.tmp (config.Save).        *)
ReplacedWhole ==
  [][config' # config =>
       overlapped \/ \E p \in Process : pc[p] = "rename" /\ config' = mem[p]]_vars

(* A command that reported the service reloaded, and saw no other process   *)
(* save since it loaded the file, is in force: its configuration is the one *)
(* on disk and, but for the label, the one the daemon serves, until the     *)
(* next save (saveAndReload, runNode).                                      *)
Applied ==
  promised # Absent =>
    /\ config = promised
    /\ pc[Daemon] \notin {"off", "load"} =>
         /\ mem[Daemon].clients = promised.clients
         /\ mem[Daemon].rest = promised.rest

(* config.go:457, "Save writes the config atomically": a process that loads *)
(* config.json never meets half a file.                                     *)
ConfigReadable == Readable

(* link.go:78, "removed %d client(s); the service was reloaded", and README *)
(* section 7, "Revoke a friend": a client so removed is not served again.   *)
RevokedStaysOut ==
  pc[Daemon] \notin {"off", "load"} => mem[Daemon].clients \cap revoked = {}
===========================================================================
