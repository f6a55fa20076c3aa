--------------------------- MODULE TrafficTally ---------------------------
(***************************************************************************)
(* How the node daemon meters traffic (internal/commands/node.go runNode,  *)
(* internal/traffic, internal/nodestats, internal/xrayrt/xray.go).         *)
(*                                                                         *)
(* xray keeps cumulative byte counters, one per user and direction and one *)
(* per inbound and direction; they live in the daemon's process and die    *)
(* with it.  Every tick the daemon reads them, turns them into deltas      *)
(* against the previous reading, adds the deltas to its in-memory          *)
(* nodestats.Snapshot `st` and saves that to stats.json (`disk`).  A save  *)
(* may fail, the process may be killed at any step, and the next process   *)
(* starts from what stats.json says.                                       *)
(*                                                                         *)
(* A Go map is a total function here: a missing key reads as the zero      *)
(* value, which is how prev[uuid], PerClient[uuid] and the entries Stats   *)
(* omits behave.                                                           *)
(***************************************************************************)
EXTENDS Integers, FiniteSets

CONSTANTS
  Client,      \* configured UUIDs (SetActiveUUIDs)
  Inbound,     \* inbound tags (SetInboundTags), one label each
  MaxBytes,    \* bound: units of traffic carried over the whole history
  MaxRuns,     \* bound: daemon processes started over the whole history
  LoadMayFail, \* TRUE: stats.json may exist and be unreadable at a start
  SaveMayFail, \* TRUE: a write or the rename of stats.json may fail
  AsService    \* TRUE: run by the OS service, FALSE: foreground `start`

ASSUME FiniteAssumption == IsFiniteSet(Client) /\ IsFiniteSet(Inbound)
ASSUME BoundAssumption == MaxBytes \in Nat /\ MaxRuns \in Nat
ASSUME FlagAssumption ==
  LoadMayFail \in BOOLEAN /\ SaveMayFail \in BOOLEAN /\ AsService \in BOOLEAN

VARIABLES
  pc,          \* where runNode is: "off", or the step of its loop
  cancelled,   \* ctx is done (Ctrl-C, or the service's Stop)
  user,        \* xray's per-user counters
  inb,         \* xray's per-inbound counters
  lastSnap,    \* runNode's lastSnap
  lastInbound, \* runNode's lastInbound
  deltas,      \* the deltas of the tick being tallied
  todo,        \* clients `range deltas` has not visited yet
  st,          \* the in-memory nodestats.Snapshot
  disk,        \* stats.json (the zero Snapshot while it does not exist)
  runs,        \* processes started so far
  \* history, read by the properties only
  carried,     \* bytes xray ever carried for each user
  carriedIn,   \* bytes xray ever carried over each inbound
  base,        \* what st was when this process loaded it
  forgot       \* st was started from zero and has not replaced stats.json yet

xray == <<user, inb>>
loop == <<lastSnap, lastInbound, deltas, todo>>
history == <<carried, carriedIn, base, forgot>>
vars == <<pc, cancelled, user, inb, lastSnap, lastInbound, deltas, todo,
          st, disk, runs, carried, carriedIn, base, forgot>>

Dir == {"up", "down"}
Bytes == [Dir -> Nat]
Zero == [d \in Dir |-> 0]
ZeroOf(S) == [k \in S |-> Zero]

(* One counter per user (or inbound) and direction. *)
Counters(S) == [S -> Bytes]

Snapshot == [total : Bytes, perClient : Counters(Client),
             perInbound : Counters(Inbound), running : BOOLEAN]

ZeroSnapshot == [total |-> Zero, perClient |-> ZeroOf(Client),
                 perInbound |-> ZeroOf(Inbound), running |-> FALSE]

Steps == {"off", "load", "idle", "tally", "inbounds", "save", "return"}

TypeOK ==
  /\ pc \in Steps
  /\ cancelled \in BOOLEAN
  /\ user \in Counters(Client) /\ lastSnap \in Counters(Client)
  /\ inb \in Counters(Inbound) /\ lastInbound \in Counters(Inbound)
  /\ deltas \in Counters(Client)
  /\ todo \in SUBSET Client
  /\ st \in Snapshot /\ disk \in Snapshot /\ base \in Snapshot
  /\ runs \in Nat
  /\ carried \in Counters(Client) /\ carriedIn \in Counters(Inbound)
  /\ forgot \in BOOLEAN

Init ==
  /\ pc = "off" /\ cancelled = FALSE
  /\ user = ZeroOf(Client) /\ lastSnap = ZeroOf(Client)
  /\ inb = ZeroOf(Inbound) /\ lastInbound = ZeroOf(Inbound)
  /\ deltas = ZeroOf(Client) /\ todo = {}
  /\ st = ZeroSnapshot /\ disk = ZeroSnapshot /\ base = ZeroSnapshot
  /\ runs = 0
  /\ carried = ZeroOf(Client) /\ carriedIn = ZeroOf(Inbound)
  /\ forgot = FALSE

---------------------------------------------------------------------------
(* The arithmetic of package traffic.                                      *)

Add(a, b) == [d \in Dir |-> a[d] + b[d]]

(* A counter below its previous reading was reset, and counts from zero. *)
DeltaOneNoBaseline(prev, cur) == cur
DeltaOneSwapped(prev, cur) == prev - cur
DeltaOne(prev, cur) == IF cur < prev THEN cur ELSE cur - prev

ComputeDeltas(prev, cur) ==
  [k \in DOMAIN cur |-> [d \in Dir |-> DeltaOne(prev[k][d], cur[k][d])]]

---------------------------------------------------------------------------
(* xray carrying traffic: its counters, and the truth they stand for.      *)

Units(c) == c["up"] + c["down"]
CarriedUnits ==
  LET total[S \in SUBSET (Client \cup Inbound)] ==
        IF S = {} THEN 0
        ELSE LET k == CHOOSE x \in S : TRUE
             IN  total[S \ {k}] + (IF k \in Client THEN Units(carried[k])
                                   ELSE Units(carriedIn[k]))
  IN  total[Client \cup Inbound]

Serving == pc # "off"

CarryUser(c, d) ==
  /\ Serving /\ CarriedUnits < MaxBytes
  /\ user' = [user EXCEPT ![c][d] = @ + 1]
  /\ carried' = [carried EXCEPT ![c][d] = @ + 1]
  /\ UNCHANGED <<pc, cancelled, inb, loop, st, disk, runs, carriedIn, base, forgot>>

CarryInbound(i, d) ==
  /\ Serving /\ CarriedUnits < MaxBytes
  /\ inb' = [inb EXCEPT ![i][d] = @ + 1]
  /\ carriedIn' = [carriedIn EXCEPT ![i][d] = @ + 1]
  /\ UNCHANGED <<pc, cancelled, user, loop, st, disk, runs, carried, base, forgot>>

---------------------------------------------------------------------------
(* The daemon.                                                             *)

(* nodestats.Save: a temp file and a rename, so the old file or the new.   *)
(* runNode ignores the error.                                              *)
Save(s) ==
  \/ disk' = s /\ forgot' = FALSE
  \/ SaveMayFail /\ UNCHANGED <<disk, forgot>>

(* rt.Start: a fresh xray instance, its counters at zero. *)
StartXray ==
  /\ pc = "off" /\ runs < MaxRuns
  /\ pc' = "load" /\ runs' = runs + 1 /\ cancelled' = FALSE
  /\ user' = ZeroOf(Client) /\ inb' = ZeroOf(Inbound)
  /\ lastSnap' = ZeroOf(Client) /\ lastInbound' = ZeroOf(Inbound)
  /\ deltas' = ZeroOf(Client) /\ todo' = {}
  /\ UNCHANGED <<st, disk, history>>

(* st, _ := nodestats.Load; mark it running; save it.  An unreadable file  *)
(* gives the zero Snapshot, and the error is ignored.                      *)
LoadStats(readable) ==
  /\ pc = "load" /\ pc' = "idle"
  /\ readable \/ LoadMayFail
  /\ st' = [(IF readable THEN disk ELSE ZeroSnapshot) EXCEPT !.running = TRUE]
  /\ base' = st'
  /\ \/ disk' = st' /\ forgot' = FALSE
     \/ SaveMayFail /\ disk' = disk /\ forgot' = ~readable
  /\ UNCHANGED <<cancelled, xray, loop, runs, carried, carriedIn>>

(* rt.Stats, ComputeDeltas, lastSnap = cur. *)
TickStatsKeepsBaseline ==
  /\ pc = "idle" /\ pc' = "tally"
  /\ deltas' = ComputeDeltas(lastSnap, user)
  /\ todo' = Client
  /\ UNCHANGED <<cancelled, xray, lastSnap, lastInbound, st, disk, runs, history>>

TickStats ==
  /\ pc = "idle" /\ pc' = "tally"
  /\ deltas' = ComputeDeltas(lastSnap, user)
  /\ lastSnap' = user
  /\ todo' = Client
  /\ UNCHANGED <<cancelled, xray, lastInbound, st, disk, runs, history>>

(* One turn of `for uuid, d := range deltas`; the map's order is free. *)
TallyClientTotalOnly(c) ==
  /\ pc = "tally" /\ c \in todo
  /\ st' = [st EXCEPT !.total = Add(@, deltas[c])]
  /\ todo' = todo \ {c}
  /\ UNCHANGED <<pc, cancelled, xray, lastSnap, lastInbound, deltas, disk, runs, history>>

TallyClient(c) ==
  /\ pc = "tally" /\ c \in todo
  /\ st' = [st EXCEPT !.total = Add(@, deltas[c]),
                      !.perClient[c] = Add(@, deltas[c])]
  /\ todo' = todo \ {c}
  /\ UNCHANGED <<pc, cancelled, xray, lastSnap, lastInbound, deltas, disk, runs, history>>

TallyDone ==
  /\ pc = "tally" /\ todo = {} /\ pc' = "inbounds"
  /\ UNCHANGED <<cancelled, xray, loop, st, disk, runs, history>>

(* rt.InboundStats and the per-inbound totals. *)
TickInboundsKeepsBaseline ==
  LET ds == ComputeDeltas(lastInbound, inb)
  IN  /\ pc = "inbounds" /\ pc' = "save"
      /\ st' = [st EXCEPT !.perInbound = [i \in Inbound |-> Add(@[i], ds[i])]]
      /\ UNCHANGED <<cancelled, xray, loop, disk, runs, history>>

TickInbounds ==
  LET ds == ComputeDeltas(lastInbound, inb)
  IN  /\ pc = "inbounds" /\ pc' = "save"
      /\ st' = [st EXCEPT !.perInbound = [i \in Inbound |-> Add(@[i], ds[i])]]
      /\ lastInbound' = inb
      /\ UNCHANGED <<cancelled, xray, lastSnap, deltas, todo, disk, runs, history>>

TickSaveNever ==
  /\ pc = "save" /\ pc' = "idle"
  /\ UNCHANGED <<cancelled, xray, loop, st, disk, runs, history>>

TickSave ==
  /\ pc = "save" /\ pc' = "idle"
  /\ Save(st)
  /\ UNCHANGED <<cancelled, xray, loop, st, runs, carried, carriedIn, base>>

(* Ctrl-C in the foreground, program.Stop in the service: cancel() only. *)
Cancel ==
  /\ pc # "off" /\ ~cancelled /\ cancelled' = TRUE
  /\ UNCHANGED <<pc, xray, loop, st, disk, runs, history>>

(* case <-ctx.Done(): the counters are not read again. *)
Shutdown ==
  /\ pc = "idle" /\ cancelled /\ pc' = "return"
  /\ st' = [st EXCEPT !.running = FALSE]
  /\ Save(st')
  /\ UNCHANGED <<cancelled, xray, loop, runs, carried, carriedIn, base>>

(* The process is gone, and xray's counters with it. *)
Gone ==
  /\ pc' = "off"
  /\ user' = ZeroOf(Client) /\ inb' = ZeroOf(Inbound)
  /\ UNCHANGED <<cancelled, loop, st, disk, runs, history>>

(* runNode returned, and main with it. *)
Exit == pc = "return" /\ Gone

(* program.Stop returns as soon as it has cancelled ctx, and the service   *)
(* process exits without waiting for the goroutine that runs runNode.      *)
ServiceExit == AsService /\ cancelled /\ pc # "off" /\ Gone

Kill == pc # "off" /\ Gone

Daemon ==
  \/ StartXray \/ (\E readable \in BOOLEAN : LoadStats(readable))
  \/ TickStats \/ (\E c \in Client : TallyClient(c)) \/ TallyDone
  \/ TickInbounds \/ TickSave
  \/ Cancel \/ Shutdown \/ Exit \/ ServiceExit \/ Kill

Next ==
  \/ \E c \in Client, d \in Dir : CarryUser(c, d)
  \/ \E i \in Inbound, d \in Dir : CarryInbound(i, d)
  \/ Daemon

Spec == Init /\ [][Next]_vars

(* The ticker keeps firing and the loop's statements keep being executed     *)
(* while the process lives; a disk that rejects a save does not reject every *)
(* later one.                                                                *)
Fairness ==
  /\ WF_vars(\E readable \in BOOLEAN : LoadStats(readable))
  /\ WF_vars(TickStats) /\ WF_vars(TallyDone) /\ WF_vars(TickInbounds)
  /\ \A c \in Client : WF_vars(TallyClient(c))
  /\ WF_vars(TickSave) /\ SF_vars(TickSave /\ disk' = st)

FairSpec == Spec /\ Fairness

---------------------------------------------------------------------------
(* Properties.                                                             *)

Looping == pc \notin {"off", "load"}
Pending(c, d) == IF c \in todo THEN deltas[c][d] ELSE 0

(* Within one process every byte xray's counters showed at a tick is in the *)
(* in-memory snapshot exactly once, on top of what was loaded: runNode's    *)
(* lastSnap and lastInbound are the baselines of what has been tallied.     *)
SessionExact ==
  Looping =>
    /\ \A c \in Client, d \in Dir :
         st.perClient[c][d] + Pending(c, d) = base.perClient[c][d] + lastSnap[c][d]
    /\ \A i \in Inbound, d \in Dir :
         st.perInbound[i][d] = base.perInbound[i][d] + lastInbound[i][d]

(* Why the ledgers below hold, as an inductive invariant: what was loaded   *)
(* plus what this process's xray counted was carried; a baseline never runs *)
(* ahead of its counter; and st is at least what it will replace on disk.   *)
CountedWasCarried ==
  /\ \A c \in Client, d \in Dir :
       /\ disk.perClient[c][d] <= carried[c][d]
       /\ pc = "load" => disk.perClient[c][d] + user[c][d] <= carried[c][d]
       /\ Looping => base.perClient[c][d] + user[c][d] <= carried[c][d]
  /\ \A i \in Inbound, d \in Dir :
       /\ disk.perInbound[i][d] <= carriedIn[i][d]
       /\ pc = "load" => disk.perInbound[i][d] + inb[i][d] <= carriedIn[i][d]
       /\ Looping => base.perInbound[i][d] + inb[i][d] <= carriedIn[i][d]

BaselinesBehind ==
  /\ pc = "off" => user = ZeroOf(Client) /\ inb = ZeroOf(Inbound)
  /\ pc = "load" => lastSnap = ZeroOf(Client) /\ lastInbound = ZeroOf(Inbound)
  /\ pc \in Steps \ {"off", "tally"} => todo = {}
  /\ pc # "off" => /\ \A c \in Client, d \in Dir : lastSnap[c][d] <= user[c][d]
                   /\ \A i \in Inbound, d \in Dir : lastInbound[i][d] <= inb[i][d]

DiskBehind ==
  Looping /\ ~forgot =>
    /\ \A c \in Client, d \in Dir : disk.perClient[c][d] <= st.perClient[c][d]
    /\ \A i \in Inbound, d \in Dir : disk.perInbound[i][d] <= st.perInbound[i][d]

LedgerInv == SessionExact /\ CountedWasCarried /\ BaselinesBehind /\ DiskBehind

(* What `stats` prints adds up: the lifetime totals in stats.json are the   *)
(* sum of its per-client entries, whatever was killed or failed to save     *)
(* (node.go, the loop over the deltas).                                     *)
SumOverClients(f, d) ==
  LET sum[S \in SUBSET Client] ==
        IF S = {} THEN 0
        ELSE LET c == CHOOSE x \in S : TRUE IN f[c][d] + sum[S \ {c}]
  IN  sum[Client]

TotalsAgree ==
  \A d \in Dir : disk.total[d] = SumOverClients(disk.perClient, d)

(* What stats.json says of users, and of inbounds, is a ledger of what xray *)
(* carried, and never goes back except when a snapshot started from zero,   *)
(* because the file could not be read, replaces it (nodestats.go:32,        *)
(* "Lifetime totals that persist across restarts").                         *)
UserLedger == INSTANCE Ledger WITH Key <- Client, recorded <- disk.perClient
UserLedgerSpec == UserLedger!Spec

InboundLedger == INSTANCE Ledger
  WITH Key <- Inbound, carried <- carriedIn, recorded <- disk.perInbound
InboundLedgerSpec == InboundLedger!Spec

(* Once the daemon stays up and traffic has ceased, stats.json ends up with *)
(* everything carried since the file was loaded: failed saves are made good *)
(* by later ones, because st keeps what they missed.                        *)
EverythingSaved ==
  \A c \in Client, d \in Dir :
    disk.perClient[c][d] = base.perClient[c][d] + user[c][d]
Settles == <>[](pc # "off" /\ ~cancelled) => <>[]EverythingSaved
===========================================================================
