------------------------ MODULE TrafficTallyProofs ------------------------
(***************************************************************************)
(* Proofs about TrafficTally: its types, that a process tallies every      *)
(* reading exactly once, that stats.json implements the ledger of module   *)
(* Ledger and that its totals are the sums of its entries, for every set   *)
(* of users and inbounds and every bound.                                  *)
(***************************************************************************)
EXTENDS TrafficTally, FiniteSetTheorems, TLAPS

(* Adding counters gives counters, and a delta is a natural number. *)
LEMMA AddType == \A a, b \in Bytes : Add(a, b) \in Bytes
  BY DEF Add, Bytes

LEMMA DeltaType == \A p, q \in Nat : DeltaOne(p, q) \in Nat
  BY DEF DeltaOne

LEMMA ComputeDeltasType ==
  ASSUME NEW S, NEW prev \in Counters(S), NEW cur \in Counters(S)
  PROVE  ComputeDeltas(prev, cur) \in Counters(S)
<1>1. DOMAIN cur = S
  BY DEF Counters
<1>2. ASSUME NEW k \in S, NEW d \in Dir
      PROVE  DeltaOne(prev[k][d], cur[k][d]) \in Nat
  BY <1>2, DeltaType DEF Counters, Bytes
<1>3. QED
  BY <1>1, <1>2 DEF ComputeDeltas, Counters, Bytes

LEMMA ZeroType ==
  /\ Zero \in Bytes
  /\ ZeroOf(Client) \in Counters(Client)
  /\ ZeroOf(Inbound) \in Counters(Inbound)
  /\ ZeroSnapshot \in Snapshot
  BY DEF Zero, Bytes, ZeroOf, Counters, ZeroSnapshot, Snapshot

(* One more unit on one counter leaves a table of counters a table of counters. *)
LEMMA BumpType ==
  ASSUME NEW S, NEW f \in Counters(S), NEW k \in S, NEW d \in Dir
  PROVE  [f EXCEPT ![k][d] = @ + 1] \in Counters(S)
  BY DEF Counters, Bytes

(* A snapshot keeps its type when its fields change within theirs. *)
LEMMA SnapshotFields ==
  /\ \A s \in Snapshot : /\ s.total \in Bytes
                         /\ s.perClient \in Counters(Client)
                         /\ s.perInbound \in Counters(Inbound)
                         /\ s.running \in BOOLEAN
  /\ \A s \in Snapshot, b \in BOOLEAN : [s EXCEPT !.running = b] \in Snapshot
  /\ \A s \in Snapshot, f \in Counters(Inbound) : [s EXCEPT !.perInbound = f] \in Snapshot
  /\ \A s \in Snapshot, t \in Bytes, f \in Counters(Client) :
       [s EXCEPT !.total = t, !.perClient = f] \in Snapshot
  BY DEF Snapshot

---------------------------------------------------------------------------
(* The variables always have their types (TrafficTally's TypeOK).          *)
THEOREM TypeCorrect == Spec => []TypeOK
<1>1. Init => TypeOK
  <2> SUFFICES ASSUME Init PROVE TypeOK
    OBVIOUS
  <2>1. cancelled \in BOOLEAN /\ forgot \in BOOLEAN
    BY Zenon DEF Init
  <2>2. QED
    BY <2>1, ZeroType DEF Init, TypeOK, Steps
<1>2. TypeOK /\ [Next]_vars => TypeOK'
  <2> SUFFICES ASSUME TypeOK, [Next]_vars PROVE TypeOK'
    OBVIOUS
  <2> USE DEF xray, loop, history
  <2>1. ASSUME NEW c \in Client, NEW d \in Dir, CarryUser(c, d) PROVE TypeOK'
    BY <2>1, BumpType DEF TypeOK, CarryUser
  <2>2. ASSUME NEW i \in Inbound, NEW d \in Dir, CarryInbound(i, d) PROVE TypeOK'
    BY <2>2, BumpType DEF TypeOK, CarryInbound
  <2>3. CASE StartXray
    <3>1. cancelled' \in BOOLEAN
      BY <2>3, Zenon DEF StartXray
    <3>2. QED
      BY <2>3, <3>1, ZeroType DEF TypeOK, StartXray, Steps
  <2>4. ASSUME NEW readable \in BOOLEAN, LoadStats(readable) PROVE TypeOK'
    <3>1. st' \in Snapshot
      BY <2>4, ZeroType, SnapshotFields DEF TypeOK, LoadStats
    <3>2. QED
      BY <2>4, <3>1 DEF TypeOK, LoadStats, Steps
  <2>5. CASE TickStats
    BY <2>5, ComputeDeltasType DEF TypeOK, TickStats, Steps
  <2>6. ASSUME NEW c \in Client, TallyClient(c) PROVE TypeOK'
    <3>1. Add(st.total, deltas[c]) \in Bytes
      BY AddType, SnapshotFields DEF TypeOK, Counters
    <3> DEFINE f == [st.perClient EXCEPT ![c] = Add(st.perClient[c], deltas[c])]
    <3>2. f \in Counters(Client)
      <4>1. st.perClient \in Counters(Client) /\ deltas[c] \in Bytes
        BY SnapshotFields DEF TypeOK, Counters
      <4>2. Add(st.perClient[c], deltas[c]) \in Bytes
        BY <4>1, AddType DEF Counters
      <4>3. QED
        BY <4>1, <4>2 DEF Counters
    <3>3. st' = [st EXCEPT !.total = Add(st.total, deltas[c]), !.perClient = f]
      BY <2>6 DEF TallyClient
    <3>4. st' \in Snapshot
      <4> HIDE DEF f
      <4> QED BY <3>1, <3>2, <3>3, SnapshotFields DEF TypeOK
    <3>5. QED
      BY <2>6, <3>4 DEF TypeOK, TallyClient, Steps
  <2>7. CASE TallyDone
    BY <2>7 DEF TypeOK, TallyDone, Steps
  <2>8. CASE TickInbounds
    <3> DEFINE ds == ComputeDeltas(lastInbound, inb)
               f == [i \in Inbound |-> Add(st.perInbound[i], ds[i])]
    <3>1. ds \in Counters(Inbound)
      BY ComputeDeltasType DEF TypeOK
    <3>2. f \in Counters(Inbound)
      <4>1. st.perInbound \in Counters(Inbound)
        BY SnapshotFields DEF TypeOK
      <4>2. ASSUME NEW i \in Inbound PROVE Add(st.perInbound[i], ds[i]) \in Bytes
        <5> HIDE DEF ds
        <5> QED BY <3>1, <4>1, AddType DEF Counters
      <4>3. QED
        BY <4>2 DEF Counters
    <3>3. st' \in Snapshot
      BY <2>8, <3>2, SnapshotFields DEF TypeOK, TickInbounds
    <3>4. QED
      BY <2>8, <3>3 DEF TypeOK, TickInbounds, Steps
  <2>9. CASE TickSave
    BY <2>9 DEF TypeOK, TickSave, Save, Steps
  <2>10. CASE Cancel
    BY <2>10 DEF TypeOK, Cancel
  <2>11. CASE Shutdown
    <3>1. st' \in Snapshot
      BY <2>11, SnapshotFields DEF TypeOK, Shutdown
    <3>2. QED
      BY <2>11, <3>1 DEF TypeOK, Shutdown, Save, Steps
  <2>12. CASE Exit \/ ServiceExit \/ Kill
    BY <2>12, ZeroType DEF TypeOK, Exit, ServiceExit, Kill, Gone, Steps
  <2>13. CASE UNCHANGED vars
    BY <2>13 DEF TypeOK, vars
  <2>14. QED
    BY <2>1, <2>2, <2>3, <2>4, <2>5, <2>6, <2>7, <2>8, <2>9, <2>10, <2>11,
       <2>12, <2>13 DEF Next, Daemon
<1>3. QED
  BY <1>1, <1>2, PTL DEF Spec

---------------------------------------------------------------------------
(* Every counter, reading, delta and record is a natural number. *)
LEMMA Numbers ==
  ASSUME TypeOK
  PROVE  /\ \A c \in Client, d \in Dir :
              /\ user[c][d] \in Nat /\ lastSnap[c][d] \in Nat /\ deltas[c][d] \in Nat
              /\ st.perClient[c][d] \in Nat /\ disk.perClient[c][d] \in Nat
              /\ base.perClient[c][d] \in Nat /\ carried[c][d] \in Nat
         /\ \A i \in Inbound, d \in Dir :
              /\ inb[i][d] \in Nat /\ lastInbound[i][d] \in Nat
              /\ st.perInbound[i][d] \in Nat /\ disk.perInbound[i][d] \in Nat
              /\ base.perInbound[i][d] \in Nat /\ carriedIn[i][d] \in Nat
<1>1. /\ st.perClient \in Counters(Client) /\ disk.perClient \in Counters(Client)
      /\ base.perClient \in Counters(Client)
      /\ st.perInbound \in Counters(Inbound) /\ disk.perInbound \in Counters(Inbound)
      /\ base.perInbound \in Counters(Inbound)
  BY SnapshotFields DEF TypeOK
<1>2. QED
  BY <1>1 DEF TypeOK, Counters, Bytes

(* The zero tables read zero everywhere. *)
LEMMA ZeroReads ==
  /\ \A c \in Client, d \in Dir : ZeroOf(Client)[c][d] = 0
  /\ \A i \in Inbound, d \in Dir : ZeroOf(Inbound)[i][d] = 0
  /\ \A c \in Client, d \in Dir : ZeroSnapshot.perClient[c][d] = 0
  /\ \A i \in Inbound, d \in Dir : ZeroSnapshot.perInbound[i][d] = 0
  BY DEF ZeroOf, Zero, ZeroSnapshot

(* A delta against a baseline that is not ahead of the counter is the      *)
(* difference (traffic.go deltaOne).                                       *)
LEMMA DeltaBehind ==
  ASSUME NEW S, NEW prev \in Counters(S), NEW cur \in Counters(S),
         NEW k \in S, NEW d \in Dir, prev[k][d] <= cur[k][d]
  PROVE  ComputeDeltas(prev, cur)[k][d] = cur[k][d] - prev[k][d]
<1>1. DOMAIN cur = S /\ prev[k][d] \in Nat /\ cur[k][d] \in Nat
  BY DEF Counters, Bytes
<1>2. ComputeDeltas(prev, cur)[k][d] = DeltaOne(prev[k][d], cur[k][d])
  BY <1>1 DEF ComputeDeltas
<1>3. QED
  BY <1>1, <1>2 DEF DeltaOne

(* Before the first process starts there is nothing to tally. *)
LEMMA LedgerInvInit == Init => LedgerInv
<1> SUFFICES ASSUME Init PROVE LedgerInv
  OBVIOUS
<1>1. pc = "off" /\ todo = {} /\ ~Looping
  BY DEF Init, Looping
<1>2. SessionExact /\ DiskBehind
  BY <1>1 DEF SessionExact, DiskBehind
<1>3. BaselinesBehind
  BY <1>1 DEF Init, BaselinesBehind
<1>4. CountedWasCarried
  BY <1>1, ZeroReads DEF Init, CountedWasCarried
<1>5. QED
  BY <1>2, <1>3, <1>4 DEF LedgerInv

LEMMA LedgerInvStep == TypeOK /\ TypeOK' /\ LedgerInv /\ [Next]_vars => LedgerInv'
<1> SUFFICES ASSUME TypeOK, TypeOK', LedgerInv, [Next]_vars PROVE LedgerInv'
  OBVIOUS
<1> USE DEF xray, loop, history, LedgerInv, Looping
<1>0. Steps = {"off", "load", "idle", "tally", "inbounds", "save", "return"}
  BY DEF Steps
<1>1. ASSUME NEW c \in Client, NEW d \in Dir, CarryUser(c, d) PROVE LedgerInv'
  <2>1. /\ \A c1 \in Client, d1 \in Dir : user'[c1][d1] =
              IF c1 = c /\ d1 = d THEN user[c1][d1] + 1 ELSE user[c1][d1]
        /\ \A c1 \in Client, d1 \in Dir : carried'[c1][d1] =
              IF c1 = c /\ d1 = d THEN carried[c1][d1] + 1 ELSE carried[c1][d1]
    BY <1>1 DEF CarryUser, TypeOK, Counters, Bytes
  <2>2. CountedWasCarried'
    BY <1>1, <2>1, Numbers DEF CarryUser, CountedWasCarried
  <2>3. BaselinesBehind'
    BY <1>1, <2>1, Numbers DEF CarryUser, BaselinesBehind, Serving
  <2>4. SessionExact' /\ DiskBehind'
    BY <1>1 DEF CarryUser, SessionExact, DiskBehind, Pending
  <2>5. QED
    BY <2>2, <2>3, <2>4
<1>2. ASSUME NEW i \in Inbound, NEW d \in Dir, CarryInbound(i, d) PROVE LedgerInv'
  <2>1. /\ \A i1 \in Inbound, d1 \in Dir : inb'[i1][d1] =
              IF i1 = i /\ d1 = d THEN inb[i1][d1] + 1 ELSE inb[i1][d1]
        /\ \A i1 \in Inbound, d1 \in Dir : carriedIn'[i1][d1] =
              IF i1 = i /\ d1 = d THEN carriedIn[i1][d1] + 1 ELSE carriedIn[i1][d1]
    BY <1>2 DEF CarryInbound, TypeOK, Counters, Bytes
  <2>2. CountedWasCarried'
    BY <1>2, <2>1, Numbers DEF CarryInbound, CountedWasCarried
  <2>3. BaselinesBehind'
    BY <1>2, <2>1, Numbers DEF CarryInbound, BaselinesBehind, Serving
  <2>4. SessionExact' /\ DiskBehind'
    BY <1>2 DEF CarryInbound, SessionExact, DiskBehind, Pending
  <2>5. QED
    BY <2>2, <2>3, <2>4
<1>3. CASE StartXray
  <2>1. pc' = "load" /\ todo' = {}
    BY <1>3 DEF StartXray
  <2>2. CountedWasCarried'
    BY <1>3, <2>1, ZeroReads, Numbers DEF StartXray, CountedWasCarried
  <2>3. BaselinesBehind'
    BY <1>3, <2>1, ZeroReads DEF StartXray, BaselinesBehind
  <2>4. QED
    BY <2>1, <2>2, <2>3 DEF SessionExact, DiskBehind
<1>4. ASSUME NEW readable \in BOOLEAN, LoadStats(readable) PROVE LedgerInv'
  <2>1. /\ pc = "load" /\ pc' = "idle" /\ todo' = {} /\ todo = {}
        /\ \A c \in Client, d \in Dir : lastSnap'[c][d] = 0
        /\ \A i \in Inbound, d \in Dir : lastInbound'[i][d] = 0
    BY <1>4, <1>0, ZeroReads DEF LoadStats, BaselinesBehind
  <2>2. st' = base'
    BY <1>4 DEF LoadStats
  <2>3. CASE readable
    <3>1. st'.perClient = disk.perClient /\ st'.perInbound = disk.perInbound
      BY <1>4, <2>3 DEF LoadStats, TypeOK, Snapshot
    <3>2. disk'.perClient = disk.perClient /\ disk'.perInbound = disk.perInbound
      BY <1>4, <3>1 DEF LoadStats
    <3>3. CountedWasCarried'
      BY <1>4, <2>1, <2>2, <3>1, <3>2 DEF LoadStats, CountedWasCarried
    <3>4. SessionExact' /\ DiskBehind'
      BY <2>1, <2>2, <3>1, <3>2, Numbers DEF SessionExact, DiskBehind, Pending
    <3>5. QED
      BY <1>4, <2>1, <3>3, <3>4 DEF LoadStats, BaselinesBehind
  <2>4. CASE ~readable
    <3>1. /\ \A c \in Client, d \in Dir : st'.perClient[c][d] = 0
          /\ \A i \in Inbound, d \in Dir : st'.perInbound[i][d] = 0
      <4>1. st'.perClient = ZeroSnapshot.perClient /\ st'.perInbound = ZeroSnapshot.perInbound
        BY <1>4, <2>4 DEF LoadStats, ZeroSnapshot
      <4>2. QED
        BY <4>1, ZeroReads
    <3>2. disk' = st' \/ (disk' = disk /\ forgot')
      BY <1>4, <2>4 DEF LoadStats
    <3>3. CountedWasCarried'
      <4>1. UNCHANGED <<user, inb, carried, carriedIn>>
        BY <1>4 DEF LoadStats
      <4>2. disk' = st' \/ disk' = disk
        BY <3>2
      <4>3. QED
        BY <2>1, <2>2, <3>1, <4>1, <4>2, Numbers DEF CountedWasCarried
    <3>4. SessionExact' /\ DiskBehind'
      BY <2>1, <2>2, <3>1, <3>2, Numbers DEF SessionExact, DiskBehind, Pending
    <3>5. QED
      BY <1>4, <2>1, <3>3, <3>4 DEF LoadStats, BaselinesBehind
  <2>5. QED
    BY <2>3, <2>4
<1>5. CASE TickStats
  <2>1. pc = "idle" /\ pc' = "tally" /\ todo = {}
    BY <1>5, <1>0 DEF TickStats, BaselinesBehind
  <2>2. \A c \in Client, d \in Dir :
          /\ c \in todo' /\ lastSnap'[c][d] = user[c][d]
          /\ deltas'[c][d] = user[c][d] - lastSnap[c][d]
    BY <1>5, <2>1, DeltaBehind DEF TickStats, BaselinesBehind, TypeOK
  <2>3. SessionExact'
    BY <1>5, <2>1, <2>2, Numbers DEF TickStats, SessionExact, Pending
  <2>4. CountedWasCarried' /\ DiskBehind'
    BY <1>5, <2>1 DEF TickStats, CountedWasCarried, DiskBehind
  <2>5. BaselinesBehind'
    BY <1>5, <2>1, <2>2, Numbers DEF TickStats, BaselinesBehind
  <2>6. QED
    BY <2>3, <2>4, <2>5
<1>6. ASSUME NEW c \in Client, TallyClient(c) PROVE LedgerInv'
  <2>1. /\ st'.perInbound = st.perInbound
        /\ st'.perClient = [st.perClient EXCEPT ![c] = Add(st.perClient[c], deltas[c])]
    BY <1>6 DEF TallyClient, TypeOK, Snapshot
  <2>2. \A c1 \in Client, d \in Dir : st'.perClient[c1][d] =
          IF c1 = c THEN st.perClient[c1][d] + deltas[c1][d] ELSE st.perClient[c1][d]
    BY <2>1 DEF TypeOK, Snapshot, Counters, Add
  <2>3. SessionExact'
    BY <1>6, <2>1, <2>2, Numbers DEF TallyClient, SessionExact, Pending
  <2>4. CountedWasCarried' /\ BaselinesBehind'
    BY <1>6 DEF TallyClient, CountedWasCarried, BaselinesBehind
  <2>5. DiskBehind'
    BY <1>6, <2>1, <2>2, Numbers DEF TallyClient, DiskBehind
  <2>6. QED
    BY <2>3, <2>4, <2>5
<1>7. CASE TallyDone
  BY <1>7 DEF TallyDone, SessionExact, CountedWasCarried, BaselinesBehind, DiskBehind, Pending
<1>8. CASE TickInbounds
  <2> DEFINE ds == ComputeDeltas(lastInbound, inb)
  <2>1. pc = "inbounds" /\ pc' = "save" /\ todo' = todo
    BY <1>8 DEF TickInbounds
  <2>2. st'.perClient = st.perClient
    BY <1>8 DEF TickInbounds, TypeOK, Snapshot
  <2>3. \A i \in Inbound, d \in Dir : ds[i][d] = inb[i][d] - lastInbound[i][d]
    BY <2>1, DeltaBehind DEF BaselinesBehind, TypeOK
  <2>4. \A i \in Inbound, d \in Dir : st'.perInbound[i][d] = st.perInbound[i][d] + ds[i][d]
    <3> HIDE DEF ds
    <3>1. st'.perInbound = [i \in Inbound |-> Add(st.perInbound[i], ds[i])]
      BY <1>8 DEF TickInbounds, TypeOK, Snapshot, ds
    <3>2. QED
      BY <3>1 DEF Add
  <2>5. SessionExact'
    <3> HIDE DEF ds
    <3> QED BY <1>8, <2>1, <2>2, <2>3, <2>4, Numbers DEF TickInbounds, SessionExact, Pending
  <2>6. DiskBehind'
    <3> HIDE DEF ds
    <3> QED BY <1>8, <2>1, <2>2, <2>3, <2>4, Numbers DEF TickInbounds, DiskBehind, BaselinesBehind
  <2>7. CountedWasCarried' /\ BaselinesBehind'
    BY <1>8, <2>1, <1>0, Numbers DEF TickInbounds, CountedWasCarried, BaselinesBehind
  <2>8. QED
    BY <2>5, <2>6, <2>7
<1>9. CASE TickSave
  <2>1. pc = "save" /\ pc' = "idle" /\ todo = {} /\ todo' = {}
    BY <1>9, <1>0 DEF TickSave, BaselinesBehind
  <2>2. /\ \A c \in Client, d \in Dir : st.perClient[c][d] <= carried[c][d]
        /\ \A i \in Inbound, d \in Dir : st.perInbound[i][d] <= carriedIn[i][d]
    BY <2>1, Numbers DEF SessionExact, CountedWasCarried, BaselinesBehind, Pending
  <2>3. disk' = st \/ (disk' = disk /\ forgot' = forgot)
    BY <1>9 DEF TickSave, Save
  <2>4. SessionExact' /\ BaselinesBehind'
    BY <1>9, <2>1, Zenon DEF TickSave, SessionExact, BaselinesBehind, Pending
  <2>5. CountedWasCarried'
    BY <1>9, <2>1, <2>2, <2>3 DEF TickSave, CountedWasCarried
  <2>6. DiskBehind'
    BY <1>9, <2>1, <2>3, Numbers DEF TickSave, DiskBehind
  <2>7. QED
    BY <2>4, <2>5, <2>6
<1>10. CASE Cancel
  BY <1>10 DEF Cancel, SessionExact, CountedWasCarried, BaselinesBehind, DiskBehind, Pending
<1>11. CASE Shutdown
  <2>1. pc = "idle" /\ pc' = "return" /\ todo = {} /\ todo' = {}
    BY <1>11, <1>0 DEF Shutdown, BaselinesBehind
  <2>2. st'.perClient = st.perClient /\ st'.perInbound = st.perInbound
    BY <1>11 DEF Shutdown, TypeOK, Snapshot
  <2>3. /\ \A c \in Client, d \in Dir : st.perClient[c][d] <= carried[c][d]
        /\ \A i \in Inbound, d \in Dir : st.perInbound[i][d] <= carriedIn[i][d]
    BY <2>1, Numbers DEF SessionExact, CountedWasCarried, BaselinesBehind, Pending
  <2>4. disk' = st' \/ (disk' = disk /\ forgot' = forgot)
    BY <1>11 DEF Shutdown, Save
  <2>5. SessionExact'
    BY <1>11, <2>1, <2>2 DEF Shutdown, SessionExact, Pending
  <2>6. BaselinesBehind'
    BY <1>11, <2>1 DEF Shutdown, BaselinesBehind
  <2>7. CountedWasCarried'
    <3>1. UNCHANGED <<user, inb, carried, carriedIn, base>>
      BY <1>11 DEF Shutdown
    <3>2. disk' = st' \/ disk' = disk
      BY <2>4
    <3>3. QED
      BY <2>1, <2>2, <2>3, <3>1, <3>2 DEF CountedWasCarried
  <2>8. DiskBehind'
    BY <2>1, <2>2, <2>4, Numbers DEF DiskBehind
  <2>9. QED
    BY <2>5, <2>6, <2>7, <2>8
<1>12. CASE Exit \/ ServiceExit \/ Kill
  <2>1. Gone
    BY <1>12 DEF Exit, ServiceExit, Kill
  <2>2. /\ pc' = "off" /\ user' = ZeroOf(Client) /\ inb' = ZeroOf(Inbound)
        /\ UNCHANGED <<disk, carried, carriedIn>>
    BY <2>1 DEF Gone
  <2>3. QED
    BY <2>2 DEF SessionExact, CountedWasCarried, BaselinesBehind, DiskBehind
<1>13. CASE UNCHANGED vars
  BY <1>13 DEF vars, SessionExact, CountedWasCarried, BaselinesBehind, DiskBehind, Pending
<1>14. QED
  BY <1>1, <1>2, <1>3, <1>4, <1>5, <1>6, <1>7, <1>8, <1>9, <1>10, <1>11,
     <1>12, <1>13 DEF Next, Daemon

(* A daemon process tallies every byte a reading showed exactly once on top *)
(* of what it loaded, and what it relies on for that holds in every         *)
(* reachable state (node.go's tick, SessionExact and LedgerInv).            *)
THEOREM TallyExact == Spec => [](LedgerInv /\ SessionExact)
<1>1. Init => LedgerInv
  BY LedgerInvInit
<1>2. TypeOK /\ TypeOK' /\ LedgerInv /\ [Next]_vars => LedgerInv'
  BY LedgerInvStep
<1>3. LedgerInv => SessionExact
  BY DEF LedgerInv
<1>4. QED
  BY <1>1, <1>2, <1>3, TypeCorrect, PTL DEF Spec

---------------------------------------------------------------------------
(* Every step of the daemon is a step of the ledger of users, or leaves it *)
(* alone.                                                                  *)
LEMMA UserLedgerStep ==
  ASSUME TypeOK, TypeOK', LedgerInv, LedgerInv', [Next]_vars
  PROVE  [UserLedger!Next]_<<carried, disk.perClient, forgot>>
<1> USE DEF xray, loop, history
<1> DEFINE still == UNCHANGED <<carried, disk.perClient, forgot>>
<1>0. /\ Dir = UserLedger!LedgerDir
      /\ disk'.perClient \in UserLedger!Amounts
  BY SnapshotFields DEF TypeOK, Counters, Bytes, Dir, UserLedger!LedgerDir, UserLedger!Amounts
<1>1. ASSUME NEW c \in Client, NEW d \in Dir, CarryUser(c, d)
      PROVE  UserLedger!Next
  <2>1. UserLedger!Carry(c, d)
    BY <1>1 DEF CarryUser, UserLedger!Carry
  <2>2. QED
    BY <1>0, <2>1 DEF UserLedger!Next
(* A save, or a load that saves or fails to: nothing ever recorded is lost *)
(* unless forgot, and nothing recorded was not carried. *)
<1>2. ASSUME UNCHANGED carried, ~forgot',
             forgot \/ UserLedger!AtMost(disk.perClient, disk'.perClient)
      PROVE  UserLedger!Next
  <2>1. UserLedger!AtMost(disk'.perClient, carried)
    BY <1>0, <1>2 DEF LedgerInv, CountedWasCarried, UserLedger!AtMost
  <2>2. UserLedger!Record
    BY <1>0, <1>2, <2>1 DEF UserLedger!Record
  <2>3. QED
    BY <2>2 DEF UserLedger!Next
<1>3. ASSUME NEW readable \in BOOLEAN, LoadStats(readable)
      PROVE  UserLedger!Next
  <2>1. UNCHANGED carried
    BY <1>3 DEF LoadStats
  <2>2. CASE readable
    <3>1. disk'.perClient = disk.perClient
      BY <1>3, <2>2 DEF LoadStats, TypeOK, Snapshot
    <3>2. ~forgot'
      BY <1>3, <2>2, Zenon DEF LoadStats
    <3>3. UserLedger!AtMost(disk.perClient, disk'.perClient)
      BY <1>0, <3>1, Numbers DEF UserLedger!AtMost
    <3>4. QED
      BY <1>2, <2>1, <3>2, <3>3
  <2>3. CASE ~readable
    <3>1. \/ disk' = st' /\ forgot' = FALSE
          \/ disk' = disk /\ forgot' = TRUE
      BY <1>3, <2>3, Zenon DEF LoadStats
    <3>2. st'.perClient = UserLedger!Nothing
      BY <1>0, <1>3, <2>3
      DEF LoadStats, ZeroSnapshot, ZeroOf, Zero, UserLedger!Nothing
    <3>3. UserLedger!Forget
      BY <2>1, <3>1, <3>2 DEF UserLedger!Forget
    <3>4. QED
      BY <3>3 DEF UserLedger!Next
  <2>4. QED
    BY <2>2, <2>3
<1>4. CASE TickSave \/ Shutdown
  <2>1. UNCHANGED carried /\ Looping /\ st'.perClient = st.perClient
    BY <1>4 DEF TickSave, Shutdown, TypeOK, Snapshot, Looping
  <2>2. \/ disk' = st' /\ forgot' = FALSE
        \/ disk' = disk /\ forgot' = forgot
    BY <1>4, Zenon DEF TickSave, Shutdown, Save
  <2>3. CASE disk' = st' /\ forgot' = FALSE
    <3>1. forgot \/ UserLedger!AtMost(disk.perClient, disk'.perClient)
      BY <1>0, <2>1, <2>3 DEF LedgerInv, DiskBehind, UserLedger!AtMost
    <3>2. QED
      BY <1>2, <2>1, <2>3, <3>1
  <2>4. CASE disk' = disk /\ forgot' = forgot
    BY <2>1, <2>4
  <2>5. QED
    BY <2>2, <2>3, <2>4
<1>5. ASSUME NEW i \in Inbound, NEW d \in Dir, CarryInbound(i, d) PROVE still
  BY <1>5 DEF CarryInbound
<1>6. ASSUME NEW c \in Client, TallyClient(c) PROVE still
  BY <1>6 DEF TallyClient
<1>7. CASE StartXray \/ TickStats \/ TallyDone \/ TickInbounds \/ Cancel
  BY <1>7 DEF StartXray, TickStats, TallyDone, TickInbounds, Cancel
<1>8. CASE Exit \/ ServiceExit \/ Kill
  BY <1>8 DEF Exit, ServiceExit, Kill, Gone
<1>9. CASE UNCHANGED vars
  BY <1>9 DEF vars
<1>10. QED
  BY <1>1, <1>3, <1>4, <1>5, <1>6, <1>7, <1>8, <1>9 DEF Next, Daemon

(* stats.json is a ledger of what xray carried for each user: it never     *)
(* shows more than was carried, and never goes back unless a process       *)
(* could not read it (nodestats.go, "lifetime totals that persist across   *)
(* restarts").                                                             *)
THEOREM ImplementsUserLedger == Spec => UserLedgerSpec
<1>1. Init => UserLedger!Init
  BY DEF Init, UserLedger!Init, UserLedger!Nothing, UserLedger!LedgerDir,
         ZeroSnapshot, ZeroOf, Zero, Dir
<1>2. TypeOK /\ TypeOK' /\ LedgerInv /\ LedgerInv' /\ [Next]_vars
      => [UserLedger!Next]_<<carried, disk.perClient, forgot>>
  BY UserLedgerStep
<1>3. QED
  BY <1>1, <1>2, TypeCorrect, TallyExact, PTL DEF Spec, UserLedgerSpec, UserLedger!Spec

(* The same for the ledger of inbounds.                                     *)
LEMMA InboundLedgerStep ==
  ASSUME TypeOK, TypeOK', LedgerInv, LedgerInv', [Next]_vars
  PROVE  [InboundLedger!Next]_<<carriedIn, disk.perInbound, forgot>>
<1> USE DEF xray, loop, history
<1> DEFINE still == UNCHANGED <<carriedIn, disk.perInbound, forgot>>
<1>0. /\ Dir = InboundLedger!LedgerDir
      /\ disk'.perInbound \in InboundLedger!Amounts
  BY SnapshotFields DEF TypeOK, Counters, Bytes, Dir, InboundLedger!LedgerDir, InboundLedger!Amounts
<1>1. ASSUME NEW i \in Inbound, NEW d \in Dir, CarryInbound(i, d)
      PROVE  InboundLedger!Next
  <2>1. InboundLedger!Carry(i, d)
    BY <1>1 DEF CarryInbound, InboundLedger!Carry
  <2>2. QED
    BY <1>0, <2>1 DEF InboundLedger!Next
(* A save, or a load that saves or fails to: nothing ever recorded is lost *)
(* unless forgot, and nothing recorded was not carried. *)
<1>2. ASSUME UNCHANGED carriedIn, ~forgot',
             forgot \/ InboundLedger!AtMost(disk.perInbound, disk'.perInbound)
      PROVE  InboundLedger!Next
  <2>1. InboundLedger!AtMost(disk'.perInbound, carriedIn)
    BY <1>0, <1>2 DEF LedgerInv, CountedWasCarried, InboundLedger!AtMost
  <2>2. InboundLedger!Record
    BY <1>0, <1>2, <2>1 DEF InboundLedger!Record
  <2>3. QED
    BY <2>2 DEF InboundLedger!Next
<1>3. ASSUME NEW readable \in BOOLEAN, LoadStats(readable)
      PROVE  InboundLedger!Next
  <2>1. UNCHANGED carriedIn
    BY <1>3 DEF LoadStats
  <2>2. CASE readable
    <3>1. disk'.perInbound = disk.perInbound
      BY <1>3, <2>2 DEF LoadStats, TypeOK, Snapshot
    <3>2. ~forgot'
      BY <1>3, <2>2, Zenon DEF LoadStats
    <3>3. InboundLedger!AtMost(disk.perInbound, disk'.perInbound)
      BY <1>0, <3>1, Numbers DEF InboundLedger!AtMost
    <3>4. QED
      BY <1>2, <2>1, <3>2, <3>3
  <2>3. CASE ~readable
    <3>1. \/ disk' = st' /\ forgot' = FALSE
          \/ disk' = disk /\ forgot' = TRUE
      BY <1>3, <2>3, Zenon DEF LoadStats
    <3>2. st'.perInbound = InboundLedger!Nothing
      BY <1>0, <1>3, <2>3
      DEF LoadStats, ZeroSnapshot, ZeroOf, Zero, InboundLedger!Nothing
    <3>3. InboundLedger!Forget
      BY <2>1, <3>1, <3>2 DEF InboundLedger!Forget
    <3>4. QED
      BY <3>3 DEF InboundLedger!Next
  <2>4. QED
    BY <2>2, <2>3
<1>4. CASE TickSave \/ Shutdown
  <2>1. UNCHANGED carriedIn /\ Looping /\ st'.perInbound = st.perInbound
    BY <1>4 DEF TickSave, Shutdown, TypeOK, Snapshot, Looping
  <2>2. \/ disk' = st' /\ forgot' = FALSE
        \/ disk' = disk /\ forgot' = forgot
    BY <1>4, Zenon DEF TickSave, Shutdown, Save
  <2>3. CASE disk' = st' /\ forgot' = FALSE
    <3>1. forgot \/ InboundLedger!AtMost(disk.perInbound, disk'.perInbound)
      BY <1>0, <2>1, <2>3 DEF LedgerInv, DiskBehind, InboundLedger!AtMost
    <3>2. QED
      BY <1>2, <2>1, <2>3, <3>1
  <2>4. CASE disk' = disk /\ forgot' = forgot
    BY <2>1, <2>4
  <2>5. QED
    BY <2>2, <2>3, <2>4
<1>5. ASSUME NEW c \in Client, NEW d \in Dir, CarryUser(c, d) PROVE still
  BY <1>5 DEF CarryUser
<1>6. ASSUME NEW c \in Client, TallyClient(c) PROVE still
  BY <1>6 DEF TallyClient
<1>7. CASE StartXray \/ TickStats \/ TallyDone \/ TickInbounds \/ Cancel
  BY <1>7 DEF StartXray, TickStats, TallyDone, TickInbounds, Cancel
<1>8. CASE Exit \/ ServiceExit \/ Kill
  BY <1>8 DEF Exit, ServiceExit, Kill, Gone
<1>9. CASE UNCHANGED vars
  BY <1>9 DEF vars
<1>10. QED
  BY <1>1, <1>3, <1>4, <1>5, <1>6, <1>7, <1>8, <1>9 DEF Next, Daemon

(* So it is for inbounds: what `stats` shows of a protocol was carried over *)
(* it, and never goes back unless a process could not read the file         *)
(* (nodestats.go, PerInbound).                                              *)
THEOREM ImplementsInboundLedger == Spec => InboundLedgerSpec
<1>1. Init => InboundLedger!Init
  BY DEF Init, InboundLedger!Init, InboundLedger!Nothing, InboundLedger!LedgerDir,
         ZeroSnapshot, ZeroOf, Zero, Dir
<1>2. TypeOK /\ TypeOK' /\ LedgerInv /\ LedgerInv' /\ [Next]_vars
      => [InboundLedger!Next]_<<carriedIn, disk.perInbound, forgot>>
  BY InboundLedgerStep
<1>3. QED
  BY <1>1, <1>2, TypeCorrect, TallyExact, PTL DEF Spec, InboundLedgerSpec, InboundLedger!Spec

---------------------------------------------------------------------------
(* Induction over the natural numbers, for a set of them.                   *)
LEMMA NumberInduction ==
  ASSUME NEW T \in SUBSET Nat, 0 \in T, \A n \in T : n + 1 \in T
  PROVE  T = Nat
<1> DEFINE R == {ss \in Nat \X Nat : ss[1] < ss[2]}
           Bad == Nat \ T
<1> SUFFICES ASSUME Bad # {} PROVE FALSE
  OBVIOUS
<1>1. IsWellFoundedOn(R, Nat)
  BY NatLessThanWellFounded DEF OpToRel
<1> HIDE DEF R
<1>2. \E n \in Bad : \A k \in Bad : ~ (<<k, n>> \in R)
  <2> HIDE DEF Bad
  <2>1. Bad \subseteq Nat
    BY DEF Bad
  <2>2. QED
    BY <1>1, <2>1, WFMin
<1>3. PICK m \in Bad : \A k \in Bad : ~ (<<k, m>> \in R)
  BY <1>2
<1>4. m \in Nat /\ m # 0
  OBVIOUS
<1>5. <<m - 1, m>> \in R
  BY <1>4 DEF R
<1>6. m - 1 \in T
  BY <1>3, <1>4, <1>5
<1>7. QED
  BY <1>4, <1>6

(* The client SumOverClients takes out of a set of them first. *)
Taken(S) == CHOOSE x \in S : TRUE
Left(S) == S \ {Taken(S)}

LEMMA TakenFacts ==
  ASSUME NEW S \in SUBSET Client, S # {}
  PROVE  /\ Taken(S) \in S /\ Taken(S) \in Client
         /\ Left(S) \in SUBSET Client /\ Left(S) # S /\ Left(S) \subseteq S
         /\ Cardinality(S) \in Nat /\ Cardinality(S) # 0
         /\ Cardinality(Left(S)) = Cardinality(S) - 1
<1>1. Taken(S) \in S
  BY DEF Taken
<1>2. IsFiniteSet(S)
  BY FiniteAssumption, FS_Subset
<1>3. Cardinality(S) \in Nat /\ Cardinality(S) # 0
  BY <1>2, FS_CardinalityType, FS_EmptySet
<1>4. Cardinality(Left(S)) = Cardinality(S) - 1
  BY <1>1, <1>2, FS_RemoveElement DEF Left
<1>5. QED
  BY <1>1, <1>3, <1>4 DEF Left

(* Induction over the sets of clients, in the order clients are taken out.  *)
LEMMA SetInduction ==
  ASSUME NEW T \in SUBSET SUBSET Client, {} \in T,
         \A S \in SUBSET Client : S # {} /\ Left(S) \in T => S \in T
  PROVE  T = SUBSET Client
<1> DEFINE Bad == (SUBSET Client) \ T
<1> SUFFICES ASSUME Bad # {} PROVE FALSE
  OBVIOUS
<1>1. Bad \subseteq FiniteSubsetsOf(Client)
  BY FiniteAssumption, FS_Subset DEF FiniteSubsetsOf
<1>2. \E S \in Bad : \A R \in Bad : ~ (<<R, S>> \in StrictSubsetOrdering(Client))
  <2> HIDE DEF Bad
  <2> QED BY <1>1, FS_StrictSubsetOrderingWellFounded, WFMin
<1>3. PICK S \in Bad : \A R \in Bad : ~ (<<R, S>> \in StrictSubsetOrdering(Client))
  BY <1>2
<1>4. S \in SUBSET Client /\ S \notin T /\ S # {}
  <2>1. S \in SUBSET Client /\ S \notin T
    OBVIOUS
  <2>2. S # {}
    BY <2>1, Zenon
  <2>3. QED
    BY <2>1, <2>2
<1>5. Left(S) \in SUBSET Client /\ Left(S) # S /\ Left(S) \subseteq S
  BY <1>4, TakenFacts
<1>6. <<Left(S), S>> \in StrictSubsetOrdering(Client)
  <2> DEFINE L == Left(S)
  <2>1. L \in SUBSET Client /\ L # S /\ L \subseteq S
    BY <1>5
  <2> HIDE DEF L
  <2>2. <<L, S>> \in StrictSubsetOrdering(Client)
    BY <1>4, <2>1 DEF StrictSubsetOrdering
  <2>3. QED
    BY <2>2 DEF L
<1>7. Left(S) \in T
  BY <1>3, <1>5, <1>6
<1>8. S \in T
  BY <1>4, <1>7
<1>9. QED
  BY <1>4, <1>8

(* The sums of table f, in direction d, over each set of clients: the       *)
(* function SumOverClients names sum.                                       *)
SumStep(f, d, g, S) == IF S = {} THEN 0 ELSE f[Taken(S)][d] + g[Left(S)]
SumsOf(f, d) == CHOOSE g : g = [S \in SUBSET Client |-> SumStep(f, d, g, S)]

LEMMA SumIsSumOf == \A f, d : SumOverClients(f, d) = SumsOf(f, d)[Client]
  BY DEF SumOverClients, SumsOf, SumStep, Taken, Left

(* There is such a function: for each n one that is right for sets of up to *)
(* n clients, and so one for all of them.                                   *)
LEMMA SumsExist ==
  ASSUME NEW f \in Counters(Client), NEW d \in Dir
  PROVE  SumsOf(f, d) = [S \in SUBSET Client |-> SumStep(f, d, SumsOf(f, d), S)]
<1> DEFINE Right(g, n) == \A S \in SUBSET Client :
                            Cardinality(S) <= n => g[S] = SumStep(f, d, g, S)
           G == [SUBSET Client -> Nat]
           T == {n \in Nat : \E g \in G : Right(g, n)}
<1>1. 0 \in T
  <2>1. \A S \in SUBSET Client : Cardinality(S) <= 0 => S = {}
    BY TakenFacts
  <2>2. Right([S \in SUBSET Client |-> 0], 0)
    BY <2>1 DEF SumStep
  <2>3. QED
    BY <2>2
<1>2. ASSUME NEW n \in T PROVE n + 1 \in T
  <2>1. PICK g \in G : Right(g, n)
    OBVIOUS
  <2> DEFINE h == [S \in SUBSET Client |-> SumStep(f, d, g, S)]
  <2>2. h \in G
    <3>1. ASSUME NEW S \in SUBSET Client PROVE SumStep(f, d, g, S) \in Nat
      <4>1. CASE S = {}
        BY <4>1 DEF SumStep
      <4>2. CASE S # {}
        <5>1. f[Taken(S)][d] \in Nat /\ g[Left(S)] \in Nat
          BY <4>2, TakenFacts DEF Counters, Bytes
        <5>2. QED
          BY <4>2, <5>1 DEF SumStep
      <4>3. QED
        BY <4>1, <4>2
    <3>2. QED
      BY <3>1
  <2>3. \A S \in SUBSET Client : Cardinality(S) <= n => h[S] = g[S]
    BY <2>1
  <2>4. Right(h, n + 1)
    <3> SUFFICES ASSUME NEW S \in SUBSET Client, Cardinality(S) <= n + 1
                 PROVE  h[S] = SumStep(f, d, h, S)
      OBVIOUS
    <3>1. CASE S = {}
      BY <3>1 DEF SumStep
    <3>2. CASE S # {}
      <4>1. Cardinality(Left(S)) <= n
        BY <3>2, TakenFacts
      <4>2. h[Left(S)] = g[Left(S)]
        BY <3>2, <4>1, <2>3, TakenFacts
      <4>3. QED
        BY <4>2, <3>2 DEF SumStep
    <3>3. QED
      BY <3>1, <3>2
  <2>5. QED
    <3> HIDE DEF h
    <3>1. \E e \in G : Right(e, n + 1)
      BY <2>2, <2>4
    <3>2. QED
      BY <3>1
<1>3. Cardinality(Client) \in T
  <2> HIDE DEF T
  <2>1. T \in SUBSET Nat
    BY DEF T
  <2>2. T = Nat
    BY <1>1, <1>2, <2>1, NumberInduction
  <2>3. QED
    BY <2>2, FiniteAssumption, FS_CardinalityType
<1>4. PICK g \in G : Right(g, Cardinality(Client))
  BY <1>3
<1>5. \A S \in SUBSET Client : Cardinality(S) <= Cardinality(Client)
  BY FiniteAssumption, FS_Subset
<1>6. g = [S \in SUBSET Client |-> SumStep(f, d, g, S)]
  BY <1>4, <1>5
<1>7. QED
  BY <1>6 DEF SumsOf

LEMMA SumsAt ==
  ASSUME NEW f \in Counters(Client), NEW d \in Dir
  PROVE  /\ SumsOf(f, d)[{}] = 0
         /\ \A S \in SUBSET Client : S # {} =>
              SumsOf(f, d)[S] = f[Taken(S)][d] + SumsOf(f, d)[Left(S)]
  BY SumsExist DEF SumStep

LEMMA SumType ==
  ASSUME NEW f \in Counters(Client), NEW d \in Dir
  PROVE  \A S \in SUBSET Client : SumsOf(f, d)[S] \in Nat
<1> DEFINE T == {S \in SUBSET Client : SumsOf(f, d)[S] \in Nat}
<1>1. {} \in T
  BY SumsAt
<1>2. ASSUME NEW S \in SUBSET Client, S # {}, Left(S) \in T PROVE S \in T
  <2>1. f[Taken(S)][d] \in Nat
    BY <1>2, TakenFacts DEF Counters, Bytes
  <2>2. QED
    BY <1>2, <2>1, SumsAt
<1>3. T = SUBSET Client
  <2> HIDE DEF T
  <2>1. T \in SUBSET SUBSET Client
    BY DEF T
  <2> QED BY <1>1, <1>2, <2>1, SetInduction
<1>4. QED
  BY <1>3

(* A table of zeros sums to zero. *)
LEMMA SumZero ==
  ASSUME NEW d \in Dir
  PROVE  SumOverClients(ZeroOf(Client), d) = 0
<1> DEFINE f == ZeroOf(Client)
           T == {S \in SUBSET Client : SumsOf(f, d)[S] = 0}
<1>1. f \in Counters(Client) /\ \A c \in Client : f[c][d] = 0
  BY DEF ZeroOf, Zero, Counters, Bytes
<1> HIDE DEF f
<1>2. {} \in T
  BY <1>1, SumsAt
<1>3. ASSUME NEW S \in SUBSET Client, S # {}, Left(S) \in T PROVE S \in T
  BY <1>1, <1>3, SumsAt, TakenFacts
<1>4. T = SUBSET Client
  <2> HIDE DEF T
  <2>1. T \in SUBSET SUBSET Client
    BY DEF T
  <2> QED BY <1>2, <1>3, <2>1, SetInduction
<1>5. QED
  BY <1>4, SumIsSumOf DEF f

(* More of one client's traffic and nobody else's touched: the sum grows by *)
(* as much, in whatever order it is taken.                                  *)
LEMMA SumGrows ==
  ASSUME NEW f \in Counters(Client), NEW g \in Counters(Client), NEW d \in Dir,
         NEW c \in Client, NEW n \in Nat, g[c][d] = f[c][d] + n,
         \A k \in Client \ {c} : g[k][d] = f[k][d]
  PROVE  SumOverClients(g, d) = SumOverClients(f, d) + n
<1> DEFINE Owed(S) == SumsOf(f, d)[S] + (IF c \in S THEN n ELSE 0)
           T == {S \in SUBSET Client : SumsOf(g, d)[S] = Owed(S)}
<1>1. {} \in T
  BY SumsAt
<1>2. ASSUME NEW S \in SUBSET Client, S # {}, Left(S) \in T PROVE S \in T
  <2> DEFINE k == Taken(S)
             R == Left(S)
  <2>1. k \in S /\ k \in Client /\ R \in SUBSET Client
    BY <1>2, TakenFacts
  <2>2. k \notin R /\ (c \in S <=> (c = k \/ c \in R))
    BY <2>1 DEF Left
  <2>3. /\ SumsOf(f, d)[S] = f[k][d] + SumsOf(f, d)[R]
        /\ SumsOf(g, d)[S] = g[k][d] + SumsOf(g, d)[R]
    BY <1>2, SumsAt
  <2>4. f[k][d] \in Nat /\ g[k][d] \in Nat
    BY <2>1 DEF Counters, Bytes
  <2>5. SumsOf(f, d)[R] \in Nat /\ SumsOf(g, d)[R] \in Nat
    BY <2>1, SumType
  <2>6. SumsOf(g, d)[R] = Owed(R)
    BY <1>2
  <2> HIDE DEF k, R
  <2>7. SumsOf(g, d)[S] = Owed(S)
    BY <2>1, <2>2, <2>3, <2>4, <2>5, <2>6
  <2>8. QED
    BY <2>7
<1>3. T = SUBSET Client
  <2> HIDE DEF T
  <2>1. T \in SUBSET SUBSET Client
    BY DEF T
  <2> QED BY <1>1, <1>2, <2>1, SetInduction
<1>4. SumsOf(g, d)[Client] = SumsOf(f, d)[Client] + n
  BY <1>3
<1>5. QED
  BY <1>4, SumIsSumOf

---------------------------------------------------------------------------
(* What keeps TotalsAgree: the snapshot in memory adds up as well, between   *)
(* any two turns of the loop over the deltas.                                *)
AddsUp(s) == \A d \in Dir : s.total[d] = SumOverClients(s.perClient, d)
TotalsInv == AddsUp(st) /\ AddsUp(disk)

LEMMA TotalsStep == TypeOK /\ TypeOK' /\ TotalsInv /\ [Next]_vars => TotalsInv'
<1> SUFFICES ASSUME TypeOK, TypeOK', TotalsInv, [Next]_vars PROVE TotalsInv'
  OBVIOUS
<1> USE DEF xray, loop, history
<1>0. /\ st \in Snapshot /\ disk \in Snapshot /\ AddsUp(st) /\ AddsUp(disk)
      /\ deltas \in Counters(Client)
  BY DEF TypeOK, TotalsInv
<1>1. AddsUp(ZeroSnapshot)
  BY SumZero DEF AddsUp, ZeroSnapshot, Zero
<1>2. \A s \in Snapshot, b \in BOOLEAN : AddsUp(s) => AddsUp([s EXCEPT !.running = b])
  BY DEF AddsUp, Snapshot
<1>3. ASSUME UNCHANGED <<st, disk>> PROVE TotalsInv'
  BY <1>0, <1>3 DEF TotalsInv
<1>4. ASSUME AddsUp(st'), disk' = st' \/ disk' = disk PROVE TotalsInv'
  BY <1>0, <1>4 DEF TotalsInv
<1>5. ASSUME NEW readable \in BOOLEAN, LoadStats(readable) PROVE TotalsInv'
  <2>1. \E s \in {disk, ZeroSnapshot} : st' = [s EXCEPT !.running = TRUE]
    BY <1>5 DEF LoadStats
  <2>2. AddsUp(st')
    BY <1>0, <1>1, <1>2, <2>1, ZeroType
  <2>3. disk' = st' \/ disk' = disk
    BY <1>5 DEF LoadStats
  <2>4. QED
    BY <1>4, <2>2, <2>3
<1>6. ASSUME NEW c \in Client, TallyClient(c) PROVE TotalsInv'
  <2> DEFINE f == st.perClient
             g == [f EXCEPT ![c] = Add(f[c], deltas[c])]
  <2>1. /\ st'.total = Add(st.total, deltas[c]) /\ st'.perClient = g /\ disk' = disk
        /\ f \in Counters(Client) /\ deltas[c] \in Bytes /\ f[c] \in Bytes
    BY <1>0, <1>6 DEF TallyClient, Snapshot, Counters
  <2>2. g \in Counters(Client)
    BY <2>1, AddType DEF Counters
  <2>3. ASSUME NEW d \in Dir PROVE st'.total[d] = SumOverClients(g, d)
    <3>1. deltas[c][d] \in Nat /\ g[c][d] = f[c][d] + deltas[c][d]
      BY <2>1 DEF Bytes, Counters, Add
    <3>2. \A k \in Client \ {c} : g[k][d] = f[k][d]
      BY <2>1 DEF Counters
    <3>3. st'.total[d] = st.total[d] + deltas[c][d]
      BY <2>1 DEF Add
    <3>4. st.total[d] = SumOverClients(f, d)
      BY <1>0 DEF AddsUp
    <3>5. SumOverClients(g, d) = SumOverClients(f, d) + deltas[c][d]
      <4> HIDE DEF f, g
      <4> QED BY <2>1, <2>2, <3>1, <3>2, SumGrows
    <3>6. QED
      BY <3>3, <3>4, <3>5
  <2>4. AddsUp(st')
    BY <2>1, <2>3 DEF AddsUp
  <2>5. QED
    BY <1>4, <2>1, <2>4
<1>7. CASE TickInbounds
  <2>1. st'.total = st.total /\ st'.perClient = st.perClient /\ disk' = disk
    BY <1>0, <1>7 DEF TickInbounds, Snapshot
  <2>2. QED
    BY <1>0, <1>4, <2>1 DEF AddsUp
<1>8. CASE TickSave
  <2>1. st' = st /\ (disk' = st' \/ disk' = disk)
    BY <1>8 DEF TickSave, Save
  <2>2. QED
    BY <1>0, <1>4, <2>1
<1>9. CASE Shutdown
  <2>1. st' = [st EXCEPT !.running = FALSE] /\ (disk' = st' \/ disk' = disk)
    BY <1>9 DEF Shutdown, Save
  <2>2. QED
    BY <1>0, <1>2, <1>4, <2>1
<1>10. ASSUME NEW c \in Client, NEW d \in Dir, CarryUser(c, d) PROVE TotalsInv'
  BY <1>3, <1>10 DEF CarryUser
<1>11. ASSUME NEW i \in Inbound, NEW d \in Dir, CarryInbound(i, d) PROVE TotalsInv'
  BY <1>3, <1>11 DEF CarryInbound
<1>12. CASE StartXray \/ TickStats \/ TallyDone \/ Cancel
  BY <1>3, <1>12 DEF StartXray, TickStats, TallyDone, Cancel
<1>13. CASE Exit \/ ServiceExit \/ Kill
  BY <1>3, <1>13 DEF Exit, ServiceExit, Kill, Gone
<1>14. CASE UNCHANGED vars
  BY <1>3, <1>14 DEF vars
<1>15. QED
  BY <1>5, <1>6, <1>7, <1>8, <1>9, <1>10, <1>11, <1>12, <1>13, <1>14 DEF Next, Daemon

(* The lifetime totals in stats.json are the sum of its per-client entries,  *)
(* whatever was killed, failed to save or could not be read (node.go, the    *)
(* loop over the deltas).                                                    *)
THEOREM TotalsAlwaysAgree == Spec => []TotalsAgree
<1>1. Init => TotalsInv
  BY SumZero DEF Init, TotalsInv, AddsUp, ZeroSnapshot, Zero
<1>2. TypeOK /\ TypeOK' /\ TotalsInv /\ [Next]_vars => TotalsInv'
  BY TotalsStep
<1>3. TotalsInv => TotalsAgree
  BY DEF TotalsInv, AddsUp, TotalsAgree
<1>4. QED
  BY <1>1, <1>2, <1>3, TypeCorrect, PTL DEF Spec
===========================================================================
