------------------------ MODULE ThrottleProxyProofs ------------------------
(***************************************************************************)
(* Proofs about ThrottleProxy, for every set of connections and addresses, *)
(* every rate and every bound: types, that the connections of a user share *)
(* one limiter, and that the cap holds.                                    *)
(***************************************************************************)
EXTENDS ThrottleProxy, FiniteSetTheorems, TLAPS

(* The burst is a positive number of units that any chunk fits into. *)
LEMMA BurstFits == burst \in Nat /\ Chunk <= burst
  BY RateAssumption DEF burst

LEMMA BurstType == burst \in Nat
  BY BurstFits

(* What a bucket holds after a refill, and after a tick and a refill. *)
LEMMA Product == \A n \in Nat : n * Rate \in Nat /\ (n + 1) * Rate = n * Rate + Rate
  BY RateAssumption

LEMMA RefillType ==
  ASSUME NEW b \in Bucket
  PROVE  Refilled(b) \in Bucket
<1>1. b.age \in Nat /\ b.tokens \in 0..burst
  BY SatAssumption DEF Bucket
<1>2. b.age * Rate \in Nat
  BY <1>1, Product
<1>3. Refilled(b).tokens \in 0..burst /\ Refilled(b).age \in 0..Sat
  BY <1>1, <1>2, BurstType, SatAssumption DEF Refilled, Least
<1>4. QED
  BY <1>3 DEF Refilled, Bucket

LEMMA AgedType ==
  ASSUME NEW b \in Bucket
  PROVE  Aged(b) \in Bucket
<1>1. b.age \in 0..Sat /\ b.tokens \in 0..burst
  BY DEF Bucket
<1>2. Least(Sat, b.age + 1) \in 0..Sat
  BY <1>1, SatAssumption DEF Least
<1>3. QED
  BY <1>1, <1>2 DEF Aged, Bucket

(* A tick gives a bucket at most Rate tokens, and never more than a burst. *)
LEMMA TickCredit ==
  ASSUME NEW b \in Bucket
  PROVE  /\ Refilled(Aged(b)).tokens <= Refilled(b).tokens + Rate
         /\ Refilled(Aged(b)).tokens <= burst
<1>1. b.age \in Nat /\ b.age <= Sat /\ b.tokens \in Nat /\ b.tokens <= burst
  BY SatAssumption, BurstType DEF Bucket
<1>2. b.age * Rate \in Nat /\ (b.age + 1) * Rate = b.age * Rate + Rate
  BY <1>1, Product
<1>3. Aged(b).tokens = b.tokens /\ Aged(b).age = Least(Sat, b.age + 1)
  BY DEF Aged, Bucket
<1>4. Aged(b).age = b.age \/ Aged(b).age = b.age + 1
  BY <1>1, <1>3, SatAssumption DEF Least
<1>5. Aged(b).age * Rate = b.age * Rate \/ Aged(b).age * Rate = b.age * Rate + Rate
  BY <1>2, <1>4
<1>6. QED
  BY <1>1, <1>2, <1>3, <1>5, BurstType, RateAssumption DEF Refilled, Least

(* A refill of what was just refilled changes nothing. *)
LEMMA RefillTwice ==
  ASSUME NEW t \in 0..burst
  PROVE  Refilled([tokens |-> t, age |-> 0]).tokens = t
<1>1. 0 * Rate = 0
  BY RateAssumption
<1>2. QED
  BY <1>1, BurstType DEF Refilled, Least

LEMMA FullType == Full \in [Dir -> Bucket]
  BY BurstType, SatAssumption DEF Full, Bucket

LEMMA FreshType == Fresh \in [Dir -> Copy]
  BY RateAssumption DEF Fresh, Copy, Pc

(* Updates of one field of one copy, or of one level, keep the tables' types. *)
LEMMA CopyField ==
  ASSUME NEW f \in [Conn -> [Dir -> Copy]], NEW c \in Conn, NEW d \in Dir, NEW p \in Pc
  PROVE  [f EXCEPT ![c][d].pc = p] \in [Conn -> [Dir -> Copy]]
<1>1. f[c] \in [Dir -> Copy] /\ f[c][d] \in Copy
  OBVIOUS
<1>2. [f[c][d] EXCEPT !.pc = p] \in Copy
  BY <1>1 DEF Copy
<1>3. [f[c] EXCEPT ![d].pc = p] \in [Dir -> Copy]
  BY <1>1, <1>2
<1>4. QED
  BY <1>3

LEMMA LevelRises ==
  ASSUME NEW f \in [IP -> [Dir -> Nat]], NEW i \in IP, NEW d \in Dir, NEW n \in Nat
  PROVE  [f EXCEPT ![i][d] = @ + n] \in [IP -> [Dir -> Nat]]
<1>1. [f[i] EXCEPT ![d] = @ + n] \in [Dir -> Nat]
  OBVIOUS
<1>2. QED
  BY <1>1

LEMMA TokensTaken ==
  ASSUME NEW b \in Bucket, NEW n \in Nat, b.tokens >= n
  PROVE  [b EXCEPT !.tokens = @ - n] \in Bucket
<1>1. b.tokens - n \in 0..burst
  BY BurstType DEF Bucket
<1>2. QED
  BY <1>1 DEF Bucket

---------------------------------------------------------------------------
(* The variables always have their types: no bucket holds more than a      *)
(* burst or less than nothing (ThrottleProxy's TypeOK).                    *)
LEMMA TypeInit == Init => TypeOK
  BY FullType, FreshType, ConnAssumption DEF Init, TypeOK, Phase, MaybeLimiter

LEMMA TypeStep == TypeOK /\ [Next]_vars => TypeOK'
<1> SUFFICES ASSUME TypeOK, [Next]_vars PROVE TypeOK'
  OBVIOUS
<1> USE DEF TypeOK
<1>1. CASE Tick
  <2>1. \A l \in Conn, d \in Dir : Aged(bucket[l][d]) \in Bucket
    BY AgedType
  <2>2. level' \in [IP -> [Dir -> Nat]]
    BY <1>1, RateAssumption DEF Tick
  <2>3. QED
    BY <1>1, <2>1, <2>2 DEF Tick, handlers
<1>2. CASE StopAccepting
  BY <1>2 DEF StopAccepting, handlers, limiters
<1>3. ASSUME NEW c \in Conn, Accept(c) PROVE TypeOK'
  BY <1>3 DEF Accept, Phase, limiters
<1>4. ASSUME NEW c \in Conn, DialFails(c) PROVE TypeOK'
  BY <1>4 DEF DialFails, Phase, limiters
<1>5. ASSUME NEW c \in Conn, DialSucceeds(c) PROVE TypeOK'
  <2> DEFINE i == SourceIP[c]
  <2> DEFINE l == IF perIP[i] = NoLimiter THEN c ELSE perIP[i]
  <2>1. i \in IP /\ l \in Conn
    BY ConnAssumption DEF MaybeLimiter
  <2>2. /\ perIP' = [perIP EXCEPT ![i] = l]
        /\ refs' = [refs EXCEPT ![l] = @ + 1]
        /\ lim' = [lim EXCEPT ![c] = l]
        /\ bucket' \in {bucket, [bucket EXCEPT ![l] = Full]}
        /\ created' \in {created, [created EXCEPT ![i] = @ + 1]}
        /\ phase' = [phase EXCEPT ![c] = "open"]
        /\ UNCHANGED <<accepting, copy, reads, level>>
    BY <1>5 DEF DialSucceeds, acquire
  <2>3. bucket' \in [Conn -> [Dir -> Bucket]]
    BY <2>1, <2>2, FullType
  <2>4. created' \in [IP -> Nat]
    <3> HIDE DEF l, i
    <3>1. created[i] + 1 \in Nat
      BY <2>1
    <3>2. QED
      BY <2>1, <2>2, <3>1
  <2>5. refs' \in [Conn -> Int]
    <3> HIDE DEF l, i
    <3>1. refs[l] + 1 \in Int
      BY <2>1
    <3>2. QED
      BY <2>1, <2>2, <3>1
  <2>6. QED
    BY <2>1, <2>2, <2>3, <2>4, <2>5 DEF Phase, MaybeLimiter
<1>6. ASSUME NEW c \in Conn, HandleReturns(c) PROVE TypeOK'
  <2>1. copy' \in [Conn -> [Dir -> Copy]]
    BY <1>6, FreshType DEF HandleReturns
  <2>2. refs' \in [Conn -> Int]
    BY <1>6, ConnAssumption DEF HandleReturns, release, MaybeLimiter
  <2>3. perIP' \in [IP -> MaybeLimiter]
    BY <1>6, ConnAssumption DEF HandleReturns, release, MaybeLimiter
  <2>4. QED
    BY <1>6, <2>1, <2>2, <2>3 DEF HandleReturns, Phase, MaybeLimiter
<1>7. ASSUME NEW c \in Conn, NEW d \in Dir, CopyStep(c, d) PROVE TypeOK'
  <2> USE DEF copyUnchanged, At
  <2>1. ASSUME NEW n \in 1..Chunk, Read(c, d, n) PROVE TypeOK'
    <3>1. [pc |-> "wait", n |-> n] \in Copy
      BY RateAssumption DEF Copy, Pc
    <3>2. QED
      BY <2>1, <3>1 DEF Read
  <2>2. CASE ReadEnds(c, d)
    <3>1. copy' \in [Conn -> [Dir -> Copy]]
      BY <2>2, CopyField DEF ReadEnds, Pc
    <3>2. QED
      BY <2>2, <3>1 DEF ReadEnds
  <2>3. CASE WaitGranted(c, d)
    <3>1. lim[c] \in Conn \/ lim[c] = NoLimiter
      BY DEF MaybeLimiter
    <3>2. copy' \in [Conn -> [Dir -> Copy]]
      BY <2>3, CopyField DEF WaitGranted, Pc
    <3>3. level' \in [IP -> [Dir -> Nat]]
      <4>1. copy[c][d].n \in Nat
        BY RateAssumption DEF Copy
      <4>2. QED
        BY <2>3, <4>1, LevelRises, ConnAssumption DEF WaitGranted
    <3>4. bucket' \in [Conn -> [Dir -> Bucket]]
      <4> DEFINE b == Refilled(bucket[lim[c]][d])
      <4>1. CASE lim[c] \in Conn
        <5>1. b \in Bucket /\ b.tokens >= copy[c][d].n /\ copy[c][d].n \in Nat
          BY <2>3, <4>1, RefillType, RateAssumption DEF WaitGranted, Copy
        <5>2. [b EXCEPT !.tokens = @ - copy[c][d].n] \in Bucket
          <6> HIDE DEF b
          <6>1. QED
            BY <5>1, TokensTaken
        <5>3. QED
          BY <2>3, <4>1, <5>2 DEF WaitGranted
      <4>2. CASE lim[c] \notin Conn
        BY <2>3, <4>2 DEF WaitGranted
      <4>3. QED
        BY <4>1, <4>2
    <3>5. QED
      BY <2>3, <3>2, <3>3, <3>4 DEF WaitGranted
  <2>4. CASE WaitRefused(c, d)
    <3>1. CASE lim[c] \in Conn
      <4>1. Refilled(bucket[lim[c]][d]) \in Bucket
        BY <3>1, RefillType
      <4>2. QED
        BY <2>4, <3>1, <4>1 DEF WaitRefused
    <3>2. CASE lim[c] \notin Conn
      BY <2>4, <3>2 DEF WaitRefused
    <3>3. QED
      BY <3>1, <3>2
  <2>5. ASSUME NEW ok \in BOOLEAN, Write(c, d, ok) PROVE TypeOK'
    <3>1. copy' \in [Conn -> [Dir -> Copy]]
      <4>1. [pc |-> IF ok THEN "read" ELSE "ended", n |-> 0] \in Copy
        BY RateAssumption DEF Copy, Pc
      <4>2. QED
        BY <2>5, <4>1 DEF Write
    <3>2. QED
      BY <2>5, <3>1 DEF Write
  <2>6. CASE HalfClose(c, d)
    <3>1. copy' \in [Conn -> [Dir -> Copy]]
      BY <2>6, CopyField DEF HalfClose, Pc
    <3>2. QED
      BY <2>6, <3>1 DEF HalfClose
  <2>7. QED
    BY <1>7, <2>1, <2>2, <2>3, <2>4, <2>5, <2>6 DEF CopyStep
<1>8. CASE UNCHANGED vars
  BY <1>8 DEF vars
<1>9. QED
  BY <1>1, <1>2, <1>3, <1>4, <1>5, <1>6, <1>7, <1>8 DEF Next

THEOREM TypeCorrect == Spec => []TypeOK
  BY TypeInit, TypeStep, PTL DEF Spec
---------------------------------------------------------------------------
(* The limiters and those who hold them.                                   *)

LEMMA HoldersFinite == \A l : IsFiniteSet(Holders(l))
  BY ConnAssumption, FS_Subset DEF Holders

LEMMA LimiterInit == Init => LimiterInv
  BY ConnAssumption
  DEF Init, LimiterInv, LimiterShared, LimiterOwned, Open, MaybeLimiter

(* A step that opens and closes nothing and leaves the limiters alone. *)
LEMMA LimiterQuiet ==
  ASSUME LimiterInv,
         UNCHANGED <<lim, perIP, refs>>,
         \A c \in Conn : Open(c)' <=> Open(c),
         \A c \in Conn : phase'[c] \in {"new", "dialing"} => phase[c] \in {"new", "dialing"},
         \A c \in Conn : phase[c] \in {"open", "closed"} => phase'[c] \in {"open", "closed"},
         perIP \in [IP -> MaybeLimiter]
  PROVE  LimiterInv'
<1>1. \A l : {c \in Conn : Open(c)' /\ lim'[c] = l} = Holders(l)
  BY DEF Holders
<1>2. ASSUME NEW i \in IP PROVE Holders(perIP[i])' = Holders(perIP[i])
  BY <1>1 DEF Holders
<1>3. LimiterShared'
  BY <1>2 DEF LimiterInv, LimiterShared
<1>4. LimiterOwned'
  BY DEF LimiterInv, LimiterOwned, MaybeLimiter
<1>5. QED
  BY <1>3, <1>4 DEF LimiterInv

(* A connection takes the limiter of its IP, or creates it. *)
LEMMA LimiterDialSucceeds ==
  ASSUME TypeOK, LimiterInv, NEW c \in Conn, DialSucceeds(c)
  PROVE  LimiterInv'
<1> DEFINE i == SourceIP[c]
<1>0. PICK l \in Conn : l = IF perIP[i] = NoLimiter THEN c ELSE perIP[i]
  BY ConnAssumption DEF TypeOK, MaybeLimiter
<1>1. i \in IP /\ l # NoLimiter
  BY ConnAssumption
<1>2. /\ perIP' = [perIP EXCEPT ![i] = l]
      /\ refs' = [refs EXCEPT ![l] = @ + 1]
      /\ lim' = [lim EXCEPT ![c] = l]
      /\ phase' = [phase EXCEPT ![c] = "open"]
      /\ phase[c] = "dialing"
  BY <1>0 DEF DialSucceeds, acquire
<1>3. \A j \in IP : j # i /\ perIP[j] # NoLimiter => perIP[j] # l
  <2>1. CASE perIP[i] = NoLimiter
    BY <1>0, <1>2, <2>1 DEF LimiterInv, LimiterOwned
  <2>2. CASE perIP[i] # NoLimiter
    BY <1>0, <1>1, <2>2 DEF LimiterInv, LimiterOwned
  <2>3. QED
    BY <2>1, <2>2
<1>4. c \notin Holders(l) /\ refs[l] = Cardinality(Holders(l))
  <2>1. c \notin Holders(l)
    BY <1>2 DEF Holders, Open
  <2>2. CASE perIP[i] = NoLimiter
    <3>1. l = c /\ refs[c] = 0
      BY <1>0, <1>2, <2>2 DEF LimiterInv, LimiterOwned
    <3>2. ASSUME NEW h \in Holders(c) PROVE FALSE
      <4>1. h \in Conn /\ perIP[SourceIP[h]] = c
        BY <3>2 DEF Holders, LimiterInv, LimiterShared
      <4>2. SourceIP[h] \in IP /\ c # NoLimiter
        BY <4>1, ConnAssumption
      <4>3. QED
        BY <1>2, <4>1, <4>2 DEF LimiterInv, LimiterOwned
    <3>3. Holders(l) = {}
      BY <3>1, <3>2
    <3>4. QED
      BY <2>1, <3>1, <3>3, FS_EmptySet
  <2>3. CASE perIP[i] # NoLimiter
    BY <1>0, <1>1, <2>1, <2>3 DEF LimiterInv, LimiterShared
  <2>4. QED
    BY <2>2, <2>3
<1>5. /\ {h \in Conn : Open(h)' /\ lim'[h] = l} = Holders(l) \cup {c}
      /\ \A k : k # l => {h \in Conn : Open(h)' /\ lim'[h] = k} = Holders(k)
  BY <1>1, <1>2, <1>4 DEF Holders, Open, TypeOK
<1>6. refs'[l] = Cardinality(Holders(l) \cup {c})
  <2>1. Cardinality(Holders(l) \cup {c}) = Cardinality(Holders(l)) + 1
    BY <1>4, HoldersFinite, FS_AddElement
  <2>2. refs'[l] = refs[l] + 1
    BY <1>2 DEF TypeOK
  <2>3. QED
    BY <1>4, <2>1, <2>2
<1>7. LimiterShared'
  <2>1. ASSUME NEW h \in Conn, Open(h)' PROVE lim'[h] = perIP'[SourceIP[h]]
    <3>1. CASE h = c
      BY <1>1, <1>2, <3>1 DEF TypeOK
    <3>2. CASE h # c
      <4>1. Open(h) /\ lim'[h] = lim[h] /\ SourceIP[h] \in IP
        BY <1>2, <2>1, <3>2, ConnAssumption DEF Open, TypeOK
      <4>2. lim[h] = perIP[SourceIP[h]] /\ perIP[SourceIP[h]] # NoLimiter
        BY <4>1 DEF LimiterInv, LimiterShared, LimiterOwned
      <4>3. SourceIP[h] = i => perIP[i] = l
        BY <1>0, <4>2
      <4>4. QED
        BY <1>1, <1>2, <4>1, <4>2, <4>3 DEF TypeOK
    <3>3. QED
      BY <3>1, <3>2
  <2>2. ASSUME NEW j \in IP, perIP'[j] # NoLimiter
        PROVE  /\ Holders(perIP[j])' # {}
               /\ refs'[perIP'[j]] = Cardinality(Holders(perIP[j]))'
    <3>1. CASE j = i
      <4>1. perIP'[j] = l
        BY <1>1, <1>2, <3>1 DEF TypeOK
      <4>2. Holders(perIP[j])' = Holders(l) \cup {c}
        BY <1>5, <4>1 DEF Holders
      <4>3. QED
        BY <1>6, <4>1, <4>2
    <3>2. CASE j # i
      <4>1. perIP'[j] = perIP[j] /\ perIP[j] # l /\ perIP[j] # NoLimiter
        BY <1>2, <1>3, <2>2, <3>2 DEF TypeOK
      <4>2. Holders(perIP[j])' = Holders(perIP[j])
        BY <1>5, <4>1 DEF Holders
      <4>3. refs'[perIP[j]] = refs[perIP[j]]
        BY <1>2, <4>1 DEF TypeOK
      <4>4. QED
        BY <4>1, <4>2, <4>3 DEF LimiterInv, LimiterShared
    <3>3. QED
      BY <3>1, <3>2
  <2>3. QED
    BY <2>1, <2>2 DEF LimiterShared
<1>8. LimiterOwned'
  <2>1. ASSUME NEW h \in Conn
        PROVE  /\ Open(h)' => perIP'[SourceIP[h]] # NoLimiter
               /\ phase'[h] \in {"new", "dialing"} => refs'[h] = 0
    <3>1. SourceIP[h] \in IP
      BY ConnAssumption
    <3>2. Open(h)' => perIP'[SourceIP[h]] # NoLimiter
      BY <1>1, <1>2, <3>1 DEF TypeOK, Open, LimiterInv, LimiterOwned
    <3>3. ASSUME phase'[h] \in {"new", "dialing"} PROVE refs'[h] = 0
      <4>1. h # c /\ phase[h] \in {"new", "dialing"}
        BY <1>2, <3>3 DEF TypeOK
      <4>2. h # l
        <5>1. l = c \/ (l = perIP[i] /\ perIP[i] # NoLimiter)
          BY <1>0
        <5>2. QED
          BY <1>1, <4>1, <5>1 DEF LimiterInv, LimiterOwned
      <4>3. QED
        BY <1>2, <4>1, <4>2 DEF TypeOK, LimiterInv, LimiterOwned
    <3>4. QED
      BY <3>2, <3>3
  <2>2. ASSUME NEW j \in IP, perIP'[j] # NoLimiter
        PROVE  SourceIP[perIP'[j]] = j /\ phase'[perIP'[j]] \in {"open", "closed"}
    <3>1. l = c \/ (l = perIP[i] /\ perIP[i] # NoLimiter)
      BY <1>0
    <3>2. SourceIP[l] = i /\ phase'[l] \in {"open", "closed"}
      BY <1>1, <1>2, <3>1 DEF LimiterInv, LimiterOwned, TypeOK
    <3>3. CASE j = i
      BY <1>1, <1>2, <3>2, <3>3 DEF TypeOK
    <3>4. CASE j # i
      <4>1. perIP'[j] = perIP[j] /\ perIP[j] # NoLimiter /\ perIP[j] \in Conn
        BY <1>2, <2>2, <3>4 DEF TypeOK, MaybeLimiter
      <4>2. QED
        BY <1>2, <4>1 DEF TypeOK, LimiterInv, LimiterOwned
    <3>5. QED
      BY <3>3, <3>4
  <2>3. QED
    BY <2>1, <2>2 DEF LimiterOwned
<1>9. QED
  BY <1>7, <1>8 DEF LimiterInv

(* A handler that returns gives its reference back; the last one frees the *)
(* limiter, and nobody else holds it then.                                 *)
LEMMA LimiterHandleReturns ==
  ASSUME TypeOK, LimiterInv, NEW c \in Conn, HandleReturns(c)
  PROVE  LimiterInv'
<1> DEFINE i == SourceIP[c]
<1>0. PICK l \in Conn : l = perIP[i]
  BY ConnAssumption
  DEF HandleReturns, LimiterInv, LimiterOwned, Open, TypeOK, MaybeLimiter
<1>1. i \in IP /\ l # NoLimiter
  BY ConnAssumption
<1>2. /\ refs' = [refs EXCEPT ![l] = @ - 1]
      /\ perIP' = IF refs[l] - 1 <= 0 THEN [perIP EXCEPT ![i] = NoLimiter] ELSE perIP
      /\ lim' = [lim EXCEPT ![c] = NoLimiter]
      /\ phase' = [phase EXCEPT ![c] = "closed"]
      /\ phase[c] = "open"
  BY <1>0, <1>1 DEF HandleReturns, release
<1>3. \A j \in IP : j # i /\ perIP[j] # NoLimiter => perIP[j] # l
  BY <1>0, <1>1 DEF LimiterInv, LimiterOwned
<1>4. c \in Holders(l) /\ refs[l] = Cardinality(Holders(l))
  BY <1>0, <1>1, <1>2 DEF Holders, Open, LimiterInv, LimiterShared
<1>5. /\ {h \in Conn : Open(h)' /\ lim'[h] = l} = Holders(l) \ {c}
      /\ \A k : k # l => {h \in Conn : Open(h)' /\ lim'[h] = k} = Holders(k)
  <2>1. lim[c] = l
    BY <1>4 DEF Holders
  <2>2. QED
    BY <1>1, <1>2, <1>4, <2>1 DEF Holders, Open, TypeOK
<1>6. refs'[l] = refs[l] - 1 /\ refs'[l] = Cardinality(Holders(l) \ {c})
  <2>1. Cardinality(Holders(l) \ {c}) = Cardinality(Holders(l)) - 1
    BY <1>4, HoldersFinite, FS_RemoveElement
  <2>2. refs'[l] = refs[l] - 1
    BY <1>2 DEF TypeOK
  <2>3. QED
    BY <1>4, <2>1, <2>2
<1>7. refs'[l] \in Nat /\ (refs'[l] = 0 <=> Holders(l) \ {c} = {})
  <2>1. IsFiniteSet(Holders(l) \ {c})
    BY HoldersFinite, FS_RemoveElement
  <2>2. QED
    BY <1>6, <2>1, FS_EmptySet, FS_CardinalityType
<1>8. perIP' = IF Holders(l) \ {c} = {} THEN [perIP EXCEPT ![i] = NoLimiter] ELSE perIP
  <2>1. refs'[l] = refs[l] - 1 /\ refs'[l] \in Nat /\ refs[l] \in Int
    BY <1>6, <1>7 DEF TypeOK
  <2>2. refs[l] - 1 <= 0 <=> refs'[l] = 0
    BY <2>1
  <2>3. refs[l] - 1 <= 0 <=> Holders(l) \ {c} = {}
    BY <1>7, <2>2, Zenon
  <2>4. QED
    BY <1>2, <2>3, Zenon
<1>9. \A h \in Conn : Open(h)' => h # c /\ Open(h) /\ lim'[h] = lim[h]
  BY <1>2 DEF Open, TypeOK
<1>10. \A h \in Conn : Open(h)' => perIP'[SourceIP[h]] = perIP[SourceIP[h]]
  <2> SUFFICES ASSUME NEW h \in Conn, Open(h)'
               PROVE  perIP'[SourceIP[h]] = perIP[SourceIP[h]]
    OBVIOUS
  <2>1. SourceIP[h] \in IP /\ Open(h) /\ h # c
    BY <1>9, ConnAssumption
  <2>2. SourceIP[h] = i => h \in Holders(l) \ {c}
    BY <1>0, <2>1 DEF Holders, LimiterInv, LimiterShared
  <2>3. QED
    BY <1>8, <2>1, <2>2 DEF TypeOK
<1>11. LimiterShared'
  <2>1. ASSUME NEW h \in Conn, Open(h)' PROVE lim'[h] = perIP'[SourceIP[h]]
    BY <1>9, <1>10, <2>1 DEF LimiterInv, LimiterShared
  <2>2. ASSUME NEW j \in IP, perIP'[j] # NoLimiter
        PROVE  /\ Holders(perIP[j])' # {}
               /\ refs'[perIP'[j]] = Cardinality(Holders(perIP[j]))'
    <3>1. perIP'[j] = perIP[j]
      BY <1>1, <1>8, <2>2 DEF TypeOK
    <3>2. CASE j = i
      <4>1. perIP'[j] = l /\ Holders(l) \ {c} # {}
        BY <1>0, <1>1, <1>8, <2>2, <3>1, <3>2 DEF TypeOK
      <4>2. Holders(perIP[j])' = Holders(l) \ {c}
        BY <1>5, <4>1 DEF Holders
      <4>3. QED
        BY <1>6, <4>1, <4>2
    <3>3. CASE j # i
      <4>1. perIP[j] # l /\ perIP[j] # NoLimiter
        BY <1>3, <2>2, <3>1, <3>3
      <4>2. Holders(perIP[j])' = Holders(perIP[j])
        BY <1>5, <3>1, <4>1 DEF Holders
      <4>3. refs'[perIP[j]] = refs[perIP[j]]
        BY <1>2, <4>1 DEF TypeOK
      <4>4. QED
        BY <3>1, <4>1, <4>2, <4>3 DEF LimiterInv, LimiterShared
    <3>4. QED
      BY <3>2, <3>3
  <2>3. QED
    BY <2>1, <2>2 DEF LimiterShared
<1>12. LimiterOwned'
  <2>1. ASSUME NEW h \in Conn
        PROVE  /\ Open(h)' => perIP'[SourceIP[h]] # NoLimiter
               /\ phase'[h] \in {"new", "dialing"} => refs'[h] = 0
    <3>1. Open(h)' => perIP'[SourceIP[h]] # NoLimiter
      BY <1>9, <1>10 DEF LimiterInv, LimiterOwned
    <3>2. ASSUME phase'[h] \in {"new", "dialing"} PROVE refs'[h] = 0
      <4>1. phase[h] \in {"new", "dialing"}
        BY <1>2, <3>2 DEF TypeOK
      <4>2. h # l
        BY <1>0, <1>1, <4>1 DEF LimiterInv, LimiterOwned
      <4>3. QED
        BY <1>2, <4>1, <4>2 DEF TypeOK, LimiterInv, LimiterOwned
    <3>3. QED
      BY <3>1, <3>2
  <2>2. ASSUME NEW j \in IP, perIP'[j] # NoLimiter
        PROVE  SourceIP[perIP'[j]] = j /\ phase'[perIP'[j]] \in {"open", "closed"}
    <3>1. perIP'[j] = perIP[j] /\ perIP[j] # NoLimiter /\ perIP[j] \in Conn
      BY <1>1, <1>8, <2>2 DEF TypeOK, MaybeLimiter
    <3>2. QED
      BY <1>2, <3>1 DEF TypeOK, LimiterInv, LimiterOwned
  <2>3. QED
    BY <2>1, <2>2 DEF LimiterOwned
<1>13. QED
  BY <1>11, <1>12 DEF LimiterInv

LEMMA LimiterStep == TypeOK /\ LimiterInv /\ [Next]_vars => LimiterInv'
<1> SUFFICES ASSUME TypeOK, LimiterInv, [Next]_vars PROVE LimiterInv'
  OBVIOUS
<1>0. perIP \in [IP -> MaybeLimiter] /\ phase \in [Conn -> Phase]
  BY DEF TypeOK
<1>1. CASE Tick \/ StopAccepting \/ UNCHANGED vars
  <2>1. UNCHANGED <<phase, lim, perIP, refs>>
    BY <1>1 DEF Tick, StopAccepting, vars, handlers, limiters
  <2>2. QED
    BY <1>0, <2>1, LimiterQuiet DEF Open
<1>2. ASSUME NEW c \in Conn, Accept(c) \/ DialFails(c) PROVE LimiterInv'
  <2>1. /\ UNCHANGED <<lim, perIP, refs>>
        /\ phase[c] \in {"new", "dialing"}
        /\ phase' = [phase EXCEPT ![c] = "dialing"] \/ phase' = [phase EXCEPT ![c] = "closed"]
    BY <1>2 DEF Accept, DialFails, limiters
  <2>2. QED
    BY <1>0, <2>1, LimiterQuiet DEF Open
<1>3. ASSUME NEW c \in Conn, DialSucceeds(c) PROVE LimiterInv'
  BY <1>3, LimiterDialSucceeds
<1>4. ASSUME NEW c \in Conn, HandleReturns(c) PROVE LimiterInv'
  BY <1>4, LimiterHandleReturns
<1>5. ASSUME NEW c \in Conn, NEW d \in Dir, CopyStep(c, d) PROVE LimiterInv'
  <2>1. UNCHANGED <<phase, lim, perIP, refs>>
    BY <1>5 DEF CopyStep, Read, ReadEnds, WaitGranted, WaitRefused, Write, HalfClose, copyUnchanged
  <2>2. QED
    BY <1>0, <2>1, LimiterQuiet DEF Open
<1>6. QED
  BY <1>1, <1>2, <1>3, <1>4, <1>5 DEF Next

(* Connections of one IP share the limiter perIP has for it, and it is kept *)
(* exactly as long as one of them holds it (acquire, release).              *)
THEOREM SharedLimiter == Spec => []LimiterShared
<1>1. TypeOK /\ LimiterInv /\ [Next]_vars => (TypeOK /\ LimiterInv)'
  BY TypeStep, LimiterStep
<1>2. LimiterInv => LimiterShared
  BY DEF LimiterInv
<1>3. QED
  BY TypeInit, LimiterInit, <1>1, <1>2, PTL DEF Spec

---------------------------------------------------------------------------
(* What a user was let through, and what it may still take at once.        *)

LEMMA Allowance ==
  \A n \in Nat : /\ burst * n \in Nat
                 /\ burst * (n + 1) = burst * n + burst
                 /\ n >= 1 => burst <= burst * n
<1> SUFFICES ASSUME NEW n \in Nat
             PROVE  /\ burst * n \in Nat
                    /\ burst * (n + 1) = burst * n + burst
                    /\ n >= 1 => burst <= burst * n
  OBVIOUS
<1>1. burst * n \in Nat /\ burst * (n + 1) = burst * n + burst
  BY BurstType
<1>2. ASSUME n >= 1 PROVE burst <= burst * n
  <2>1. PICK m \in Nat : n = m + 1
    BY <1>2
  <2>2. burst * m \in Nat /\ burst * n = burst * m + burst
    BY <2>1, BurstType
  <2>3. QED
    BY <2>2, BurstType
<1>3. QED
  BY <1>1, <1>2

LEMMA CreditInit == Init => CreditCovered
  BY Allowance, ConnAssumption DEF Init, CreditCovered

LEMMA CreditQuiet ==
  ASSUME CreditCovered, UNCHANGED <<perIP, bucket, created, level>>
  PROVE  CreditCovered'
  BY DEF CreditCovered

LEMMA CreditTick ==
  ASSUME TypeOK, CreditCovered, Tick
  PROVE  CreditCovered'
<1> SUFFICES ASSUME NEW i \in IP, NEW d \in Dir
             PROVE  (IF perIP[i] = NoLimiter THEN level[i][d] <= burst * created[i]
                     ELSE /\ created[i] >= 1
                          /\ level[i][d] + Refilled(bucket[perIP[i]][d]).tokens
                               <= burst * created[i])'
  BY DEF CreditCovered
<1>1. /\ perIP' = perIP /\ created' = created
      /\ level'[i][d] = IF level[i][d] < Rate THEN 0 ELSE level[i][d] - Rate
      /\ \A l \in Conn : bucket'[l][d] = Aged(bucket[l][d])
  BY DEF Tick, TypeOK
<1>2. created[i] \in Nat /\ level[i][d] \in Nat /\ burst * created[i] \in Nat
  BY Allowance DEF TypeOK
<1>3. CASE perIP[i] = NoLimiter
  BY <1>1, <1>2, <1>3, RateAssumption DEF CreditCovered
<1>4. CASE perIP[i] # NoLimiter
  <2> DEFINE b == bucket[perIP[i]][d]
  <2>1. perIP[i] \in Conn /\ b \in Bucket
    BY <1>4 DEF TypeOK, MaybeLimiter
  <2>2. Refilled(b) \in Bucket /\ Refilled(Aged(b)) \in Bucket
    BY <2>1, RefillType, AgedType
  <2>3. Refilled(b).tokens \in Nat /\ Refilled(Aged(b)).tokens \in Nat
    BY <2>2, BurstType DEF Bucket
  <2>4. /\ Refilled(Aged(b)).tokens <= Refilled(b).tokens + Rate
        /\ Refilled(Aged(b)).tokens <= burst
    BY <2>1, TickCredit
  <2>5. created[i] >= 1 /\ level[i][d] + Refilled(b).tokens <= burst * created[i]
    BY <1>4 DEF CreditCovered
  <2>6. burst <= burst * created[i]
    BY <1>2, <2>5, Allowance
  <2> HIDE DEF b
  <2>7. level'[i][d] + Refilled(Aged(b)).tokens <= burst * created[i]
    BY <1>1, <1>2, <2>3, <2>4, <2>5, <2>6, BurstType, RateAssumption
  <2>8. bucket'[perIP[i]][d] = Aged(b)
    BY <1>1, <2>1 DEF b
  <2>9. QED
    BY <1>1, <1>4, <2>5, <2>7, <2>8
<1>5. QED
  BY <1>3, <1>4

(* A new limiter comes with one more burst of allowance. *)
LEMMA CreditDialSucceeds ==
  ASSUME TypeOK, LimiterInv, CreditCovered, NEW c \in Conn, DialSucceeds(c)
  PROVE  CreditCovered'
<1> DEFINE i == SourceIP[c]
<1>1. i \in IP /\ c # NoLimiter /\ level' = level
  BY ConnAssumption DEF DialSucceeds
<1>2. CASE perIP[i] # NoLimiter
  <2>1. perIP' = perIP
    BY <1>1, <1>2 DEF DialSucceeds, acquire, TypeOK
  <2>2. perIP[i] # c
    BY <1>1, <1>2 DEF DialSucceeds, LimiterInv, LimiterOwned
  <2>3. bucket' = bucket /\ created' = created
    BY <1>2, <2>2 DEF DialSucceeds, acquire
  <2>4. QED
    BY <1>1, <2>1, <2>3, CreditQuiet
<1>3. CASE perIP[i] = NoLimiter
  <2>1. /\ perIP' = [perIP EXCEPT ![i] = c]
        /\ bucket' = [bucket EXCEPT ![c] = Full]
        /\ created' = [created EXCEPT ![i] = @ + 1]
    BY <1>3 DEF DialSucceeds, acquire
  <2> SUFFICES ASSUME NEW j \in IP, NEW d \in Dir
               PROVE  (IF perIP[j] = NoLimiter THEN level[j][d] <= burst * created[j]
                       ELSE /\ created[j] >= 1
                            /\ level[j][d] + Refilled(bucket[perIP[j]][d]).tokens
                                 <= burst * created[j])'
    BY DEF CreditCovered
  <2>2. CASE j = i
    <3>1. /\ perIP'[j] = c /\ bucket'[c][d] = [tokens |-> burst, age |-> 0]
          /\ created'[j] = created[j] + 1
      BY <1>1, <2>1, <2>2 DEF TypeOK, Full
    <3>2. level[j][d] <= burst * created[j]
      BY <1>3, <2>2 DEF CreditCovered
    <3>3. Refilled(bucket'[c][d]).tokens = burst
      BY <3>1, BurstType, RefillTwice
    <3>4. created[j] \in Nat /\ level[j][d] \in Nat
      BY DEF TypeOK
    <3>5. burst * created'[j] = burst * created[j] + burst /\ burst * created[j] \in Nat
      BY <3>1, <3>4, Allowance
    <3>6. level[j][d] + burst <= burst * created'[j] /\ created'[j] >= 1
      BY <3>1, <3>2, <3>4, <3>5, BurstType
    <3>7. QED
      BY <1>1, <3>1, <3>3, <3>6
  <2>3. CASE j # i
    <3>1. perIP'[j] = perIP[j] /\ created'[j] = created[j]
      BY <2>1, <2>3 DEF TypeOK
    <3>2. perIP[j] # NoLimiter => perIP[j] # c /\ perIP[j] \in Conn
      BY <2>3 DEF LimiterInv, LimiterOwned, TypeOK, MaybeLimiter
    <3>3. perIP[j] # NoLimiter => bucket'[perIP[j]] = bucket[perIP[j]]
      BY <2>1, <3>2 DEF TypeOK
    <3>4. QED
      BY <1>1, <3>1, <3>3 DEF CreditCovered
  <2>4. QED
    BY <2>2, <2>3
<1>4. QED
  BY <1>2, <1>3

(* What is left in a bucket that is freed is given up. *)
LEMMA CreditHandleReturns ==
  ASSUME TypeOK, CreditCovered, NEW c \in Conn, HandleReturns(c)
  PROVE  CreditCovered'
<1>1. UNCHANGED <<bucket, created, level>>
  BY DEF HandleReturns
<1>2. \A i \in IP : perIP'[i] \in {perIP[i], NoLimiter}
  BY DEF HandleReturns, release, TypeOK
<1> SUFFICES ASSUME NEW i \in IP, NEW d \in Dir
             PROVE  (IF perIP[i] = NoLimiter THEN level[i][d] <= burst * created[i]
                     ELSE /\ created[i] >= 1
                          /\ level[i][d] + Refilled(bucket[perIP[i]][d]).tokens
                               <= burst * created[i])'
  BY DEF CreditCovered
<1>3. CASE perIP'[i] = perIP[i]
  BY <1>1, <1>3 DEF CreditCovered
<1>4. CASE perIP'[i] = NoLimiter /\ perIP[i] # NoLimiter
  <2>1. Refilled(bucket[perIP[i]][d]) \in Bucket
    BY <1>4, RefillType DEF TypeOK, MaybeLimiter
  <2>2. Refilled(bucket[perIP[i]][d]).tokens \in Nat /\ level[i][d] \in Nat
    BY <2>1, BurstType DEF Bucket, TypeOK
  <2>3. burst * created[i] \in Nat
    BY Allowance DEF TypeOK
  <2>4. level[i][d] + Refilled(bucket[perIP[i]][d]).tokens <= burst * created[i]
    BY <1>4 DEF CreditCovered
  <2>5. level[i][d] <= burst * created[i]
    BY <2>2, <2>3, <2>4
  <2>6. QED
    BY <1>1, <1>4, <2>5
<1>5. QED
  BY <1>2, <1>3, <1>4

(* Tokens granted move from the bucket to what was let through. *)
LEMMA CreditWaitGranted ==
  ASSUME TypeOK, LimiterInv, CreditCovered, NEW c \in Conn, NEW d \in Dir, WaitGranted(c, d)
  PROVE  CreditCovered'
<1> DEFINE i == SourceIP[c]
<1> DEFINE n == copy[c][d].n
<1>0. PICK l \in Conn : l = lim[c] /\ l = perIP[i] /\ l # NoLimiter
  BY ConnAssumption
  DEF WaitGranted, At, LimiterInv, LimiterShared, LimiterOwned, Open, TypeOK, MaybeLimiter
<1> DEFINE b == Refilled(bucket[l][d])
<1>1. i \in IP /\ b \in Bucket /\ n \in Nat /\ b.tokens \in 0..burst
  BY ConnAssumption, RefillType, RateAssumption DEF TypeOK, Copy, Bucket
<1>2. /\ b.tokens >= n
      /\ bucket' = [bucket EXCEPT ![l][d] = [b EXCEPT !.tokens = @ - n]]
      /\ level' = [level EXCEPT ![i][d] = @ + n]
      /\ UNCHANGED <<perIP, created>>
  BY <1>0 DEF WaitGranted, copyUnchanged
<1> SUFFICES ASSUME NEW j \in IP, NEW e \in Dir
             PROVE  (IF perIP[j] = NoLimiter THEN level[j][e] <= burst * created[j]
                     ELSE /\ created[j] >= 1
                          /\ level[j][e] + Refilled(bucket[perIP[j]][e]).tokens
                               <= burst * created[j])'
  BY DEF CreditCovered
<1>3. CASE j = i /\ e = d
  <2>1. bucket'[l][d] = [b EXCEPT !.tokens = @ - n]
    BY <1>2 DEF TypeOK
  <2>2. b.age = 0
    BY DEF Refilled
  <2>3. bucket'[l][d] = [tokens |-> b.tokens - n, age |-> 0]
    <3> HIDE DEF b, n
    <3>1. QED
      BY <1>1, <2>1, <2>2 DEF Bucket
  <2>4. b.tokens - n \in 0..burst
    <3> HIDE DEF b, n
    <3>1. QED
      BY <1>1, <1>2, BurstType
  <2>5. Refilled(bucket'[l][d]).tokens = b.tokens - n
    <3> HIDE DEF b, n
    <3>1. QED
      BY <2>3, <2>4, RefillTwice
  <2>6. level'[j][e] = level[i][d] + n
    BY <1>2, <1>3 DEF TypeOK
  <2>7. created[i] >= 1 /\ level[i][d] + b.tokens <= burst * created[i]
    BY <1>0, <1>1 DEF CreditCovered
  <2>8. level[i][d] \in Nat
    BY <1>1 DEF TypeOK
  <2>9. level'[j][e] + Refilled(bucket'[l][d]).tokens = level[i][d] + b.tokens
    <3> HIDE DEF b, n
    <3>1. b.tokens \in Int
      BY <1>1, BurstType
    <3>2. QED
      BY <1>1, <2>5, <2>6, <2>8, <3>1
  <2>10. QED
    BY <1>0, <1>2, <1>3, <2>7, <2>9
<1>4. CASE ~(j = i /\ e = d)
  <2>1. level'[j][e] = level[j][e]
    BY <1>2, <1>4 DEF TypeOK
  <2>2. perIP[j] # NoLimiter => perIP[j] \in Conn /\ (perIP[j] = l => j = i)
    BY <1>0, <1>1 DEF LimiterInv, LimiterOwned, TypeOK, MaybeLimiter
  <2>3. perIP[j] # NoLimiter => bucket'[perIP[j]][e] = bucket[perIP[j]][e]
    BY <1>2, <1>4, <2>2 DEF TypeOK
  <2>4. QED
    BY <1>2, <2>1, <2>3 DEF CreditCovered
<1>5. QED
  BY <1>3, <1>4

(* A refusal refills the bucket, which changes nothing of what it may give. *)
LEMMA CreditWaitRefused ==
  ASSUME TypeOK, LimiterInv, CreditCovered, NEW c \in Conn, NEW d \in Dir, WaitRefused(c, d)
  PROVE  CreditCovered'
<1>0. PICK l \in Conn : l = lim[c] /\ l = perIP[SourceIP[c]]
  BY ConnAssumption
  DEF WaitRefused, At, LimiterInv, LimiterShared, LimiterOwned, Open, TypeOK, MaybeLimiter
<1> DEFINE b == Refilled(bucket[l][d])
<1>1. b \in Bucket /\ b.tokens \in 0..burst
  BY RefillType DEF TypeOK, Bucket
<1>2. /\ bucket' = [bucket EXCEPT ![l][d] = b]
      /\ UNCHANGED <<perIP, created, level>>
  BY <1>0 DEF WaitRefused, copyUnchanged
<1>3. Refilled(b).tokens = b.tokens
  <2>1. b = [tokens |-> b.tokens, age |-> 0]
    BY DEF Refilled
  <2> HIDE DEF b
  <2>2. QED
    BY <1>1, <2>1, RefillTwice
<1>4. \A k \in Conn, e \in Dir :
        Refilled(bucket'[k][e]).tokens = Refilled(bucket[k][e]).tokens
  <2> SUFFICES ASSUME NEW k \in Conn, NEW e \in Dir
               PROVE  Refilled(bucket'[k][e]).tokens = Refilled(bucket[k][e]).tokens
    OBVIOUS
  <2>1. CASE k = l /\ e = d
    BY <1>2, <1>3, <2>1 DEF TypeOK
  <2>2. CASE ~(k = l /\ e = d)
    BY <1>2, <2>2 DEF TypeOK
  <2>3. QED
    BY <2>1, <2>2
<1>5. \A j \in IP : perIP[j] # NoLimiter => perIP[j] \in Conn
  BY DEF TypeOK, MaybeLimiter
<1>6. QED
  BY <1>2, <1>4, <1>5 DEF CreditCovered

LEMMA CreditStep ==
  TypeOK /\ LimiterInv /\ CreditCovered /\ [Next]_vars => CreditCovered'
<1> SUFFICES ASSUME TypeOK, LimiterInv, CreditCovered, [Next]_vars PROVE CreditCovered'
  OBVIOUS
<1>1. CASE Tick
  BY <1>1, CreditTick
<1>2. CASE StopAccepting \/ UNCHANGED vars
  BY <1>2, CreditQuiet DEF StopAccepting, vars, limiters
<1>3. ASSUME NEW c \in Conn, Accept(c) \/ DialFails(c) PROVE CreditCovered'
  BY <1>3, CreditQuiet DEF Accept, DialFails, limiters
<1>4. ASSUME NEW c \in Conn, DialSucceeds(c) PROVE CreditCovered'
  BY <1>4, CreditDialSucceeds
<1>5. ASSUME NEW c \in Conn, HandleReturns(c) PROVE CreditCovered'
  BY <1>5, CreditHandleReturns
<1>6. ASSUME NEW c \in Conn, NEW d \in Dir, CopyStep(c, d) PROVE CreditCovered'
  <2>1. CASE WaitGranted(c, d)
    BY <2>1, CreditWaitGranted
  <2>2. CASE WaitRefused(c, d)
    BY <2>2, CreditWaitRefused
  <2>3. CASE \/ \E n \in 1..Chunk : Read(c, d, n)
             \/ ReadEnds(c, d)
             \/ \E ok \in BOOLEAN : Write(c, d, ok)
             \/ HalfClose(c, d)
    <3>1. UNCHANGED <<perIP, bucket, created, level>>
      BY <2>3 DEF Read, ReadEnds, Write, HalfClose, copyUnchanged
    <3>2. QED
      BY <3>1, CreditQuiet
  <2>4. QED
    BY <1>6, <2>1, <2>2, <2>3 DEF CopyStep
<1>7. QED
  BY <1>1, <1>2, <1>3, <1>4, <1>5, <1>6 DEF Next

LEMMA CoveredIsCapped == TypeOK /\ CreditCovered => UserCap
<1> SUFFICES ASSUME TypeOK, CreditCovered, NEW i \in IP, NEW d \in Dir
             PROVE  level[i][d] <= burst * created[i]
  BY DEF UserCap
<1>1. CASE perIP[i] = NoLimiter
  BY <1>1 DEF CreditCovered
<1>2. CASE perIP[i] # NoLimiter
  <2>1. Refilled(bucket[perIP[i]][d]) \in Bucket
    BY <1>2, RefillType DEF TypeOK, MaybeLimiter
  <2>2. Refilled(bucket[perIP[i]][d]).tokens \in Nat /\ level[i][d] \in Nat
    BY <2>1, BurstType DEF Bucket, TypeOK
  <2>3. burst * created[i] \in Nat
    BY Allowance DEF TypeOK
  <2>4. level[i][d] + Refilled(bucket[perIP[i]][d]).tokens <= burst * created[i]
    BY <1>2 DEF CreditCovered
  <2>5. QED
    BY <2>2, <2>3, <2>4
<1>3. QED
  BY <1>1, <1>2

(* The cap: over any stretch of time a user gets at most Rate times its     *)
(* length plus one burst for each limiter created, however many connections *)
(* share the buckets and however their waits interleave (AllowN, WaitN).    *)
THEOREM CapHolds == Spec => []UserCap
<1>1. TypeOK /\ CapInv /\ [Next]_vars => (TypeOK /\ CapInv)'
  BY TypeStep, LimiterStep, CreditStep DEF CapInv
<1>2. Init => TypeOK /\ CapInv
  BY TypeInit, LimiterInit, CreditInit DEF CapInv
<1>3. TypeOK /\ CapInv => UserCap
  BY CoveredIsCapped DEF CapInv
<1>4. QED
  BY <1>1, <1>2, <1>3, PTL DEF Spec
============================================================================
