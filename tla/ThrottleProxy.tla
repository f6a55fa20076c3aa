--------------------------- MODULE ThrottleProxy ---------------------------
(***************************************************************************)
(* The per-user throttling proxy in front of one xray inbound              *)
(* (internal/throttle/proxy.go and throttle.go): connections of the same   *)
(* source IP share one limiter, a pair of token buckets counted by the     *)
(* handlers that hold it, and each handler runs two LimitedCopy loops.     *)
(*                                                                         *)
(* Time is a tick in which a bucket earns Rate tokens.  A bucket refills   *)
(* lazily from the time since its last refill; that age is kept up to Sat  *)
(* ticks, after which a refill fills the bucket whatever it held.  A       *)
(* limiter is named by the connection whose acquire created it.            *)
(***************************************************************************)
EXTENDS Integers, FiniteSets

CONSTANTS
  Conn,      \* client connections; each is accepted at most once
  IP,        \* source addresses
  SourceIP,  \* the source address of each connection
  NoLimiter, \* nil
  Rate,      \* RateBps, in units per tick (a proxy is only built for a rate > 0)
  Chunk,     \* copy buffer size, in units
  Sat,       \* bound: ticks of age a bucket remembers
  MaxReads   \* bound: reads that return data, per direction, over all connections

ASSUME ConnAssumption ==
  IsFiniteSet(Conn) /\ SourceIP \in [Conn -> IP] /\ NoLimiter \notin Conn
ASSUME RateAssumption == Rate \in Nat \ {0} /\ Chunk \in Nat \ {0}
ASSUME ReadsAssumption == MaxReads \in [{"up", "down"} -> Nat]

(* Proxy.burst: a quarter of RateBps, at least four chunks. *)
burst == IF Rate \div 4 < 4 * Chunk THEN 4 * Chunk ELSE Rate \div 4

ASSUME SatAssumption == Sat \in Nat /\ Sat * Rate >= burst

VARIABLES
  accepting, \* serve's accept loop is running
  phase,     \* per connection: where handle is
  lim,       \* per connection: the limiter handle holds
  copy,      \* per connection and direction: where LimitedCopy is
  perIP,     \* Proxy.perIP
  refs,      \* ipLimiter.refs
  bucket,    \* ipLimiter.up and .down
  reads,     \* reads that returned data, per direction
  \* history, read by the properties only
  created,   \* limiters created for each IP
  level      \* see UserCap

handlers == <<phase, lim, copy>>
limiters == <<perIP, refs, bucket, created>>
vars == <<accepting, phase, lim, copy, perIP, refs, bucket, reads, created, level>>

Dir == {"up", "down"}
Pc == {"read", "wait", "write", "ended", "done"}
Copy == [pc : Pc, n : 0..Chunk]
Bucket == [tokens : 0..burst, age : 0..Sat]
Phase == {"new", "dialing", "open", "closed"}
MaybeLimiter == Conn \cup {NoLimiter}

Fresh == [d \in Dir |-> [pc |-> "read", n |-> 0]]
Full == [d \in Dir |-> [tokens |-> burst, age |-> 0]]

TypeOK ==
  /\ accepting \in BOOLEAN
  /\ phase \in [Conn -> Phase]
  /\ lim \in [Conn -> MaybeLimiter]
  /\ copy \in [Conn -> [Dir -> Copy]]
  /\ perIP \in [IP -> MaybeLimiter]
  /\ refs \in [Conn -> Int]
  /\ bucket \in [Conn -> [Dir -> Bucket]]
  /\ reads \in [Dir -> Nat]
  /\ created \in [IP -> Nat]
  /\ level \in [IP -> [Dir -> Nat]]

Init ==
  /\ accepting = TRUE
  /\ phase = [c \in Conn |-> "new"]
  /\ lim = [c \in Conn |-> NoLimiter]
  /\ copy = [c \in Conn |-> Fresh]
  /\ perIP = [i \in IP |-> NoLimiter]
  /\ refs = [c \in Conn |-> 0]
  /\ bucket = [c \in Conn |-> Full]
  /\ reads = [d \in Dir |-> 0]
  /\ created = [i \in IP |-> 0]
  /\ level = [i \in IP |-> [d \in Dir |-> 0]]

---------------------------------------------------------------------------
(* Token buckets.                                                          *)

Least(a, b) == IF a < b THEN a ELSE b

(* AllowN's refill: what accrued since the last one, capped at the burst. *)
RefilledUncapped(b) == [tokens |-> b.tokens + b.age * Rate, age |-> 0]
RefilledInWholeSeconds(b) == [tokens |-> b.tokens, age |-> 0]
Refilled(b) == [tokens |-> Least(burst, b.tokens + b.age * Rate), age |-> 0]

Aged(b) == [b EXCEPT !.age = Least(Sat, @ + 1)]

Tick ==
  /\ bucket' = [l \in Conn |-> [d \in Dir |-> Aged(bucket[l][d])]]
  /\ level' = [i \in IP |-> [d \in Dir |->
                 IF level[i][d] < Rate THEN 0 ELSE level[i][d] - Rate]]
  /\ UNCHANGED <<accepting, handlers, perIP, refs, reads, created>>

---------------------------------------------------------------------------
(* serve and handle.                                                       *)

Accept(c) ==
  /\ accepting /\ phase[c] = "new"
  /\ phase' = [phase EXCEPT ![c] = "dialing"]
  /\ UNCHANGED <<accepting, lim, copy, limiters, reads, level>>

(* The accept loop returns on any error of Accept, the one ctx.Done causes *)
(* by closing the listener included; the handlers carry on.                *)
StopAccepting ==
  /\ accepting /\ accepting' = FALSE
  /\ UNCHANGED <<handlers, limiters, reads, level>>

DialFails(c) ==
  /\ phase[c] = "dialing"
  /\ phase' = [phase EXCEPT ![c] = "closed"]
  /\ UNCHANGED <<accepting, lim, copy, limiters, reads, level>>

(* The backend answered: take the limiter and start both copies. *)
acquireNoRef(c) ==
  LET i == SourceIP[c]
      l == IF perIP[i] = NoLimiter THEN c ELSE perIP[i]
  IN  /\ perIP' = [perIP EXCEPT ![i] = l]
      /\ refs' = [refs EXCEPT ![l] = IF l = c THEN 1 ELSE @]
      /\ lim' = [lim EXCEPT ![c] = l]
      /\ bucket' = IF l = c THEN [bucket EXCEPT ![l] = Full] ELSE bucket
      /\ created' = IF l = c THEN [created EXCEPT ![i] = @ + 1] ELSE created

acquire(c) ==
  LET i == SourceIP[c]
      l == IF perIP[i] = NoLimiter THEN c ELSE perIP[i]
  IN  /\ perIP' = [perIP EXCEPT ![i] = l]
      /\ refs' = [refs EXCEPT ![l] = @ + 1]
      /\ lim' = [lim EXCEPT ![c] = l]
      /\ bucket' = IF l = c THEN [bucket EXCEPT ![l] = Full] ELSE bucket
      /\ created' = IF l = c THEN [created EXCEPT ![i] = @ + 1] ELSE created

DialSucceeds(c) ==
  /\ phase[c] = "dialing"
  /\ phase' = [phase EXCEPT ![c] = "open"]
  /\ acquire(c)
  /\ UNCHANGED <<accepting, copy, reads, level>>

(* One handler fewer; the last one frees the limiter of the IP. *)
release(c) ==
  LET i == SourceIP[c]
      l == perIP[i]
  IN  IF l = NoLimiter THEN UNCHANGED <<refs, perIP>>
      ELSE /\ refs' = [refs EXCEPT ![l] = @ - 1]
           /\ perIP' = IF refs[l] - 1 <= 0 THEN [perIP EXCEPT ![i] = NoLimiter]
                       ELSE perIP

(* Both <-done received: the deferred release, then the connections close. *)
HandleReturns(c) ==
  /\ phase[c] = "open"
  /\ \A d \in Dir : copy[c][d].pc = "done"
  /\ phase' = [phase EXCEPT ![c] = "closed"]
  /\ release(c)
  /\ lim' = [lim EXCEPT ![c] = NoLimiter]
  /\ copy' = [copy EXCEPT ![c] = Fresh]
  /\ UNCHANGED <<accepting, bucket, created, reads, level>>

---------------------------------------------------------------------------
(* LimitedCopy, in direction d of connection c.                            *)

At(c, d, pc) == phase[c] = "open" /\ copy[c][d].pc = pc
copyUnchanged == <<accepting, phase, lim, perIP, refs, created>>

(* Read returns n bytes (a TCP connection returns no error along with data). *)
Read(c, d, n) ==
  /\ At(c, d, "read") /\ reads[d] < MaxReads[d]
  /\ copy' = [copy EXCEPT ![c][d] = [pc |-> "wait", n |-> n]]
  /\ reads' = [reads EXCEPT ![d] = @ + 1]
  /\ UNCHANGED <<copyUnchanged, bucket, level>>

(* Read returns no bytes and an error: the end, or a broken connection. *)
ReadEnds(c, d) ==
  /\ At(c, d, "read")
  /\ copy' = [copy EXCEPT ![c][d].pc = "ended"]
  /\ UNCHANGED <<copyUnchanged, bucket, reads, level>>

(* WaitN: AllowN says yes. *)
WaitGranted(c, d) ==
  LET l == lim[c]
      n == copy[c][d].n
      b == Refilled(bucket[l][d])
  IN  /\ At(c, d, "wait")
      /\ b.tokens >= n
      /\ bucket' = [bucket EXCEPT ![l][d] = [b EXCEPT !.tokens = @ - n]]
      /\ copy' = [copy EXCEPT ![c][d].pc = "write"]
      /\ level' = [level EXCEPT ![SourceIP[c]][d] = @ + n]
      /\ UNCHANGED <<copyUnchanged, reads>>

(* WaitN: AllowN says no, having refilled; sleep and poll again. *)
WaitRefused(c, d) ==
  LET l == lim[c]
      b == Refilled(bucket[l][d])
  IN  /\ At(c, d, "wait")
      /\ b.tokens < copy[c][d].n
      /\ bucket' = [bucket EXCEPT ![l][d] = b]
      /\ UNCHANGED <<copyUnchanged, copy, reads, level>>

(* Write: on to the next read, or out on its error. *)
Write(c, d, ok) ==
  /\ At(c, d, "write")
  /\ copy' = [copy EXCEPT ![c][d] = [pc |-> IF ok THEN "read" ELSE "ended", n |-> 0]]
  /\ UNCHANGED <<copyUnchanged, bucket, reads, level>>

(* halfClose the destination and report done. *)
HalfClose(c, d) ==
  /\ At(c, d, "ended")
  /\ copy' = [copy EXCEPT ![c][d].pc = "done"]
  /\ UNCHANGED <<copyUnchanged, bucket, reads, level>>

CopyStep(c, d) ==
  \/ \E n \in 1..Chunk : Read(c, d, n)
  \/ ReadEnds(c, d)
  \/ WaitGranted(c, d)
  \/ WaitRefused(c, d)
  \/ \E ok \in BOOLEAN : Write(c, d, ok)
  \/ HalfClose(c, d)

Next ==
  \/ Tick
  \/ StopAccepting
  \/ \E c \in Conn : Accept(c) \/ DialFails(c) \/ DialSucceeds(c) \/ HandleReturns(c)
  \/ \E c \in Conn, d \in Dir : CopyStep(c, d)

Spec == Init /\ [][Next]_vars

(* Time passes, dials end, the goroutines run, a client that has nothing    *)
(* left to send ends its stream, and the backend ends its own once the      *)
(* proxy has shut the direction towards it.                                 *)
Fairness ==
  /\ WF_vars(Tick)
  /\ \A c \in Conn :
       /\ WF_vars(DialFails(c) \/ DialSucceeds(c))
       /\ WF_vars(HandleReturns(c))
       /\ WF_vars(ReadEnds(c, "up"))
       /\ WF_vars(copy[c]["up"].pc = "done" /\ ReadEnds(c, "down"))
       /\ \A d \in Dir :
            /\ WF_vars(WaitGranted(c, d))
            /\ WF_vars(\E ok \in BOOLEAN : Write(c, d, ok))
            /\ WF_vars(HalfClose(c, d))

FairSpec == Spec /\ Fairness

---------------------------------------------------------------------------
(* Properties.                                                             *)

Open(c) == phase[c] = "open"
Holders(l) == {c \in Conn : Open(c) /\ lim[c] = l}

(* Every running handler of an IP holds the limiter that perIP has for it,  *)
(* so a new connection of that user shares its buckets; and a limiter is    *)
(* kept exactly as long as somebody holds it (acquire and release).         *)
LimiterShared ==
  /\ \A c \in Conn : Open(c) => lim[c] = perIP[SourceIP[c]]
  /\ \A i \in IP : perIP[i] # NoLimiter =>
       /\ Holders(perIP[i]) # {}
       /\ refs[perIP[i]] = Cardinality(Holders(perIP[i]))

(* level drains by Rate a tick and rises by every unit let through: it is   *)
(* the most by which the units let through in any stretch of time so far    *)
(* exceed Rate times its length.  For each IP and direction that excess is  *)
(* at most one burst per limiter created: as long as a user keeps a         *)
(* connection, the cap is Rate plus a single burst, however many            *)
(* connections share it and however their waits interleave.                 *)
UserCap == \A i \in IP, d \in Dir : level[i][d] <= burst * created[i]

(* Why the two hold, as an inductive invariant: a limiter is named by the   *)
(* connection that created it, which is of its IP and has dialed; and what  *)
(* a user may still take at once is what is left of the allowance.          *)
LimiterOwned ==
  /\ \A c \in Conn :
       /\ Open(c) => perIP[SourceIP[c]] # NoLimiter
       /\ phase[c] \in {"new", "dialing"} => refs[c] = 0
  /\ \A i \in IP : perIP[i] # NoLimiter =>
       /\ SourceIP[perIP[i]] = i
       /\ phase[perIP[i]] \in {"open", "closed"}

CreditCovered ==
  \A i \in IP, d \in Dir :
    IF perIP[i] = NoLimiter THEN level[i][d] <= burst * created[i]
    ELSE /\ created[i] >= 1
         /\ level[i][d] + Refilled(bucket[perIP[i]][d]).tokens <= burst * created[i]

LimiterInv == LimiterShared /\ LimiterOwned
CapInv == LimiterInv /\ CreditCovered

(* No handler waits for ever: every connection whose backend answers is     *)
(* eventually closed and gives its limiter back (chunks never exceed the    *)
(* burst, so WaitN ends; halfClose passes the end of a stream on).          *)
HandlersEnd == \A c \in Conn : Open(c) ~> phase[c] = "closed"
=============================================================================
