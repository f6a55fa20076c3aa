------------------------ MODULE DomainPolicyProofs -------------------------
(***************************************************************************)
(* What DomainPolicy promises, proved for every set of clients, filters,   *)
(* lists and downloads.  Three inductions carry it, each over the turns of *)
(* a loop of appends (Routing's Appended): that the rules of all users     *)
(* give a user only the user's own answer (UsersRules), and that a loop    *)
(* which keeps some of its elements keeps them one by one (KeptOneByOne),  *)
(* which says both that the filters are one for each client and that       *)
(* removing a client keeps the others.  They rest on LoopExists: the       *)
(* function a loop is defined by exists.                                   *)
(*                                                                         *)
(* DomainInv is inductive.  Its part Running ties what xray runs with to   *)
(* the configuration in force, which no property says by itself and both   *)
(* RoutesMean and Isolated need.                                           *)
(***************************************************************************)
EXTENDS DomainPolicy, SequenceTheorems, WellFoundedInduction, TLAPS

(* Induction over the natural numbers, for a set of them.                   *)
LEMMA NumberInduction ==
  ASSUME NEW T \in SUBSET Nat, 0 \in T, \A n \in T : n + 1 \in T
  PROVE  T = Nat
<1> DEFINE R == {ss \in Nat \X Nat : ss[1] < ss[2]}
           Bad == Nat \ T
<1> SUFFICES ASSUME Bad # {} PROVE FALSE
  OBVIOUS
<1>1. IsWellFoundedOn(R, Nat)
  BY NatLessThanWellFounded DEF OpToRel
<1> HIDE DEF R
<1>2. \E n \in Bad : \A k \in Bad : ~ (<<k, n>> \in R)
  <2> HIDE DEF Bad
  <2>1. Bad \subseteq Nat
    BY DEF Bad
  <2>2. QED
    BY <1>1, <2>1, WFMin
<1>3. PICK m \in Bad : \A k \in Bad : ~ (<<k, m>> \in R)
  BY <1>2
<1>4. m \in Nat /\ m # 0
  OBVIOUS
<1>5. <<m - 1, m>> \in R
  BY <1>4 DEF R
<1>6. m - 1 \in T
  BY <1>3, <1>4, <1>5
<1>7. QED
  BY <1>4, <1>6

(* A set of numbers that is not empty has a least one, and Min is it. *)
LEMMA MinIsLeast ==
  ASSUME NEW S \in SUBSET Nat, S # {}
  PROVE  Min(S) \in S /\ \A k \in S : Min(S) <= k
<1> DEFINE R == {ss \in Nat \X Nat : ss[1] < ss[2]}
<1>1. IsWellFoundedOn(R, Nat)
  BY NatLessThanWellFounded DEF OpToRel
<1> HIDE DEF R
<1>2. \E n \in S : \A k \in S : ~ (<<k, n>> \in R)
  BY <1>1, WFMin
<1>3. \A n, k \in S : k < n => <<k, n>> \in R
  BY DEF R
<1>4. \A n, k \in S : n <= k \/ k < n
  OBVIOUS
<1>5. \E n \in S : \A k \in S : n <= k
  BY <1>2, <1>3, <1>4
<1>6. QED
  BY <1>5, Zenon DEF Min

(* A loop's values: from v on, turn i takes what turn i - 1 left to F[i] of  *)
(* it.                                                                       *)
Turns(N, V) == [1..N -> [V -> V]]
Loop(N, V, v, F, g) ==
  g \in [0..N -> V] /\ g[0] = v /\ \A i \in 1..N : g[i] = F[i][g[i - 1]]

(* There is such a function (Right(g, n): it is right up to turn n).         *)
LEMMA LoopExists ==
  ASSUME NEW V, NEW N \in Nat, NEW v \in V, NEW F \in Turns(N, V)
  PROVE  \E g : Loop(N, V, v, F, g)
<1> DEFINE G == [0..N -> V]
           Right(g, n) == g[0] = v /\ \A i \in 1..N : i <= n => g[i] = F[i][g[i - 1]]
           T == {n \in Nat : n <= N => \E g \in G : Right(g, n)}
<1> USE DEF Turns
<1>1. 0 \in T
  <2> DEFINE g == [i \in 0..N |-> v]
  <2>1. g \in G /\ Right(g, 0)
    OBVIOUS
  <2>2. QED
    BY <2>1
<1>2. ASSUME NEW n \in T PROVE n + 1 \in T
  <2>0. n \in Nat
    OBVIOUS
  <2>1. SUFFICES ASSUME n + 1 <= N PROVE \E g \in G : Right(g, n + 1)
    BY <2>0
  <2>2. PICK g \in G : Right(g, n)
    BY <2>0, <2>1
  <2> DEFINE w == F[n + 1][g[n]]
             h == [g EXCEPT ![n + 1] = w]
  <2>3. w \in V
    BY <2>0, <2>1
  <2> HIDE DEF w
  <2>4. h \in G
    BY <2>3
  <2>5. h[n + 1] = w /\ \A i \in 0..N : i # n + 1 => h[i] = g[i]
    BY <2>0, <2>1
  <2> HIDE DEF h
  <2>6. Right(h, n + 1)
    <3>1. h[0] = v
      BY <2>0, <2>1, <2>2, <2>5
    <3>2. ASSUME NEW i \in 1..N, i <= n + 1 PROVE h[i] = F[i][h[i - 1]]
      <4>1. h[i - 1] = g[i - 1]
        BY <2>0, <2>5, <3>2
      <4>2. CASE i = n + 1
        BY <2>0, <2>5, <4>1, <4>2 DEF w
      <4>3. CASE i # n + 1
        BY <2>0, <2>2, <2>5, <3>2, <4>1, <4>3
      <4>4. QED
        BY <4>2, <4>3
    <3>3. QED
      BY <3>1, <3>2
  <2>7. QED
    BY <2>4, <2>6
<1>3. T = Nat
  <2> HIDE DEF T
  <2>1. T \in SUBSET Nat
    BY DEF T
  <2>2. QED
    BY <1>1, <1>2, <2>1, NumberInduction
<1>4. N \in T
  BY <1>3
<1>5. PICK g \in G : Right(g, N)
  BY <1>4
<1>6. Loop(N, V, v, F, g)
  BY <1>5 DEF Loop
<1>7. QED
  BY <1>6

---------------------------------------------------------------------------
(* The loop of appends (Routing's Appended).                               *)

AfterTurn(turns, g, i) == IF i = 0 THEN <<>> ELSE g[i - 1] \o turns[i]
After(turns) == CHOOSE g : g = [i \in 0..Len(turns) |-> AfterTurn(turns, g, i)]

LEMMA AppendedIsAfter == \A turns : Appended(turns) = After(turns)[Len(turns)]
  BY DEF Appended, After, AfterTurn

(* The function it is defined by, turn by turn. *)
LEMMA AfterTurns ==
  ASSUME NEW S, NEW turns \in Seq(Seq(S))
  PROVE  /\ After(turns)[0] = <<>>
         /\ \A i \in 1..Len(turns) : After(turns)[i] = After(turns)[i - 1] \o turns[i]
         /\ \A i \in 0..Len(turns) : After(turns)[i] \in Seq(S)
<1> DEFINE N == Len(turns)
           V == Seq(S)
           F == [i \in 1..N |-> [s \in V |-> s \o turns[i]]]
<1>1. N \in Nat /\ <<>> \in V /\ \A i \in 1..N : turns[i] \in V
  OBVIOUS
<1>2. \A i \in 1..N : \A s \in V : s \o turns[i] \in V
  BY <1>1
<1> HIDE DEF N, V
<1>3. F \in Turns(N, V)
  BY <1>2 DEF Turns
<1> HIDE DEF F
<1>4. PICK g : Loop(N, V, <<>>, F, g)
  BY <1>1, <1>3, LoopExists
<1>5. \A i \in 1..N : i - 1 \in 0..N /\ g[i] = g[i - 1] \o turns[i]
  <2>1. ASSUME NEW i \in 1..N PROVE i - 1 \in 0..N /\ g[i] = g[i - 1] \o turns[i]
    <3>1. i - 1 \in 0..N /\ g[i - 1] \in V
      BY <1>1, <1>4 DEF Loop
    <3>2. F[i][g[i - 1]] = g[i - 1] \o turns[i]
      BY <3>1 DEF F
    <3>3. QED
      BY <1>4, <3>1, <3>2 DEF Loop
  <2>2. QED
    BY <2>1
<1>6. \A i \in 0..N : i # 0 => i \in 1..N
  BY <1>1
<1>7. g = [i \in 0..N |-> AfterTurn(turns, g, i)]
  BY <1>4, <1>5, <1>6 DEF AfterTurn, Loop
<1>8. After(turns) = [i \in 0..N |-> AfterTurn(turns, After(turns), i)]
  BY <1>7 DEF After, N
<1>9. \A h : h = [i \in 0..N |-> AfterTurn(turns, h, i)]
              => h[0] = <<>> /\ \A i \in 1..N : h[i] = h[i - 1] \o turns[i]
  BY <1>1 DEF AfterTurn
<1> DEFINE a == After(turns)
<1>10. a[0] = <<>> /\ \A i \in 1..N : a[i] = a[i - 1] \o turns[i]
  BY <1>8, <1>9
<1> HIDE DEF a
<1> DEFINE T == {n \in Nat : n <= N => a[n] \in V}
<1>11. 0 \in T
  BY <1>1, <1>10
<1>12. ASSUME NEW n \in T PROVE n + 1 \in T
  <2>0. n \in Nat
    OBVIOUS
  <2>1. ASSUME n + 1 <= N PROVE a[n + 1] \in V
    <3>1. a[n] \in V /\ n + 1 \in 1..N /\ (n + 1) - 1 = n
      BY <1>1, <2>0, <2>1
    <3>2. a[n + 1] = a[n] \o turns[n + 1]
      BY <1>10, <3>1
    <3>3. QED
      BY <1>2, <3>1, <3>2
  <2>2. QED
    BY <2>0, <2>1
<1>13. T = Nat
  <2> HIDE DEF T
  <2>1. T \in SUBSET Nat
    BY DEF T
  <2>2. QED
    BY <1>11, <1>12, <2>1, NumberInduction
<1>14. \A i \in 0..N : a[i] \in V
  BY <1>1, <1>13
<1>15. QED
  BY <1>10, <1>14 DEF a, N, V

---------------------------------------------------------------------------
(* The first rule that matches.                                            *)

Rule == [user : SUBSET Client, kind : {"bittorrent", "domain", "ip", "network"},
         of : SUBSET Token, to : {"block", "direct"}]

NoneMatch(rules, u, conn, b) == \A i \in 1..Len(rules) : ~ Matches(rules[i], u, conn, b)
FirstMatch(rules, u, conn, b, k) ==
  /\ k \in 1..Len(rules) /\ Matches(rules[k], u, conn, b)
  /\ \A i \in 1..Len(rules) : i < k => ~ Matches(rules[i], u, conn, b)

LEMMA FirstToIs ==
  ASSUME NEW rules \in Seq(Rule), NEW u, NEW conn, NEW b
  PROVE  /\ NoneMatch(rules, u, conn, b) => FirstTo(rules, u, conn, b) = "pass"
         /\ \A k : FirstMatch(rules, u, conn, b, k) => FirstTo(rules, u, conn, b) = rules[k].to
         /\ NoneMatch(rules, u, conn, b) \/ \E k : FirstMatch(rules, u, conn, b, k)
<1> DEFINE hits == {i \in DOMAIN rules : Matches(rules[i], u, conn, b)}
<1>1. /\ DOMAIN rules = 1..Len(rules) /\ Len(rules) \in Nat
      /\ FirstTo(rules, u, conn, b) = IF hits = {} THEN "pass" ELSE rules[Min(hits)].to
  BY DEF FirstTo
<1>2. hits \in SUBSET Nat /\ \A i : i \in hits <=> i \in 1..Len(rules) /\ Matches(rules[i], u, conn, b)
  BY <1>1
<1> HIDE DEF hits
<1>3. NoneMatch(rules, u, conn, b) <=> hits = {}
  BY <1>2 DEF NoneMatch
<1>4. hits # {} => Min(hits) \in hits /\ \A k \in hits : Min(hits) <= k
  BY <1>2, MinIsLeast
<1>5. hits # {} => FirstMatch(rules, u, conn, b, Min(hits))
  BY <1>2, <1>4 DEF FirstMatch
<1>6. \A k : FirstMatch(rules, u, conn, b, k) => hits # {} /\ k = Min(hits)
  <2>1. ASSUME NEW k, FirstMatch(rules, u, conn, b, k) PROVE hits # {} /\ k = Min(hits)
    <3>1. k \in hits /\ \A i \in hits : ~ (i < k)
      BY <1>2, <2>1 DEF FirstMatch
    <3>2. Min(hits) \in hits /\ Min(hits) <= k
      BY <1>4, <3>1
    <3>3. QED
      BY <1>2, <3>1, <3>2
  <2>2. QED
    BY <2>1
<1>7. QED
  BY <1>1, <1>3, <1>5, <1>6

LEMMA FirstToConcat ==
  ASSUME NEW s \in Seq(Rule), NEW t \in Seq(Rule), NEW u, NEW conn, NEW b
  PROVE  FirstTo(s \o t, u, conn, b) = IF FirstTo(s, u, conn, b) # "pass"
                                       THEN FirstTo(s, u, conn, b) ELSE FirstTo(t, u, conn, b)
<1> DEFINE st == s \o t
<1>1. /\ st \in Seq(Rule) /\ Len(st) = Len(s) + Len(t) /\ Len(s) \in Nat /\ Len(t) \in Nat
      /\ \A i \in 1..Len(s) : st[i] = s[i]
      /\ \A i \in 1..Len(t) : st[Len(s) + i] = t[i]
  OBVIOUS
<1> HIDE DEF st
<1>2. \A r \in Rule : r.to # "pass"
  BY DEF Rule
<1>3. ASSUME NEW k, FirstMatch(s, u, conn, b, k)
      PROVE  FirstTo(st, u, conn, b) = FirstTo(s, u, conn, b) /\ FirstTo(s, u, conn, b) # "pass"
  <2>1. FirstMatch(st, u, conn, b, k) /\ st[k] = s[k] /\ s[k] \in Rule
    BY <1>1, <1>3 DEF FirstMatch
  <2>2. FirstTo(st, u, conn, b) = st[k].to
    BY <1>1, <2>1, FirstToIs
  <2>3. FirstTo(s, u, conn, b) = s[k].to
    BY <1>3, FirstToIs
  <2>4. QED
    BY <1>2, <2>1, <2>2, <2>3
<1>4. ASSUME NoneMatch(s, u, conn, b), NEW k, FirstMatch(t, u, conn, b, k)
      PROVE  FirstTo(st, u, conn, b) = FirstTo(t, u, conn, b)
  <2>1. k \in 1..Len(t) /\ st[Len(s) + k] = t[k]
    BY <1>1, <1>4 DEF FirstMatch
  <2>2. ASSUME NEW i \in 1..Len(st), i < Len(s) + k PROVE ~ Matches(st[i], u, conn, b)
    <3>1. CASE i <= Len(s)
      BY <1>1, <1>4, <3>1 DEF NoneMatch
    <3>2. CASE i > Len(s)
      <4> DEFINE j == i - Len(s)
      <4>1. j \in 1..Len(t) /\ j < k /\ i = Len(s) + j
        BY <1>1, <2>1, <2>2, <3>2
      <4> HIDE DEF j
      <4>2. QED
        BY <1>1, <1>4, <4>1 DEF FirstMatch
    <3>3. QED
      BY <1>1, <3>1, <3>2
  <2>3. FirstMatch(st, u, conn, b, Len(s) + k)
    BY <1>1, <1>4, <2>1, <2>2 DEF FirstMatch
  <2>4. FirstTo(st, u, conn, b) = st[Len(s) + k].to
    BY <1>1, <2>3, FirstToIs
  <2>5. FirstTo(t, u, conn, b) = t[k].to
    BY <1>4, FirstToIs
  <2>6. QED
    BY <2>1, <2>4, <2>5
<1>5. ASSUME NoneMatch(s, u, conn, b), NoneMatch(t, u, conn, b)
      PROVE  FirstTo(st, u, conn, b) = "pass" /\ FirstTo(t, u, conn, b) = "pass"
  <2>1. ASSUME NEW i \in 1..Len(st) PROVE ~ Matches(st[i], u, conn, b)
    <3>1. CASE i <= Len(s)
      BY <1>1, <1>5, <3>1 DEF NoneMatch
    <3>2. CASE i > Len(s)
      <4> DEFINE j == i - Len(s)
      <4>1. j \in 1..Len(t) /\ i = Len(s) + j
        BY <1>1, <3>2
      <4> HIDE DEF j
      <4>2. QED
        BY <1>1, <1>5, <4>1 DEF NoneMatch
    <3>3. QED
      BY <1>1, <3>1, <3>2
  <2>2. NoneMatch(st, u, conn, b)
    BY <2>1 DEF NoneMatch
  <2>3. QED
    BY <1>1, <1>5, <2>2, FirstToIs
<1>6. NoneMatch(s, u, conn, b) => FirstTo(s, u, conn, b) = "pass"
  BY FirstToIs
<1>7. QED
  <2>1. CASE \E k : FirstMatch(s, u, conn, b, k)
    BY <1>3, <2>1 DEF st
  <2>2. CASE NoneMatch(s, u, conn, b)
    <3>1. FirstTo(st, u, conn, b) = FirstTo(t, u, conn, b)
      BY <1>4, <1>5, <2>2, FirstToIs
    <3>2. QED
      BY <1>6, <2>2, <3>1 DEF st
  <2>3. QED
    BY <2>1, <2>2, FirstToIs

LEMMA FirstToOfOne ==
  ASSUME NEW r \in Rule, NEW u, NEW conn, NEW b
  PROVE  /\ <<r>> \in Seq(Rule)
         /\ FirstTo(<<r>>, u, conn, b) = IF Matches(r, u, conn, b) THEN r.to ELSE "pass"
<1> DEFINE s == <<r>>
<1>1. s \in Seq(Rule) /\ Len(s) = 1 /\ s[1] = r
  OBVIOUS
<1> HIDE DEF s
<1>2. CASE Matches(r, u, conn, b)
  <2>1. FirstMatch(s, u, conn, b, 1)
    BY <1>1, <1>2 DEF FirstMatch
  <2>2. FirstTo(s, u, conn, b) = s[1].to
    BY <1>1, <2>1, FirstToIs
  <2>3. QED
    BY <1>1, <1>2, <2>2 DEF s
<1>3. CASE ~ Matches(r, u, conn, b)
  <2>1. NoneMatch(s, u, conn, b)
    BY <1>1, <1>3 DEF NoneMatch
  <2>2. FirstTo(s, u, conn, b) = "pass"
    BY <1>1, <2>1, FirstToIs
  <2>3. QED
    BY <1>1, <1>3, <2>2 DEF s
<1>4. QED
  BY <1>2, <1>3

LEMMA FirstToOfNone ==
  ASSUME NEW u, NEW conn, NEW b
  PROVE  <<>> \in Seq(Rule) /\ FirstTo(<<>>, u, conn, b) = "pass"
<1> DEFINE s == <<>>
<1>1. s \in Seq(Rule) /\ Len(s) = 0
  OBVIOUS
<1>2. NoneMatch(s, u, conn, b)
  BY DEF NoneMatch
<1> HIDE DEF s
<1>3. FirstTo(s, u, conn, b) = "pass"
  BY <1>1, <1>2, FirstToIs
<1>4. QED
  BY <1>1, <1>3 DEF s

---------------------------------------------------------------------------
(* One user's rules, and all users'.                                       *)

PolicyRow == [email : Client, mode : {"blacklist", "whitelist"}, tokens : (SUBSET Token) \ {{}}]

(* What userDomainRules makes of its user's connection, rule by rule. *)
OwnTo(p, conn, b) ==
  LET to == IF p.mode = "blacklist" THEN "block" ELSE "direct" IN
  IF conn.names \cap Domains(p.tokens) # {} THEN to
  ELSE IF (conn.by = "ip" \/ b) /\ conn.net \in IPs(p.tokens) THEN to
  ELSE IF p.mode = "whitelist" THEN "block" ELSE "pass"

LEMMA UserRules ==
  ASSUME NEW p \in PolicyRow, NEW u \in Client, NEW conn \in Connection, NEW b \in BOOLEAN
  PROVE  /\ userDomainRules(p) \in Seq(Rule)
         /\ FirstTo(userDomainRules(p), u, conn, b) =
              IF p.email = u THEN OwnTo(p, conn, b) ELSE "pass"
<1> DEFINE D == Domains(p.tokens)
           I == IPs(p.tokens)
           to == IF p.mode = "blacklist" THEN "block" ELSE "direct"
           rd == rule({p.email}, "domain", D, to)
           ri == rule({p.email}, "ip", I, to)
           rn == rule({p.email}, "network", {}, "block")
           sd == When(D # {}, rd)
           si == When(I # {}, ri)
           sn == When(p.mode = "whitelist", rn)
<1>1. /\ p.email \in Client /\ p.tokens \in SUBSET Token /\ p.tokens # {}
      /\ p.mode \in {"blacklist", "whitelist"}
  BY DEF PolicyRow
<1>2. D \in SUBSET Token /\ I \in SUBSET Token /\ ~ (D = {} /\ I = {})
  BY <1>1 DEF Domains, IPs, Token
<1>3. userDomainRules(p) = sd \o si \o sn
  BY <1>2 DEF userDomainRules
<1>4. to \in {"block", "direct"} /\ to # "pass"
  OBVIOUS
<1> HIDE DEF to, D, I
<1>5. rd \in Rule /\ ri \in Rule /\ rn \in Rule
  BY <1>1, <1>2, <1>4 DEF rule, Rule
<1>6. /\ Matches(rd, u, conn, b) <=> p.email = u /\ conn.names \cap D # {}
      /\ Matches(ri, u, conn, b) <=> p.email = u /\ (conn.by = "ip" \/ b) /\ conn.net \in I
      /\ Matches(rn, u, conn, b) <=> p.email = u
      /\ rd.to = to /\ ri.to = to /\ rn.to = "block"
  BY DEF Matches, rule
<1> HIDE DEF rd, ri, rn
<1>7. /\ sd \in Seq(Rule) /\ si \in Seq(Rule) /\ sn \in Seq(Rule)
      /\ FirstTo(sd, u, conn, b) = IF D # {} /\ Matches(rd, u, conn, b) THEN to ELSE "pass"
      /\ FirstTo(si, u, conn, b) = IF I # {} /\ Matches(ri, u, conn, b) THEN to ELSE "pass"
      /\ FirstTo(sn, u, conn, b) =
           IF p.mode = "whitelist" /\ Matches(rn, u, conn, b) THEN "block" ELSE "pass"
  <2>1. sd = (IF D # {} THEN <<rd>> ELSE <<>>) /\ si = (IF I # {} THEN <<ri>> ELSE <<>>)
        /\ sn = (IF p.mode = "whitelist" THEN <<rn>> ELSE <<>>)
    BY DEF When
  <2>2. /\ <<rd>> \in Seq(Rule) /\ <<ri>> \in Seq(Rule) /\ <<rn>> \in Seq(Rule)
        /\ FirstTo(<<rd>>, u, conn, b) = IF Matches(rd, u, conn, b) THEN to ELSE "pass"
        /\ FirstTo(<<ri>>, u, conn, b) = IF Matches(ri, u, conn, b) THEN to ELSE "pass"
        /\ FirstTo(<<rn>>, u, conn, b) = IF Matches(rn, u, conn, b) THEN "block" ELSE "pass"
    BY <1>5, <1>6, FirstToOfOne
  <2>3. <<>> \in Seq(Rule) /\ FirstTo(<<>>, u, conn, b) = "pass"
    BY FirstToOfNone
  <2> HIDE DEF sd, si, sn
  <2>4. QED
    BY <2>1, <2>2, <2>3, Zenon
<1> DEFINE s2 == sd \o si
<1> HIDE DEF sd, si, sn
<1>8. s2 \in Seq(Rule)
  BY <1>7
<1>9. FirstTo(s2, u, conn, b) =
        IF FirstTo(sd, u, conn, b) # "pass" THEN FirstTo(sd, u, conn, b) ELSE FirstTo(si, u, conn, b)
  BY <1>7, FirstToConcat
<1>parts. userDomainRules(p) = s2 \o sn
  BY <1>3
<1> HIDE DEF s2
<1>10. FirstTo(s2 \o sn, u, conn, b) =
         IF FirstTo(s2, u, conn, b) # "pass" THEN FirstTo(s2, u, conn, b)
         ELSE FirstTo(sn, u, conn, b)
  BY <1>7, <1>8, FirstToConcat
<1>typed. s2 \o sn \in Seq(Rule)
  BY <1>7, <1>8
<1>11. OwnTo(p, conn, b) = IF conn.names \cap D # {} THEN to
                           ELSE IF (conn.by = "ip" \/ b) /\ conn.net \in I THEN to
                           ELSE IF p.mode = "whitelist" THEN "block" ELSE "pass"
  BY DEF OwnTo, D, I, to
<1>12. QED
  <2>1. (conn.names \cap D # {} => D # {}) /\ (conn.net \in I => I # {})
    OBVIOUS
  <2>2. QED
    BY <1>parts, <1>4, <1>6, <1>7, <1>9, <1>10, <1>typed, <1>11, <2>1

Unique(policies) ==
  \A i, j \in 1..Len(policies) : policies[i].email = policies[j].email => i = j

(* In the rules of all users, in whatever order, a user meets only the user's *)
(* own: the others' are scoped to them (userDomainRules' User field).         *)
LEMMA UsersRules ==
  ASSUME NEW policies \in Seq(PolicyRow), Unique(policies),
         NEW u \in Client, NEW conn \in Connection, NEW b \in BOOLEAN
  PROVE  LET all == Appended([i \in DOMAIN policies |-> userDomainRules(policies[i])]) IN
         /\ all \in Seq(Rule)
         /\ \A i \in 1..Len(policies) : policies[i].email = u =>
              FirstTo(all, u, conn, b) = OwnTo(policies[i], conn, b)
         /\ (\A i \in 1..Len(policies) : policies[i].email # u) =>
              FirstTo(all, u, conn, b) = "pass"
<1> DEFINE turns == [i \in DOMAIN policies |-> userDomainRules(policies[i])]
           a == After(turns)
           N == Len(policies)
           First(n) == FirstTo(a[n], u, conn, b)
           T == {n \in Nat : n <= N =>
                   /\ \A i \in 1..n : policies[i].email = u => First(n) = OwnTo(policies[i], conn, b)
                   /\ (\A i \in 1..n : policies[i].email # u) => First(n) = "pass"}
<1>1. N \in Nat /\ DOMAIN policies = 1..N /\ \A i \in 1..N : policies[i] \in PolicyRow
  OBVIOUS
<1>2. turns \in Seq(Seq(Rule)) /\ Len(turns) = N /\ \A i \in 1..N : turns[i] = userDomainRules(policies[i])
  <2>1. \A i \in 1..N : userDomainRules(policies[i]) \in Seq(Rule)
    BY <1>1, UserRules
  <2>2. QED
    BY <1>1, <2>1
<1> HIDE DEF turns
<1>3. /\ a[0] = <<>> /\ \A i \in 1..N : a[i] = a[i - 1] \o turns[i]
      /\ \A i \in 0..N : a[i] \in Seq(Rule)
  BY <1>2, AfterTurns
<1>4. Appended(turns) = a[N]
  BY <1>2, AppendedIsAfter
<1> HIDE DEF a, N
<1>5. 0 \in T
  <2>1. First(0) = "pass"
    BY <1>3, FirstToOfNone
  <2>2. QED
    BY <1>1, <2>1
<1>6. ASSUME NEW n \in T PROVE n + 1 \in T
  <2>0. n \in Nat
    OBVIOUS
  <2>1. ASSUME n + 1 <= N
        PROVE  /\ \A i \in 1..(n + 1) : policies[i].email = u => First(n + 1) = OwnTo(policies[i], conn, b)
               /\ (\A i \in 1..(n + 1) : policies[i].email # u) => First(n + 1) = "pass"
    <3> DEFINE m == n + 1
    <3>1. m \in 1..N /\ n \in 0..N /\ m - 1 = n /\ n <= N
      BY <1>1, <2>0, <2>1
    <3>2. /\ \A i \in 1..n : policies[i].email = u => First(n) = OwnTo(policies[i], conn, b)
          /\ (\A i \in 1..n : policies[i].email # u) => First(n) = "pass"
      BY <3>1
    <3>upTo. \A i \in 1..m : i \in 1..n \/ i = m
      BY <2>0
    <3> HIDE DEF m
    <3>3. a[m] = a[n] \o turns[m] /\ a[n] \in Seq(Rule) /\ turns[m] \in Seq(Rule)
      <4>1. a[m] = a[m - 1] \o turns[m] /\ a[n] \in Seq(Rule)
        BY <1>3, <3>1
      <4>2. turns[m] \in Seq(Rule)
        BY <1>2, <3>1
      <4>3. QED
        BY <3>1, <4>1, <4>2
    <3>4. First(m) = IF First(n) # "pass" THEN First(n) ELSE FirstTo(turns[m], u, conn, b)
      BY <3>3, FirstToConcat
    <3>5. policies[m] \in PolicyRow /\ turns[m] = userDomainRules(policies[m])
      BY <1>1, <1>2, <3>1
    <3>6. FirstTo(turns[m], u, conn, b) =
            IF policies[m].email = u THEN OwnTo(policies[m], conn, b) ELSE "pass"
      BY <3>5, UserRules
    <3>7. CASE policies[m].email = u
      <4>1. \A i \in 1..n : policies[i].email # u
        BY <1>1, <2>0, <3>1, <3>7 DEF Unique, N, m
      <4>2. First(m) = OwnTo(policies[m], conn, b)
        BY <3>2, <3>4, <3>6, <3>7, <4>1
      <4>3. \A i \in 1..m : policies[i].email = u => i = m
        BY <3>upTo, <4>1
      <4>4. m \in 1..m
        BY <2>0 DEF m
      <4>5. QED
        BY <3>7, <4>2, <4>3, <4>4 DEF m
    <3>8. CASE policies[m].email # u
      <4>1. First(m) = First(n)
        BY <3>4, <3>6, <3>8
      <4>2. \A i \in 1..m : policies[i].email = u => i \in 1..n
        BY <3>upTo, <3>8
      <4>3. \A i \in 1..n : i \in 1..m
        BY <2>0 DEF m
      <4>4. QED
        BY <3>2, <4>1, <4>2, <4>3 DEF m
    <3>9. QED
      BY <3>7, <3>8
  <2>2. QED
    BY <2>0, <2>1
<1>7. T = Nat
  <2> HIDE DEF T
  <2>1. T \in SUBSET Nat
    BY DEF T
  <2>2. QED
    BY <1>5, <1>6, <2>1, NumberInduction
<1>8. N \in T
  BY <1>1, <1>7
<1>9. /\ \A i \in 1..N : policies[i].email = u => First(N) = OwnTo(policies[i], conn, b)
      /\ (\A i \in 1..N : policies[i].email # u) => First(N) = "pass"
  BY <1>1, <1>8
<1>10. a[N] \in Seq(Rule)
  BY <1>1, <1>3
<1>11. QED
  BY <1>4, <1>9, <1>10 DEF turns, N

---------------------------------------------------------------------------
(* A loop that keeps some of the elements, one turn each.                  *)

(* What came of the turns: each element from a turn of its own, in order of *)
(* none but the turns, and nothing of a turn that added something lost.     *)
From(turns, s, n) ==
  /\ \A k \in 1..Len(s) : \E i \in 1..n : Len(turns[i]) = 1 /\ s[k] = turns[i][1]
  /\ \A i \in 1..n : Len(turns[i]) = 1 => \E k \in 1..Len(s) : s[k] = turns[i][1]
Distinct(key, turns) ==
  \A i, j \in 1..Len(turns) : Len(turns[i]) = 1 /\ Len(turns[j]) = 1
                              /\ key[turns[i][1]] = key[turns[j][1]] => i = j

LEMMA KeptOneByOne ==
  ASSUME NEW S, NEW turns \in Seq(Seq(S)), NEW key,
         \A i \in 1..Len(turns) : Len(turns[i]) \in {0, 1}
  PROVE  /\ Appended(turns) \in Seq(S)
         /\ From(turns, Appended(turns), Len(turns))
         /\ Distinct(key, turns) => \A k, l \in 1..Len(Appended(turns)) :
              key[Appended(turns)[k]] = key[Appended(turns)[l]] => k = l
<1> DEFINE N == Len(turns)
           a == After(turns)
           Apart(n) == Distinct(key, turns) =>
                         \A k, l \in 1..Len(a[n]) : key[a[n][k]] = key[a[n][l]] => k = l
           T == {n \in Nat : n <= N => From(turns, a[n], n) /\ Apart(n)}
<1>1. N \in Nat /\ \A i \in 1..N : turns[i] \in Seq(S) /\ Len(turns[i]) \in {0, 1}
  OBVIOUS
<1>2. /\ a[0] = <<>> /\ \A i \in 1..N : a[i] = a[i - 1] \o turns[i]
      /\ \A i \in 0..N : a[i] \in Seq(S)
  BY AfterTurns
<1>3. Appended(turns) = a[N]
  BY AppendedIsAfter
<1> HIDE DEF a
<1>4. 0 \in T
  BY <1>2 DEF From
<1>turn. /\ a[0] = <<>> /\ \A i \in 1..N : a[i] = a[i - 1] \o turns[i]
       /\ \A i \in 0..N : a[i] \in Seq(S)
  BY <1>2
<1> HIDE DEF N
<1>5. ASSUME NEW n \in T PROVE n + 1 \in T
  <2>0. n \in Nat
    OBVIOUS
  <2>1. ASSUME n + 1 <= N PROVE From(turns, a[n + 1], n + 1) /\ Apart(n + 1)
    <3> DEFINE m == n + 1
               s == a[n]
               t == turns[m]
               st == a[m]
    <3>1. m \in 1..N /\ n \in 0..N /\ m - 1 = n /\ n <= N /\ m \in Nat
      BY <1>1, <2>0, <2>1
    <3>2. From(turns, s, n) /\ Apart(n)
      BY <3>1
    <3>3. \A i : i \in 1..m <=> i \in 1..n \/ i = m
      BY <2>0
    <3> HIDE DEF m
    <3>4. s \in Seq(S) /\ t \in Seq(S) /\ Len(t) \in {0, 1} /\ st = s \o t
      <4>1. a[m] = a[m - 1] \o turns[m] /\ a[n] \in Seq(S)
        BY <1>turn, <3>1
      <4>2. turns[m] \in Seq(S) /\ Len(turns[m]) \in {0, 1}
        BY <1>1, <3>1
      <4>3. QED
        BY <3>1, <4>1, <4>2
    <3>5. n <= N /\ \A i \in 1..n : i \in 1..N /\ i # m
      BY <1>1, <2>0, <3>1 DEF m
    <3> HIDE DEF s, t, st
    <3>6. CASE Len(t) = 0
      <4>1. st = s
        BY <3>4, <3>6
      <4>2. From(turns, s, m)
        <5>1. ASSUME NEW k \in 1..Len(s)
              PROVE  \E i \in 1..m : Len(turns[i]) = 1 /\ s[k] = turns[i][1]
          <6>1. PICK i \in 1..n : Len(turns[i]) = 1 /\ s[k] = turns[i][1]
            BY <3>2 DEF From
          <6>2. i \in 1..m
            BY <3>3
          <6>3. QED
            BY <6>1, <6>2
        <5>2. ASSUME NEW i \in 1..m, Len(turns[i]) = 1
              PROVE  \E k \in 1..Len(s) : s[k] = turns[i][1]
          <6>1. i # m
            <7>1. Len(turns[m]) = 0
              BY <3>6 DEF t
            <7>2. 0 # 1
              OBVIOUS
            <7>3. QED
              BY <5>2, <7>1, <7>2, Zenon
          <6>2. i \in 1..n
            BY <3>3, <6>1
          <6>3. QED
            BY <3>2, <5>2, <6>2 DEF From
        <5>3. QED
          BY <5>1, <5>2 DEF From
      <4>3. Apart(m)
        BY <3>2, <4>1 DEF s, st
      <4>4. QED
        BY <4>1, <4>2, <4>3 DEF m, st
    <3>7. CASE Len(t) = 1
      <4>1. /\ Len(s) \in Nat /\ Len(st) = Len(s) + 1 /\ st[Len(s) + 1] = t[1]
            /\ \A k \in 1..Len(s) : st[k] = s[k]
        <5>1. Len(s) \in Nat /\ Len(st) = Len(s) + Len(t)
          BY <3>4
        <5>2. \A k \in 1..Len(s) + Len(t) : st[k] = IF k <= Len(s) THEN s[k] ELSE t[k - Len(s)]
          BY <3>4, ConcatProperties
        <5>3. QED
          BY <3>7, <5>1, <5>2
      <4>2. \A k : k \in 1..Len(st) <=> k \in 1..Len(s) \/ k = Len(s) + 1
        BY <4>1
      <4>3. From(turns, st, m)
        <5>1. ASSUME NEW k \in 1..Len(st)
              PROVE  \E i \in 1..m : Len(turns[i]) = 1 /\ st[k] = turns[i][1]
          <6>1. CASE k \in 1..Len(s)
            <7>1. PICK i \in 1..n : Len(turns[i]) = 1 /\ s[k] = turns[i][1]
              BY <3>2, <6>1 DEF From
            <7>2. i \in 1..m /\ st[k] = s[k]
              BY <3>3, <4>1, <6>1
            <7>3. QED
              BY <7>1, <7>2
          <6>2. CASE k = Len(s) + 1
            BY <3>3, <3>7, <4>1, <6>2 DEF t
          <6>3. QED
            BY <4>2, <6>1, <6>2
        <5>2. ASSUME NEW i \in 1..m, Len(turns[i]) = 1
              PROVE  \E k \in 1..Len(st) : st[k] = turns[i][1]
          <6>1. CASE i \in 1..n
            BY <3>2, <4>1, <4>2, <5>2, <6>1 DEF From
          <6>2. CASE i = m
            BY <4>1, <4>2, <6>2 DEF t
          <6>3. QED
            BY <3>3, <6>1, <6>2
        <5>3. QED
          BY <5>1, <5>2 DEF From
      <4>4. ASSUME Distinct(key, turns), NEW k \in 1..Len(st), NEW l \in 1..Len(st),
                   key[st[k]] = key[st[l]]
            PROVE  k = l
        <5>1. ASSUME NEW h \in 1..Len(s) PROVE key[s[h]] # key[t[1]]
          <6>1. PICK i \in 1..n : Len(turns[i]) = 1 /\ s[h] = turns[i][1]
            BY <3>2 DEF From
          <6>2. i \in 1..N /\ m \in 1..N /\ i # m
            BY <3>1, <3>5
          <6>3. QED
            BY <3>7, <4>4, <6>1, <6>2 DEF Distinct, t, N
        <5>2. CASE k \in 1..Len(s) /\ l \in 1..Len(s)
          <6>1. key[s[k]] = key[s[l]]
            BY <4>1, <4>4, <5>2
          <6>2. QED
            BY <3>2, <4>4, <5>2, <6>1 DEF s
        <5>3. CASE k \in 1..Len(s) /\ l = Len(s) + 1
          BY <4>1, <4>4, <5>1, <5>3
        <5>4. CASE k = Len(s) + 1 /\ l \in 1..Len(s)
          BY <4>1, <4>4, <5>1, <5>4
        <5>5. QED
          BY <4>2, <4>4, <5>2, <5>3, <5>4
      <4>5. Apart(m)
        BY <4>4 DEF st
      <4>6. QED
        BY <4>3, <4>5 DEF m, st
    <3>8. QED
      BY <3>4, <3>6, <3>7
  <2>2. QED
    BY <2>0, <2>1
<1>6. T = Nat
  <2> HIDE DEF T
  <2>1. T \in SUBSET Nat
    BY DEF T
  <2>2. QED
    BY <1>4, <1>5, <2>1, NumberInduction
<1>7. N \in T
  BY <1>1, <1>6
<1>8. From(turns, a[N], N) /\ Apart(N)
  BY <1>1, <1>7
<1>9. a[N] \in Seq(S)
  BY <1>1, <1>turn
<1>10. QED
  BY <1>3, <1>8, <1>9 DEF N

(* What the global blocks make of a connection, before any user's rules. *)
GlobalTo(blockBittorrent, blockPrivate, conn, b) ==
  IF blockBittorrent /\ conn.bittorrent THEN "block"
  ELSE IF blockPrivate /\ (conn.by = "ip" \/ b) /\ conn.net = "private" THEN "block"
  ELSE "pass"

Else(to, otherwise) == IF to # "pass" THEN to ELSE otherwise

(* The whole list of rules: the global blocks, then the user's own. *)
LEMMA AllRules ==
  ASSUME NEW policies \in Seq(PolicyRow), Unique(policies), NEW bb \in BOOLEAN, NEW bp \in BOOLEAN,
         NEW u \in Client, NEW conn \in Connection, NEW b \in BOOLEAN
  PROVE  LET to == FirstTo(Rules(bb, bp, policies), u, conn, b) IN
         /\ \A i \in 1..Len(policies) : policies[i].email = u =>
              to = Else(GlobalTo(bb, bp, conn, b), OwnTo(policies[i], conn, b))
         /\ (\A i \in 1..Len(policies) : policies[i].email # u) => to = GlobalTo(bb, bp, conn, b)
<1> DEFINE rt == rule({}, "bittorrent", {}, "block")
           rp == rule({}, "ip", {"private"}, "block")
           st == When(bb, rt)
           sp == When(bp, rp)
           all == Appended([i \in DOMAIN policies |-> userDomainRules(policies[i])])
           s2 == st \o sp
           First(s) == FirstTo(s, u, conn, b)
<1>1. /\ all \in Seq(Rule)
      /\ \A i \in 1..Len(policies) : policies[i].email = u => First(all) = OwnTo(policies[i], conn, b)
      /\ (\A i \in 1..Len(policies) : policies[i].email # u) => First(all) = "pass"
  BY UsersRules
<1>2. Rules(bb, bp, policies) = s2 \o all
  BY DEF Rules
<1> HIDE DEF all
<1>3. rt \in Rule /\ rp \in Rule
  BY DEF rule, Rule, Token
<1>4. /\ Matches(rt, u, conn, b) <=> conn.bittorrent
      /\ Matches(rp, u, conn, b) <=> (conn.by = "ip" \/ b) /\ conn.net = "private"
      /\ rt.to = "block" /\ rp.to = "block"
  BY DEF Matches, rule
<1> HIDE DEF rt, rp
<1>5. /\ st \in Seq(Rule) /\ sp \in Seq(Rule)
      /\ First(st) = IF bb /\ Matches(rt, u, conn, b) THEN "block" ELSE "pass"
      /\ First(sp) = IF bp /\ Matches(rp, u, conn, b) THEN "block" ELSE "pass"
  <2>1. /\ <<rt>> \in Seq(Rule) /\ <<rp>> \in Seq(Rule)
        /\ First(<<rt>>) = IF Matches(rt, u, conn, b) THEN "block" ELSE "pass"
        /\ First(<<rp>>) = IF Matches(rp, u, conn, b) THEN "block" ELSE "pass"
    BY <1>3, <1>4, FirstToOfOne
  <2>2. <<>> \in Seq(Rule) /\ First(<<>>) = "pass"
    BY FirstToOfNone
  <2>3. st = (IF bb THEN <<rt>> ELSE <<>>) /\ sp = (IF bp THEN <<rp>> ELSE <<>>)
    BY DEF When
  <2> HIDE DEF st, sp
  <2>4. QED
    BY <2>1, <2>2, <2>3, Zenon
<1> HIDE DEF st, sp
<1>6. s2 \in Seq(Rule) /\ First(s2) = Else(First(st), First(sp))
  BY <1>5, FirstToConcat DEF Else
<1> HIDE DEF s2
<1>7. First(s2 \o all) = Else(First(s2), First(all))
  BY <1>1, <1>6, FirstToConcat DEF Else
<1>8. First(s2) = GlobalTo(bb, bp, conn, b)
  BY <1>4, <1>5, <1>6 DEF Else, GlobalTo
<1>9. GlobalTo(bb, bp, conn, b) \in {"block", "pass"}
  BY DEF GlobalTo
<1>10. QED
  BY <1>1, <1>2, <1>7, <1>8, <1>9 DEF Else

---------------------------------------------------------------------------
(* Routes.                                                                 *)

(* xray's two passes, from what the global blocks and the user's own rules *)
(* make of each.                                                           *)
Passes(global, own, resolve) ==
  LET first == Else(global[FALSE], own[FALSE])
      second == Else(global[TRUE], own[TRUE])
  IN  IF first # "pass" THEN first ELSE IF resolve /\ second # "pass" THEN second ELSE "direct"

Global(c, conn) == [b \in BOOLEAN |-> GlobalTo(c.blockBittorrent, c.blockPrivate, conn, b)]
Own(p, conn) == [b \in BOOLEAN |-> OwnTo(p, conn, b)]
NoneOwn == [b \in BOOLEAN |-> "pass"]

ConfigRow == [clients : Seq(ClientRow), blockBittorrent : BOOLEAN, blockPrivate : BOOLEAN]

LEMMA RouteIsPasses ==
  ASSUME NEW c \in ConfigRow, NEW policies \in Seq(PolicyRow), Unique(policies),
         NEW u \in Client, NEW conn \in Connection
  PROVE  LET y == Generate(c, policies) IN
         /\ \A i \in 1..Len(policies) : policies[i].email = u =>
              Route(y, u, conn) = Passes(Global(c, conn), Own(policies[i], conn), y.resolve)
         /\ (\A i \in 1..Len(policies) : policies[i].email # u) =>
              Route(y, u, conn) = Passes(Global(c, conn), NoneOwn, y.resolve)
<1> DEFINE y == Generate(c, policies)
           To(b) == FirstTo(y.rules, u, conn, b)
<1>1. c.blockBittorrent \in BOOLEAN /\ c.blockPrivate \in BOOLEAN
  BY DEF ConfigRow
<1>2. y.rules = Rules(c.blockBittorrent, c.blockPrivate, policies)
  BY DEF Generate
<1>3. Route(y, u, conn) = IF To(FALSE) # "pass" THEN To(FALSE)
                          ELSE IF y.resolve /\ To(TRUE) # "pass" THEN To(TRUE) ELSE "direct"
  BY DEF Route
<1> HIDE DEF y
<1>4. \A b \in BOOLEAN :
        /\ \A i \in 1..Len(policies) : policies[i].email = u =>
             To(b) = Else(Global(c, conn)[b], Own(policies[i], conn)[b])
        /\ (\A i \in 1..Len(policies) : policies[i].email # u) => To(b) = Global(c, conn)[b]
  BY <1>1, <1>2, AllRules DEF Global, Own
<1>5. \A b \in BOOLEAN : Else(Global(c, conn)[b], NoneOwn[b]) = Global(c, conn)[b]
  BY DEF Else, NoneOwn, Global, GlobalTo
<1>6. ASSUME NEW i \in 1..Len(policies), policies[i].email = u
      PROVE  Route(y, u, conn) = Passes(Global(c, conn), Own(policies[i], conn), y.resolve)
  BY <1>3, <1>4, <1>6 DEF Passes
<1>7. ASSUME \A i \in 1..Len(policies) : policies[i].email # u
      PROVE  Route(y, u, conn) = Passes(Global(c, conn), NoneOwn, y.resolve)
  BY <1>3, <1>4, <1>5, <1>7 DEF Passes
<1>8. QED
  BY <1>6, <1>7 DEF y

(* A user's own filter, as the passes apply it, is what it means. *)
LEMMA OwnMeans ==
  ASSUME NEW c \in ConfigRow, NEW p \in PolicyRow, NEW conn \in Connection, NEW resolve \in BOOLEAN
  PROVE  Passes(Global(c, conn), Own(p, conn), resolve) =
           IF conn.bittorrent /\ c.blockBittorrent THEN "block"
           ELSE IF /\ conn.net = "private" /\ c.blockPrivate
                   /\ \/ conn.by = "ip"
                      \/ resolve /\ ~ (p.mode = "whitelist" \/ conn.names \cap p.tokens # {})
           THEN "block"
           ELSE IF /\ conn.by = "domain" /\ p.mode = "whitelist"
                   /\ conn.names \cap p.tokens = {} /\ conn.net \in p.tokens
           THEN "block"
           ELSE Meaning(p.mode, p.tokens, conn, resolve)
<1>1. /\ conn.by \in {"domain", "ip"} /\ conn.names \in SUBSET {"plain", "geosite"}
      /\ conn.net \in {"private", "country", "elsewhere"} /\ conn.bittorrent \in BOOLEAN
      /\ conn.by = "ip" => conn.names = {}
  BY DEF Connection, Net
<1>2. /\ p.mode \in {"blacklist", "whitelist"} /\ p.tokens \in SUBSET Token /\ p.tokens # {}
      /\ c.blockBittorrent \in BOOLEAN /\ c.blockPrivate \in BOOLEAN
  BY DEF PolicyRow, ConfigRow
<1> DEFINE named == conn.names \cap p.tokens # {}
           there == conn.net \in p.tokens
<1>3. (conn.names \cap Domains(p.tokens) # {}) <=> named
  BY <1>1, <1>2 DEF Domains
<1>4. (conn.net \in IPs(p.tokens)) <=> there
  BY <1>1, <1>2 DEF IPs, Token
<1>5. Meaning(p.mode, p.tokens, conn, resolve) =
        IF (named \/ ((conn.by = "ip" \/ resolve) /\ there)) = (p.mode = "blacklist")
        THEN "block" ELSE "direct"
  BY <1>2 DEF Meaning, Listed, Filtering
<1> DEFINE to == IF p.mode = "blacklist" THEN "block" ELSE "direct"
           OwnBy(b) == IF named THEN to ELSE IF (conn.by = "ip" \/ b) /\ there THEN to
                       ELSE IF p.mode = "whitelist" THEN "block" ELSE "pass"
           G(b) == GlobalTo(c.blockBittorrent, c.blockPrivate, conn, b)
           private == conn.net = "private" /\ c.blockPrivate
           Means == IF conn.bittorrent /\ c.blockBittorrent THEN "block"
                    ELSE IF private /\ (conn.by = "ip" \/ (resolve /\ ~ (p.mode = "whitelist" \/ named)))
                    THEN "block"
                    ELSE IF conn.by = "domain" /\ p.mode = "whitelist" /\ ~ named /\ there THEN "block"
                    ELSE Meaning(p.mode, p.tokens, conn, resolve)
<1>6. SUFFICES Passes(Global(c, conn), Own(p, conn), resolve) = Means
  OBVIOUS
<1> HIDE DEF named, there, private
<1>7. /\ Own(p, conn)[FALSE] = OwnBy(FALSE) /\ Own(p, conn)[TRUE] = OwnBy(TRUE)
      /\ Global(c, conn)[FALSE] = G(FALSE) /\ Global(c, conn)[TRUE] = G(TRUE)
  BY <1>3, <1>4 DEF Own, OwnTo, Global
<1>8. Passes(Global(c, conn), Own(p, conn), resolve) =
         IF Else(G(FALSE), OwnBy(FALSE)) # "pass" THEN Else(G(FALSE), OwnBy(FALSE))
         ELSE IF resolve /\ Else(G(TRUE), OwnBy(TRUE)) # "pass" THEN Else(G(TRUE), OwnBy(TRUE))
         ELSE "direct"
  BY <1>7 DEF Passes
<1>9. /\ G(FALSE) = IF conn.bittorrent /\ c.blockBittorrent THEN "block"
                     ELSE IF private /\ conn.by = "ip" THEN "block" ELSE "pass"
      /\ G(TRUE) = IF conn.bittorrent /\ c.blockBittorrent THEN "block"
                   ELSE IF private THEN "block" ELSE "pass"
  BY <1>1, <1>2 DEF GlobalTo, private
<1> HIDE DEF G
<1>10. CASE p.mode = "blacklist"
  <2>1. CASE named
    BY <1>1, <1>5, <1>8, <1>9, <1>10, <2>1 DEF Else
  <2>2. CASE ~ named /\ resolve
    BY <1>1, <1>5, <1>8, <1>9, <1>10, <2>2 DEF Else
  <2>3. CASE ~ named /\ ~ resolve
    BY <1>1, <1>5, <1>8, <1>9, <1>10, <2>3 DEF Else
  <2>4. QED
    BY <2>1, <2>2, <2>3
<1>11. CASE p.mode = "whitelist"
  <2>1. CASE named
    BY <1>1, <1>5, <1>8, <1>9, <1>11, <2>1 DEF Else
  <2>2. CASE ~ named
    BY <1>1, <1>5, <1>8, <1>9, <1>11, <2>2 DEF Else
  <2>3. QED
    BY <2>1, <2>2
<1>12. QED
  BY <1>2, <1>10, <1>11

(* Without a filter of the user's own, only the global blocks are left. *)
LEMMA NoneMeans ==
  ASSUME NEW c \in ConfigRow, NEW conn \in Connection, NEW resolve \in BOOLEAN
  PROVE  Passes(Global(c, conn), NoneOwn, resolve) =
           IF conn.bittorrent /\ c.blockBittorrent THEN "block"
           ELSE IF conn.net = "private" /\ c.blockPrivate /\ (conn.by = "ip" \/ resolve) THEN "block"
           ELSE "direct"
<1>1. conn.by \in {"domain", "ip"} /\ c.blockBittorrent \in BOOLEAN /\ c.blockPrivate \in BOOLEAN
      /\ conn.bittorrent \in BOOLEAN
  BY DEF Connection, ConfigRow
<1>2. QED
  BY <1>1 DEF Passes, Global, NoneOwn, GlobalTo, Else

(* Whether domains are resolved for others' sake makes no difference to a  *)
(* user, but for a domain in a private range.                              *)
LEMMA ResolveElsewhere ==
  ASSUME NEW c \in ConfigRow, NEW conn \in Connection, ~ (conn.by = "domain" /\ conn.net = "private"),
         NEW r1 \in BOOLEAN, NEW r2 \in BOOLEAN
  PROVE  /\ \A p \in PolicyRow : ("country" \in p.tokens => r1 /\ r2) =>
              Passes(Global(c, conn), Own(p, conn), r1) = Passes(Global(c, conn), Own(p, conn), r2)
         /\ Passes(Global(c, conn), NoneOwn, r1) = Passes(Global(c, conn), NoneOwn, r2)
<1>1. /\ conn.by \in {"domain", "ip"}
      /\ conn.net \in {"private", "country", "elsewhere"} /\ conn.bittorrent \in BOOLEAN
  BY DEF Connection, Net
<1>2. c.blockBittorrent \in BOOLEAN /\ c.blockPrivate \in BOOLEAN
  BY DEF ConfigRow
<1>3. GlobalTo(c.blockBittorrent, c.blockPrivate, conn, TRUE)
      = GlobalTo(c.blockBittorrent, c.blockPrivate, conn, FALSE)
  BY <1>1, <1>2 DEF GlobalTo
<1>4. ASSUME NEW p \in PolicyRow, "country" \in p.tokens => r1 /\ r2, r1 # r2
      PROVE  OwnTo(p, conn, TRUE) = OwnTo(p, conn, FALSE)
  <2>1. "country" \notin p.tokens /\ p.tokens \in SUBSET Token
    BY <1>4 DEF PolicyRow
  <2>2. conn.by = "ip" \/ conn.net \notin IPs(p.tokens)
    BY <1>1, <2>1 DEF IPs, Token
  <2>3. QED
    BY <2>2 DEF OwnTo
<1>5. QED
  BY <1>3, <1>4 DEF Passes, Global, Own, NoneOwn, Else

---------------------------------------------------------------------------
(* The filters of the clients.                                             *)

UniqueClients(clients) ==
  \A i, j \in DOMAIN clients : clients[i].uuid = clients[j].uuid => i = j

LEMMA ClientsPolicies ==
  ASSUME NEW clients \in Seq(ClientRow), UniqueClients(clients), NEW ls, NEW as
  PROVE  LET policies == userDomainPolicies(clients, ls, as) IN
         /\ policies \in Seq(PolicyRow) /\ Unique(policies)
         /\ \A k \in 1..Len(policies) : \A tok \in policies[k].tokens :
              datAsset(tok) \in as \cup {NoAsset}
         /\ \A k \in 1..Len(policies) : \E i \in DOMAIN clients : policies[k] = policyOf(clients[i], ls, as)
<1> DEFINE policy(i) == policyOf(clients[i], ls, as)
           turns == [i \in DOMAIN clients |-> When(policy(i).tokens # {}, policy(i))]
           N == Len(clients)
           Usable == {p \in PolicyRow : \A tok \in p.tokens : datAsset(tok) \in as \cup {NoAsset}}
           key == [p \in Usable |-> p.email]
           s == Appended(turns)
<1>1. N \in Nat /\ DOMAIN clients = 1..N /\ \A i \in 1..N : clients[i] \in ClientRow
  OBVIOUS
<1>2. ASSUME NEW i \in 1..N
      PROVE  /\ policy(i).email = clients[i].uuid
             /\ policy(i).tokens # {} => policy(i) \in Usable
  <2> DEFINE cl == clients[i]
             toks == IF FiltersDomains(cl) THEN Resolve(cl.domains, ls, as) ELSE {}
  <2>1. policy(i) = [email |-> cl.uuid, mode |-> cl.mode, tokens |-> toks]
    BY DEF policyOf
  <2>2. cl.uuid \in Client /\ cl.mode \in {"off", "blacklist", "whitelist"}
    BY <1>1 DEF ClientRow, Mode
  <2>3. \A src : classify(src, as) \in SUBSET Token
                 /\ \A tok \in classify(src, as) : datAsset(tok) \in as \cup {NoAsset}
    BY DEF classify
  <2>4. toks \in SUBSET Token /\ \A tok \in toks : datAsset(tok) \in as \cup {NoAsset}
    BY <2>3 DEF Resolve
  <2>5. toks # {} => cl.mode \in {"blacklist", "whitelist"}
    BY DEF FiltersDomains, Filtering
  <2> HIDE DEF cl, toks
  <2>6. policy(i).email = cl.uuid /\ policy(i).tokens = toks
    BY <2>1
  <2>7. ASSUME toks # {} PROVE policy(i) \in Usable
    <3>1. [email |-> cl.uuid, mode |-> cl.mode, tokens |-> toks] \in PolicyRow
      BY <2>2, <2>4, <2>5, <2>7 DEF PolicyRow
    <3>2. policy(i) \in PolicyRow
      BY <2>1, <3>1
    <3>3. QED
      BY <2>4, <2>6, <3>2
  <2>8. QED
    BY <2>6, <2>7 DEF cl
<1> HIDE DEF N
<1>3. \A i \in 1..N : /\ turns[i] = When(policy(i).tokens # {}, policy(i))
                      /\ turns[i] \in Seq(Usable) /\ Len(turns[i]) \in {0, 1}
                      /\ Len(turns[i]) = 1 => policy(i) \in Usable /\ turns[i][1] = policy(i)
  <2>1. ASSUME NEW i \in 1..N
        PROVE  /\ turns[i] = When(policy(i).tokens # {}, policy(i))
               /\ turns[i] \in Seq(Usable) /\ Len(turns[i]) \in {0, 1}
               /\ Len(turns[i]) = 1 => policy(i) \in Usable /\ turns[i][1] = policy(i)
    <3>1. turns[i] = When(policy(i).tokens # {}, policy(i))
      BY <1>1
    <3>2. policy(i).tokens # {} => policy(i) \in Usable
      BY <1>2
    <3> HIDE DEF policy, turns, Usable
    <3>3. CASE policy(i).tokens # {}
      BY <3>1, <3>2, <3>3 DEF When
    <3>4. CASE policy(i).tokens = {}
      BY <3>1, <3>4 DEF When
    <3>5. QED
      BY <3>3, <3>4
  <2>2. QED
    BY <2>1
<1> HIDE DEF policy
<1>4. Len(turns) = N /\ DOMAIN turns = 1..N
  BY <1>1
<1> HIDE DEF Usable
<1>5. turns \in Seq(Seq(Usable))
  <2>1. \A i \in 1..N : turns[i] \in Seq(Usable)
    BY <1>3
  <2>2. turns = [i \in 1..N |-> turns[i]]
    BY <1>1
  <2> HIDE DEF turns
  <2>3. QED
    BY <1>1, <2>1, <2>2
<1>6. userDomainPolicies(clients, ls, as) = s
  BY DEF userDomainPolicies, policy
<1>7. \A i \in 1..N : policy(i) \in Usable => key[policy(i)] = clients[i].uuid
  BY <1>2 DEF Usable, policy
<1> HIDE DEF turns, key
<1>8. Distinct(key, turns)
  <2>1. ASSUME NEW i \in 1..N, NEW j \in 1..N, Len(turns[i]) = 1, Len(turns[j]) = 1,
               key[turns[i][1]] = key[turns[j][1]]
        PROVE  i = j
    <3>1. clients[i].uuid = clients[j].uuid
      BY <1>3, <1>7, <2>1
    <3>2. QED
      BY <1>1, <3>1 DEF UniqueClients
  <2>2. QED
    BY <1>4, <2>1 DEF Distinct
<1> HIDE DEF s
<1>9. /\ s \in Seq(Usable) /\ \A k, l \in 1..Len(s) : key[s[k]] = key[s[l]] => k = l
      /\ From(turns, s, N)
  BY <1>3, <1>4, <1>5, <1>8, KeptOneByOne DEF s
<1>10. \A k \in 1..Len(s) : s[k] \in Usable
  BY <1>9
<1>11. Usable \subseteq PolicyRow
  BY DEF Usable
<1>12. s \in Seq(PolicyRow)
  BY <1>9, <1>11
<1>13. Unique(s)
  <2>1. \A p \in Usable : key[p] = p.email
    BY DEF key
  <2>2. QED
    BY <1>9, <1>10, <2>1 DEF Unique
<1>14. \A k \in 1..Len(s) : \A tok \in s[k].tokens : datAsset(tok) \in as \cup {NoAsset}
  BY <1>10 DEF Usable
<1>15. ASSUME NEW k \in 1..Len(s) PROVE \E i \in 1..N : s[k] = policy(i)
  <2>1. PICK i \in 1..N : Len(turns[i]) = 1 /\ s[k] = turns[i][1]
    BY <1>9 DEF From
  <2>2. QED
    BY <1>3, <2>1
<1>16. \A k \in 1..Len(s) : \E i \in DOMAIN clients : s[k] = policyOf(clients[i], ls, as)
  BY <1>1, <1>15 DEF policy
<1>17. QED
  BY <1>6, <1>12, <1>13, <1>14, <1>16

(* Removing a client keeps the others, still one for each UUID.            *)
LEMMA ClientsWithout ==
  ASSUME NEW clients \in Seq(ClientRow), UniqueClients(clients), NEW u
  PROVE  LET left == Appended([i \in DOMAIN clients |-> When(clients[i].uuid # u, clients[i])]) IN
         left \in Seq(ClientRow) /\ UniqueClients(left)
<1> DEFINE turns == [i \in DOMAIN clients |-> When(clients[i].uuid # u, clients[i])]
           N == Len(clients)
           key == [cl \in ClientRow |-> cl.uuid]
           s == Appended(turns)
<1>1. N \in Nat /\ DOMAIN clients = 1..N /\ \A i \in 1..N : clients[i] \in ClientRow
  OBVIOUS
<1> HIDE DEF N
<1>2. \A i \in 1..N : /\ turns[i] \in Seq(ClientRow) /\ Len(turns[i]) \in {0, 1}
                      /\ Len(turns[i]) = 1 => turns[i][1] = clients[i]
  BY <1>1 DEF When
<1>3. Len(turns) = N /\ DOMAIN turns = 1..N /\ turns \in Seq(Seq(ClientRow))
  BY <1>1, <1>2
<1>4. \A cl \in ClientRow : key[cl] = cl.uuid
  OBVIOUS
<1> HIDE DEF turns, key
<1>5. Distinct(key, turns)
  <2>1. ASSUME NEW i \in 1..N, NEW j \in 1..N, Len(turns[i]) = 1, Len(turns[j]) = 1,
               key[turns[i][1]] = key[turns[j][1]]
        PROVE  i = j
    <3>1. turns[i][1] = clients[i] /\ turns[j][1] = clients[j]
      BY <1>2, <2>1
    <3>2. clients[i].uuid = clients[j].uuid
      BY <1>1, <1>4, <2>1, <3>1
    <3>3. QED
      BY <1>1, <3>2 DEF UniqueClients
  <2>2. QED
    BY <1>3, <2>1 DEF Distinct
<1> HIDE DEF s
<1>6. s \in Seq(ClientRow) /\ \A k, l \in 1..Len(s) : key[s[k]] = key[s[l]] => k = l
  BY <1>2, <1>3, <1>5, KeptOneByOne DEF s
<1>7. \A k \in 1..Len(s) : s[k] \in ClientRow
  BY <1>6
<1>8. DOMAIN s = 1..Len(s)
  BY <1>6
<1>9. QED
  BY <1>4, <1>6, <1>7, <1>8 DEF UniqueClients, s, turns

(* The filters of one user among all.                                      *)
LEMMA OwnPolicies ==
  ASSUME NEW policies \in Seq(PolicyRow), Unique(policies), NEW u \in Client
  PROVE  LET own == Appended([i \in DOMAIN policies |-> When(policies[i].email = u, policies[i])]) IN
         /\ own \in Seq(PolicyRow) /\ Unique(own)
         /\ \A k \in 1..Len(own) : \E i \in 1..Len(policies) : policies[i].email = u /\ own[k] = policies[i]
         /\ \A i \in 1..Len(policies) : policies[i].email = u =>
              \E k \in 1..Len(own) : own[k] = policies[i]
<1> DEFINE turns == [i \in DOMAIN policies |-> When(policies[i].email = u, policies[i])]
           N == Len(policies)
           key == [p \in PolicyRow |-> p.email]
           s == Appended(turns)
<1>1. N \in Nat /\ DOMAIN policies = 1..N /\ \A i \in 1..N : policies[i] \in PolicyRow
  OBVIOUS
<1> HIDE DEF N
<1>2. \A i \in 1..N : /\ turns[i] \in Seq(PolicyRow) /\ Len(turns[i]) \in {0, 1}
                      /\ Len(turns[i]) = 1 <=> policies[i].email = u
                      /\ Len(turns[i]) = 1 => turns[i][1] = policies[i]
  BY <1>1 DEF When
<1>3. Len(turns) = N /\ DOMAIN turns = 1..N /\ turns \in Seq(Seq(PolicyRow))
  BY <1>1, <1>2
<1>4. \A p \in PolicyRow : key[p] = p.email
  OBVIOUS
<1> HIDE DEF turns, key
<1>5. Distinct(key, turns)
  BY <1>1, <1>2, <1>3, <1>4 DEF Distinct, Unique, N
<1> HIDE DEF s
<1>6. /\ s \in Seq(PolicyRow) /\ \A k, l \in 1..Len(s) : key[s[k]] = key[s[l]] => k = l
      /\ From(turns, s, N)
  BY <1>2, <1>3, <1>5, KeptOneByOne DEF s
<1>7. \A k \in 1..Len(s) : s[k] \in PolicyRow
  BY <1>6
<1>8. Unique(s)
  BY <1>4, <1>6, <1>7 DEF Unique
<1>9. \A k \in 1..Len(s) : \E i \in 1..N : policies[i].email = u /\ s[k] = policies[i]
  BY <1>2, <1>6 DEF From
<1>10. \A i \in 1..N : policies[i].email = u => \E k \in 1..Len(s) : s[k] = policies[i]
  BY <1>2, <1>6 DEF From
<1>11. QED
  BY <1>6, <1>8, <1>9, <1>10 DEF s, turns, N

---------------------------------------------------------------------------
(* Disks.                                                                  *)

AssetState == {"missing", "good", "bad"}
DiskRow == [assets : [Asset -> AssetState], lists : UNION {[L -> SUBSET Line] : L \in SUBSET ListRef},
            unverified : SUBSET Asset]

(* What downloads may make of a disk: of each data file, in the end, nothing, *)
(* the published file, or one whose digest could not be had; of each list,    *)
(* nothing, or an answer that is not blank.                                   *)
Better(d, e) ==
  /\ DOMAIN d.lists \subseteq DOMAIN e.lists
  /\ \A l \in DOMAIN d.lists : e.lists[l] = d.lists[l] \/ (l = "url" /\ e.lists[l] # {})
  /\ \A a \in Asset : \/ e.assets[a] = "good" \/ a \in e.unverified
                      \/ e.assets[a] = d.assets[a] /\ (a \in e.unverified <=> a \in d.unverified)

LEMMA BetterSame == \A d : Better(d, d)
  BY DEF Better

LEMMA BetterAgain ==
  ASSUME NEW d, NEW e, NEW f, Better(d, e), Better(e, f)
  PROVE  Better(d, f)
<1>1. DOMAIN d.lists \subseteq DOMAIN f.lists
  BY DEF Better
<1>2. ASSUME NEW l \in DOMAIN d.lists
      PROVE  f.lists[l] = d.lists[l] \/ (l = "url" /\ f.lists[l] # {})
  <2>1. l \in DOMAIN e.lists /\ (e.lists[l] = d.lists[l] \/ (l = "url" /\ e.lists[l] # {}))
    BY DEF Better
  <2>2. f.lists[l] = e.lists[l] \/ (l = "url" /\ f.lists[l] # {})
    BY <2>1 DEF Better
  <2>3. QED
    BY <2>1, <2>2
<1>3. QED
  BY <1>1, <1>2 DEF Better

LEMMA DownloadBetters ==
  ASSUME NEW d \in DiskRow, NEW a \in Asset, NEW e \in Downloads(d, a)
  PROVE  e \in DiskRow /\ Better(d, e)
<1>1. /\ d.assets \in [Asset -> AssetState] /\ d.unverified \in SUBSET Asset
      /\ d.lists \in UNION {[L -> SUBSET Line] : L \in SUBSET ListRef}
      /\ d = [assets |-> d.assets, lists |-> d.lists, unverified |-> d.unverified]
  BY DEF DiskRow
<1>2. CASE e = d
  BY <1>2, BetterSame
<1>3. CASE e # d
  <2>1. PICK want \in BOOLEAN : \E body \in {"missing", "good", "bad"} : e = Download(d, a, want, body)
    BY <1>3 DEF Downloads
  <2>2. PICK body \in {"missing", "good", "bad"} : e = Download(d, a, want, body)
    BY <2>1
  <2> DEFINE v == IF want \/ body = "good" THEN d.unverified \ {a} ELSE d.unverified \cup {a}
             files == [d.assets EXCEPT ![a] = body]
  <2>3. ~ (want /\ body # "good") /\ e = Installed(d, a, want, body)
    BY <1>3, <2>2 DEF Download
  <2>4. e = [assets |-> files, lists |-> d.lists, unverified |-> v]
    BY <1>1, <2>3 DEF Installed
  <2>5. v \in SUBSET Asset /\ files \in [Asset -> AssetState]
    BY <1>1, <2>2 DEF AssetState
  <2>6. body = "good" \/ a \in v
    BY <2>3
  <2>7. \A c \in Asset : c # a => files[c] = d.assets[c] /\ (c \in v <=> c \in d.unverified)
    BY <1>1
  <2>8. files[a] = body
    BY <1>1
  <2> HIDE DEF v, files
  <2>9. e \in DiskRow
    BY <1>1, <2>4, <2>5 DEF DiskRow
  <2>10. Better(d, e)
    BY <2>4, <2>6, <2>7, <2>8 DEF Better
  <2>11. QED
    BY <2>9, <2>10
<1>4. QED
  BY <1>2, <1>3

LEMMA FetchBetters ==
  ASSUME NEW d \in DiskRow, NEW e \in Fetches(d, "url")
  PROVE  e \in DiskRow /\ Better(d, e)
<1>1. /\ d.assets \in [Asset -> AssetState] /\ d.unverified \in SUBSET Asset
      /\ d = [assets |-> d.assets, lists |-> d.lists, unverified |-> d.unverified]
  BY DEF DiskRow
<1>2. PICK L \in SUBSET ListRef : d.lists \in [L -> SUBSET Line]
  BY DEF DiskRow
<1>3. CASE e = d
  BY <1>3, BetterSame
<1>4. CASE e # d
  <2>1. PICK body \in Bodies \cup {{}} : e = Fetch(d, "url", body)
    BY <1>4 DEF Fetches
  <2> DEFINE ls == [l \in L \cup {"url"} |-> IF l = "url" THEN body ELSE d.lists[l]]
  <2>2. body # {} /\ body \in SUBSET Line
    BY <1>4, <2>1, InputAssumption DEF Fetch
  <2>3. e = [d EXCEPT !.lists = [l \in DOMAIN @ \cup {"url"} |-> IF l = "url" THEN body ELSE @[l]]]
    BY <2>1, <2>2 DEF Fetch
  <2>4. L \cup {"url"} \in SUBSET ListRef
    BY <1>2 DEF ListRef
  <2>5. ls \in [L \cup {"url"} -> SUBSET Line]
    BY <1>2, <2>2
  <2>6. e = [assets |-> d.assets, lists |-> ls, unverified |-> d.unverified]
    BY <1>1, <1>2, <2>3
  <2>7. /\ DOMAIN d.lists \subseteq DOMAIN ls
        /\ \A l \in DOMAIN d.lists : ls[l] = d.lists[l] \/ (l = "url" /\ ls[l] # {})
    BY <1>2, <2>2
  <2> HIDE DEF ls
  <2>8. e \in DiskRow
    BY <1>1, <2>4, <2>5, <2>6 DEF DiskRow
  <2>9. QED
    BY <2>6, <2>7, <2>8 DEF Better
<1>5. QED
  BY <1>3, <1>4

LEMMA AssetOrNot ==
  ASSUME NEW d \in DiskRow, NEW a \in Asset, NEW wanted \in BOOLEAN,
         NEW e \in IF wanted THEN Downloads(d, a) ELSE {d}
  PROVE  e \in DiskRow /\ Better(d, e)
<1>1. Better(d, d)
  BY BetterSame
<1>2. QED
  BY <1>1, DownloadBetters

LEMMA ListOrNot ==
  ASSUME NEW d \in DiskRow, NEW wanted \in BOOLEAN,
         NEW e \in IF wanted THEN Fetches(d, "url") ELSE {d}
  PROVE  e \in DiskRow /\ Better(d, e)
<1>1. Better(d, d)
  BY BetterSame
<1>2. QED
  BY <1>1, FetchBetters

LEMMA EnsuredBetters ==
  ASSUME Disk \in DiskRow, NEW sources, NEW f \in Ensured(sources)
  PROVE  f \in DiskRow /\ Better(Disk, f)
<1> DEFINE needs(d, a) == NeededBy(a, sources) /\ d.assets[a] = "missing"
           asset(d, a) == IF needs(d, a) THEN Downloads(d, a) ELSE {d}
           wants(d) == "url" \in sources \ DOMAIN d.lists
           list(d) == IF wants(d) THEN Fetches(d, "url") ELSE {d}
<1>1. \E d \in asset(Disk, "geosite") : \E e \in asset(d, "geoip") : f \in list(e)
  BY DEF Ensured, Each
<1>2. PICK d \in asset(Disk, "geosite") : \E e \in asset(d, "geoip") : f \in list(e)
  BY <1>1
<1>then. PICK e \in asset(d, "geoip") : f \in list(e)
  BY <1>2
<1>3. "geosite" \in Asset /\ "geoip" \in Asset
  BY DEF Asset
<1>4. \A dd, a : needs(dd, a) \in BOOLEAN /\ wants(dd) \in BOOLEAN
  BY DEF NeededBy
<1> HIDE DEF needs, wants
<1>5. d \in DiskRow /\ Better(Disk, d)
  BY <1>2, <1>3, <1>4, AssetOrNot
<1>6. e \in DiskRow /\ Better(d, e)
  BY <1>then, <1>3, <1>4, <1>5, AssetOrNot
<1>7. f \in DiskRow /\ Better(e, f)
  BY <1>then, <1>4, <1>6, ListOrNot
<1>8. QED
  BY <1>5, <1>6, <1>7, BetterAgain

LEMMA RefreshedBetters ==
  ASSUME Disk \in DiskRow, NEW f \in Refreshed
  PROVE  f \in DiskRow /\ Better(Disk, f)
<1> DEFINE needs(a) == NeededBy(a, SourcesInConfig)
           asset(d, a) == IF needs(a) THEN Downloads(d, a) ELSE {d}
           wants == "url" \in SourcesInConfig
           list(d) == IF wants THEN Fetches(d, "url") ELSE {d}
<1>1. \E d \in asset(Disk, "geosite") : \E e \in asset(d, "geoip") : f \in list(e)
  BY DEF Refreshed, Each
<1>2. PICK d \in asset(Disk, "geosite") : \E e \in asset(d, "geoip") : f \in list(e)
  BY <1>1
<1>then. PICK e \in asset(d, "geoip") : f \in list(e)
  BY <1>2
<1>3. "geosite" \in Asset /\ "geoip" \in Asset
  BY DEF Asset
<1>4. \A a : needs(a) \in BOOLEAN /\ wants \in BOOLEAN
  BY DEF NeededBy
<1> HIDE DEF needs, wants
<1>5. d \in DiskRow /\ Better(Disk, d)
  BY <1>2, <1>3, <1>4, AssetOrNot
<1>6. e \in DiskRow /\ Better(d, e)
  BY <1>then, <1>3, <1>4, <1>5, AssetOrNot
<1>7. f \in DiskRow /\ Better(e, f)
  BY <1>then, <1>4, <1>6, ListOrNot
<1>8. QED
  BY <1>5, <1>6, <1>7, BetterAgain

---------------------------------------------------------------------------
(* The invariant.                                                          *)

(* What the operator edits: one client for each UUID, in force and in draft. *)
Edited ==
  /\ config \in ConfigRow
  /\ draft \in [clients : Seq(ClientRow), idx : Nat]
  /\ UniqueClients(config.clients) /\ UniqueClients(draft.clients)
  /\ commands \in 0..MaxCommands
  /\ draft.idx \in 0..Len(draft.clients) /\ (draft.idx = 0 <=> draft = NoDraft)
  /\ defaults \in Policy

(* A data file that xray rejects came without a digest. *)
OnDisk == Disk \in DiskRow /\ \A a \in Asset : assets[a] = "bad" => a \in unverified

(* A node that runs was generated from one usable filter at most for each  *)
(* client, and from the configuration as it is.                            *)
Running ==
  /\ node \in {"down", "running", "failed"}
  /\ node = "running" =>
       users \in Seq(PolicyRow) /\ Unique(users) /\ x = Generate(config, users)

DomainInv == Edited /\ OnDisk /\ Running

LEMMA InvType == DomainInv => TypeOK
<1> SUFFICES ASSUME DomainInv PROVE TypeOK
  OBVIOUS
<1>1. /\ assets \in [Asset -> AssetState] /\ unverified \in SUBSET Asset
      /\ lists \in UNION {[L -> SUBSET Line] : L \in SUBSET ListRef}
  BY DEF DomainInv, OnDisk, Disk, DiskRow
<1>2. DOMAIN lists \subseteq ListRef /\ \A l \in DOMAIN lists : lists[l] \subseteq Line
  BY <1>1
<1>3. Edited /\ Running
  BY DEF DomainInv
<1>4. \A clients \in {config.clients, draft.clients} :
        \A i, j \in DOMAIN clients : clients[i].uuid = clients[j].uuid => i = j
  BY <1>3 DEF Edited, UniqueClients
<1>5. QED
  BY <1>1, <1>2, <1>3, <1>4 DEF TypeOK, Edited, Running, ConfigRow, AssetState

LEMMA InitInv == Init => DomainInv
<1> SUFFICES ASSUME Init PROVE DomainInv
  OBVIOUS
<1>1. Edited
  <2>1. <<>> \in Seq(ClientRow) /\ UniqueClients(<<>>) /\ Len(<<>>) = 0
    BY DEF UniqueClients
  <2>2. PICK b \in Blocks : config = [clients |-> <<>>, blockBittorrent |-> b.blockBittorrent,
                                      blockPrivate |-> b.blockPrivate]
    BY DEF Init
  <2>3. b.blockBittorrent \in BOOLEAN /\ b.blockPrivate \in BOOLEAN /\ MaxCommands \in Nat
    BY InputAssumption
  <2>4. config \in ConfigRow /\ config.clients = <<>>
    BY <2>1, <2>2, <2>3 DEF ConfigRow
  <2>5. draft \in [clients : Seq(ClientRow), idx : Nat] /\ draft.clients = <<>> /\ draft.idx = 0
    BY <2>1 DEF Init, NoDraft
  <2>6. defaults \in Policy
    BY DEF Init, Policy, Mode
  <2>7. QED
    BY <2>1, <2>3, <2>4, <2>5, <2>6 DEF Init, Edited, NoDraft
<1>2. OnDisk
  <2>1. assets \in [Asset -> AssetState] /\ unverified \in SUBSET Asset
        /\ \A a \in Asset : assets[a] # "bad"
    BY DEF Init, AssetState
  <2>2. lists \in [{"file"} -> SUBSET Line] /\ {"file"} \in SUBSET ListRef
    BY InputAssumption DEF Init, ListRef
  <2>3. QED
    BY <2>1, <2>2 DEF OnDisk, Disk, DiskRow
<1>3. Running
  BY DEF Init, Running
<1>4. QED
  BY <1>1, <1>2, <1>3 DEF DomainInv

---------------------------------------------------------------------------
(* The operator's edits.                                                   *)

LEMMA NewClientType ==
  ASSUME NEW u \in Client, defaults \in Policy
  PROVE  NewClient(u) \in ClientRow /\ NewClient(u).uuid = u
  BY DEF NewClient, ClientRow, Policy, Mode

LEMMA EditedStep == Edited /\ [Next]_vars => Edited'
<1> SUFFICES ASSUME Edited, [Next]_vars PROVE Edited'
  OBVIOUS
<1>1. /\ config \in ConfigRow /\ draft \in [clients : Seq(ClientRow), idx : Nat]
      /\ UniqueClients(config.clients) /\ UniqueClients(draft.clients)
      /\ commands \in 0..MaxCommands /\ MaxCommands \in Nat
      /\ draft.idx \in 0..Len(draft.clients) /\ (draft.idx = 0 <=> draft = NoDraft)
      /\ defaults \in Policy
  BY InputAssumption DEF Edited
<1>2. config.clients \in Seq(ClientRow) /\ draft.clients \in Seq(ClientRow)
  BY <1>1 DEF ConfigRow
<1>3. NoDraft \in [clients : Seq(ClientRow), idx : Nat] /\ NoDraft.clients = <<>> /\ NoDraft.idx = 0
      /\ UniqueClients(<<>>) /\ Len(<<>>) = 0
  BY DEF NoDraft, UniqueClients
<1>4. ASSUME NEW clients \in Seq(ClientRow), UniqueClients(clients), SaveAndReload(clients)
      PROVE  config' \in ConfigRow /\ UniqueClients(config'.clients)
  BY <1>1, <1>4 DEF SaveAndReload, ConfigRow
<1>5. ASSUME UNCHANGED <<config, draft, commands, defaults>> PROVE Edited'
  BY <1>1, <1>5 DEF Edited
<1>6. ASSUME Start \/ Stop \/ Update PROVE Edited'
  BY <1>5, <1>6 DEF Start, Stop, Update
<1>7. ASSUME ReplDone PROVE Edited'
  BY <1>1, <1>2, <1>3, <1>4, <1>7 DEF ReplDone, Edited
<1>8. ASSUME ReplQuit PROVE Edited'
  BY <1>1, <1>3, <1>8 DEF ReplQuit, Edited
<1>9. ASSUME NEW u \in Client, LinkAdd(u) PROVE Edited'
  <2> DEFINE cs == config.clients
             cl == NewClient(u)
             new == Append(cs, cl)
  <2>1. cl \in ClientRow /\ cl.uuid = u
    BY <1>1, NewClientType
  <2>2. \A i \in DOMAIN cs : cs[i].uuid # u
    BY <1>9 DEF LinkAdd
  <2>3. draft' = [clients |-> new, idx |-> Len(cs) + 1] /\ UNCHANGED <<commands, config, defaults>>
    BY <1>9 DEF LinkAdd
  <2> HIDE DEF cl
  <2>4. cs \in Seq(ClientRow) /\ UniqueClients(cs)
    BY <1>1, <1>2
  <2> HIDE DEF cs
  <2>5. /\ new \in Seq(ClientRow) /\ Len(new) = Len(cs) + 1 /\ Len(cs) \in Nat
        /\ DOMAIN new = 1..(Len(cs) + 1) /\ DOMAIN cs = 1..Len(cs)
        /\ new[Len(cs) + 1] = cl /\ \A i \in 1..Len(cs) : new[i] = cs[i]
    BY <2>1, <2>4
  <2> HIDE DEF new
  <2>6. UniqueClients(new)
    BY <2>1, <2>2, <2>4, <2>5 DEF UniqueClients
  <2>7. draft' # NoDraft
    BY <1>3, <2>3, <2>5
  <2>8. QED
    BY <1>1, <2>3, <2>5, <2>6, <2>7 DEF Edited
<1>10. ASSUME NEW u \in Client, LinkRemove(u) PROVE Edited'
  <2> DEFINE left == Appended([i \in DOMAIN config.clients |->
                       When(config.clients[i].uuid # u, config.clients[i])])
  <2>1. left \in Seq(ClientRow) /\ UniqueClients(left)
    BY <1>1, <1>2, ClientsWithout
  <2>2. SaveAndReload(left) /\ UNCHANGED <<commands, defaults, draft>>
    BY <1>10 DEF LinkRemove
  <2> HIDE DEF left
  <2>3. QED
    BY <1>1, <1>4, <2>1, <2>2 DEF Edited
<1>11. ASSUME NEW i \in DOMAIN config.clients, LinkEdit(i) PROVE Edited'
  <2>1. i \in 1..Len(config.clients)
    BY <1>2
  <2>2. draft' = [clients |-> config.clients, idx |-> i] /\ UNCHANGED <<commands, config, defaults>>
    BY <1>11 DEF LinkEdit
  <2>3. draft' # NoDraft /\ draft'.idx # 0
    BY <1>3, <2>1, <2>2
  <2>4. QED
    BY <1>1, <1>2, <2>1, <2>2, <2>3 DEF Edited
<1>12. ASSUME NEW cl \in ClientRow, draft # NoDraft, cl.uuid = draft.clients[draft.idx].uuid,
              draft' = [draft EXCEPT !.clients = [@ EXCEPT ![draft.idx] = cl]],
              commands' \in 0..MaxCommands, UNCHANGED <<config, defaults>>
       PROVE  Edited'
  <2> DEFINE cs == draft.clients
             new == [cs EXCEPT ![draft.idx] = cl]
  <2>1. draft.idx \in 1..Len(cs) /\ Len(cs) \in Nat /\ DOMAIN cs = 1..Len(cs)
    BY <1>1, <1>2, <1>12
  <2>2. /\ new \in Seq(ClientRow) /\ Len(new) = Len(cs) /\ DOMAIN new = 1..Len(cs)
        /\ \A i \in 1..Len(cs) : new[i] = IF i = draft.idx THEN cl ELSE cs[i]
    BY <1>2, <1>12, <2>1
  <2>3. draft' = [clients |-> new, idx |-> draft.idx]
    BY <1>1, <1>12
  <2>4. cl.uuid = cs[draft.idx].uuid /\ UniqueClients(cs)
    BY <1>1, <1>12
  <2> HIDE DEF new, cs
  <2>5. UniqueClients(new)
    BY <2>1, <2>2, <2>4 DEF UniqueClients
  <2>6. draft' # NoDraft
    BY <1>3, <2>1, <2>3
  <2>7. draft.idx \in Nat /\ draft.idx # 0
    BY <2>1
  <2>8. /\ draft' \in [clients : Seq(ClientRow), idx : Nat] /\ UniqueClients(draft'.clients)
        /\ draft'.idx \in 0..Len(draft'.clients) /\ draft'.idx # 0
    BY <2>1, <2>2, <2>3, <2>5, <2>7
  <2>9. config' = config /\ defaults' = defaults /\ commands' \in 0..MaxCommands
    BY <1>12
  <2>10. QED
    BY <1>1, <2>6, <2>8, <2>9 DEF Edited
<1>13. ASSUME NEW mode \in Mode, ReplMode(mode) PROVE Edited'
  <2> DEFINE cl == [draft.clients[draft.idx] EXCEPT !.mode = mode]
  <2>1. draft.clients[draft.idx] \in ClientRow /\ draft.idx \in DOMAIN draft.clients
    BY <1>1, <1>2, <1>13 DEF ReplMode
  <2>2. cl \in ClientRow /\ cl.uuid = draft.clients[draft.idx].uuid
    BY <2>1 DEF ClientRow
  <2>3. draft' = [draft EXCEPT !.clients = [@ EXCEPT ![draft.idx] = cl]]
    BY <1>1, <1>13, <2>1 DEF ReplMode
  <2>4. commands' \in 0..MaxCommands
    BY <1>1, <1>13 DEF ReplMode
  <2> HIDE DEF cl
  <2>5. QED
    BY <1>12, <1>13, <2>2, <2>3, <2>4 DEF ReplMode
<1>14. ASSUME NEW sources \in Entries, ReplDomains(sources) PROVE Edited'
  <2> DEFINE cl == [draft.clients[draft.idx] EXCEPT !.domains = sources]
  <2>1. draft.clients[draft.idx] \in ClientRow /\ draft.idx \in DOMAIN draft.clients
    BY <1>1, <1>2, <1>14 DEF ReplDomains
  <2>2. cl \in ClientRow /\ cl.uuid = draft.clients[draft.idx].uuid
    BY <2>1, InputAssumption DEF ClientRow
  <2>3. draft' = [draft EXCEPT !.clients = [@ EXCEPT ![draft.idx] = cl]]
    BY <1>1, <1>14, <2>1 DEF ReplDomains
  <2>4. commands' \in 0..MaxCommands
    BY <1>1, <1>14 DEF ReplDomains
  <2> HIDE DEF cl
  <2>5. QED
    BY <1>12, <1>14, <2>2, <2>3, <2>4 DEF ReplDomains
<1>15. ASSUME NEW policy \in Defaults, SetDefault(policy) PROVE Edited'
  <2>1. policy \in Policy /\ [mode |-> "off", domains |-> {}] \in Policy
    BY InputAssumption DEF Policy, Mode
  <2>2. defaults' \in Policy /\ UNCHANGED <<commands, config, draft>>
    BY <1>15, <2>1 DEF SetDefault
  <2>3. QED
    BY <1>1, <2>2 DEF Edited
<1>16. CASE UNCHANGED vars
  BY <1>5, <1>16 DEF vars
<1>17. QED
  BY <1>6, <1>7, <1>8, <1>9, <1>10, <1>11, <1>13, <1>14, <1>15, <1>16 DEF Next

---------------------------------------------------------------------------
(* What a step makes of the disk.                                          *)

LEMMA DiskStep ==
  OnDisk /\ [Next]_vars => OnDisk' /\ Better(Disk, Disk')
<1> SUFFICES ASSUME OnDisk, [Next]_vars PROVE OnDisk' /\ Better(Disk, Disk')
  OBVIOUS
<1>1. Disk \in DiskRow /\ \A a \in Asset : assets[a] = "bad" => a \in unverified
  BY DEF OnDisk
<1>2. ASSUME UNCHANGED diskVars PROVE OnDisk' /\ Better(Disk, Disk')
  <2>1. Disk' = Disk
    BY <1>2 DEF Disk, diskVars
  <2>2. QED
    BY <1>1, <1>2, <2>1, BetterSame DEF OnDisk, diskVars
<1>3. ASSUME NEW f \in DiskRow, Better(Disk, f), SetDisk(f) PROVE OnDisk' /\ Better(Disk, Disk')
  <2>1. Disk' = f
    BY <1>3 DEF Disk, SetDisk, DiskRow
  <2>2. Disk.assets = assets /\ Disk.unverified = unverified
        /\ f.assets = assets' /\ f.unverified = unverified'
    BY <1>3 DEF Disk, SetDisk
  <2>3. ASSUME NEW a \in Asset, assets'[a] = "bad" PROVE a \in unverified'
    BY <1>1, <1>3, <2>2, <2>3 DEF Better
  <2>4. QED
    BY <1>3, <2>1, <2>3 DEF OnDisk
<1>4. ASSUME NEW sources, NEW f \in Ensured(sources), SetDisk(f) PROVE OnDisk' /\ Better(Disk, Disk')
  BY <1>1, <1>3, <1>4, EnsuredBetters
<1>5. ASSUME NEW f \in Refreshed, SetDisk(f) PROVE OnDisk' /\ Better(Disk, Disk')
  BY <1>1, <1>3, <1>5, RefreshedBetters
<1>6. ASSUME Start \/ Stop \/ ReplDone \/ ReplQuit PROVE UNCHANGED diskVars
  BY <1>6 DEF Start, Stop, ReplDone, ReplQuit
<1>7. ASSUME Update PROVE OnDisk' /\ Better(Disk, Disk')
  BY <1>5, <1>7 DEF Update
<1>8. ASSUME NEW u \in Client, LinkAdd(u) \/ LinkRemove(u) PROVE UNCHANGED diskVars
  BY <1>8 DEF LinkAdd, LinkRemove
<1>9. ASSUME NEW i, LinkEdit(i) PROVE UNCHANGED diskVars
  BY <1>9 DEF LinkEdit
<1>10. ASSUME NEW mode, ReplMode(mode) PROVE UNCHANGED diskVars
  BY <1>10 DEF ReplMode
<1>11. ASSUME NEW sources, ReplDomains(sources) PROVE OnDisk' /\ Better(Disk, Disk')
  BY <1>4, <1>11 DEF ReplDomains
<1>12. ASSUME NEW policy, SetDefault(policy) PROVE OnDisk' /\ Better(Disk, Disk')
  BY <1>2, <1>4, <1>12 DEF SetDefault
<1>13. CASE UNCHANGED vars
  BY <1>2, <1>13 DEF vars, diskVars
<1>14. QED
  BY <1>2, <1>6, <1>7, <1>8, <1>9, <1>10, <1>11, <1>12, <1>13 DEF Next

---------------------------------------------------------------------------
(* What a step makes of the node.                                          *)

(* A node goes on with the configuration it has, or is down whatever that  *)
(* is; or it is down; or it starts, on what is then on disk.               *)
LEMMA NodeStep ==
  OnDisk /\ [Next]_vars =>
    \/ UNCHANGED nodeVars /\ (config' = config \/ node # "running")
    \/ node' = "down"
    \/ Starts(config', Disk')
<1> SUFFICES ASSUME OnDisk, [Next]_vars
             PROVE  \/ UNCHANGED nodeVars /\ (config' = config \/ node # "running")
                    \/ node' = "down"
                    \/ Starts(config', Disk')
  OBVIOUS
<1>1. ASSUME UNCHANGED diskVars PROVE Disk' = Disk
  BY <1>1 DEF Disk, diskVars
<1>2. ASSUME NEW clients, SaveAndReload(clients), UNCHANGED diskVars
      PROVE  Starts(config', Disk') \/ (node # "running" /\ UNCHANGED nodeVars)
  BY <1>1, <1>2 DEF SaveAndReload
<1>3. CASE Start
  <2>1. Starts(config, Disk) /\ config' = config /\ Disk' = Disk
    BY <1>1, <1>3 DEF Start
  <2>2. QED
    BY <2>1
<1>4. CASE Stop
  BY <1>4 DEF Stop
<1>5. CASE ReplDone
  BY <1>2, <1>5 DEF ReplDone
<1>6. CASE ReplQuit
  BY <1>6 DEF ReplQuit
<1>7. CASE Update
  <2>1. PICK d \in Refreshed : SetDisk(d) /\ (Starts(config, d) \/ UNCHANGED nodeVars)
    BY <1>7 DEF Update
  <2>2. d \in DiskRow
    BY RefreshedBetters DEF OnDisk
  <2>3. Disk' = d /\ config' = config
    BY <1>7, <2>1, <2>2 DEF Update, Disk, SetDisk, DiskRow
  <2>4. QED
    BY <2>1, <2>3
<1>8. ASSUME NEW u \in Client, LinkAdd(u) PROVE UNCHANGED nodeVars /\ config' = config
  BY <1>8 DEF LinkAdd
<1>9. ASSUME NEW u \in Client, LinkRemove(u)
      PROVE  Starts(config', Disk') \/ (node # "running" /\ UNCHANGED nodeVars)
  BY <1>2, <1>9 DEF LinkRemove
<1>10. ASSUME NEW i, LinkEdit(i) PROVE UNCHANGED nodeVars /\ config' = config
  BY <1>10 DEF LinkEdit
<1>11. ASSUME NEW mode, ReplMode(mode) PROVE UNCHANGED nodeVars /\ config' = config
  BY <1>11 DEF ReplMode
<1>12. ASSUME NEW sources, ReplDomains(sources) PROVE UNCHANGED nodeVars /\ config' = config
  BY <1>12 DEF ReplDomains
<1>13. ASSUME NEW policy, SetDefault(policy) PROVE UNCHANGED nodeVars /\ config' = config
  BY <1>13 DEF SetDefault
<1>14. CASE UNCHANGED vars
  BY <1>14 DEF vars, nodeVars
<1>15. QED
  BY <1>3, <1>4, <1>5, <1>6, <1>7, <1>8, <1>9, <1>10, <1>11, <1>12, <1>13, <1>14 DEF Next

(* A name in a filter, over which xray refuses to start. *)
Stops(cl, d, tok) ==
  /\ tok \in policyOf(cl, d.lists, Asset).tokens
  /\ datAsset(tok) # NoAsset => d.assets[datAsset(tok)] # "missing"
  /\ tok \in Unknown \/ (datAsset(tok) \in Asset /\ d.assets[datAsset(tok)] = "bad")

(* What a filter names does not depend on the data files; what it resolves *)
(* to is what needs none of those that are missing.                        *)
LEMMA NamedTokens ==
  ASSUME NEW cl, NEW ls, NEW as \in SUBSET Asset
  PROVE  policyOf(cl, ls, as).tokens =
           {tok \in policyOf(cl, ls, Asset).tokens : datAsset(tok) \in as \cup {NoAsset}}
<1>1. \A tok \in Token : datAsset(tok) \in Asset \cup {NoAsset}
  BY DEF datAsset, Token, Asset, NoAsset
<1>2. \A line : classify(line, as) =
                 {tok \in classify(line, Asset) : datAsset(tok) \in as \cup {NoAsset}}
  BY <1>1 DEF classify
<1>3. Resolve(cl.domains, ls, as) =
        {tok \in Resolve(cl.domains, ls, Asset) : datAsset(tok) \in as \cup {NoAsset}}
  <2> DEFINE lines == UNION {readList(src, ls) : src \in cl.domains}
  <2>1. ASSUME NEW of, NEW tok
        PROVE  tok \in Resolve(cl.domains, ls, of) <=> \E line \in lines : tok \in classify(line, of)
    BY Zenon DEF Resolve
  <2> HIDE DEF lines
  <2>2. ASSUME NEW tok
        PROVE  tok \in Resolve(cl.domains, ls, as) <=>
                 tok \in Resolve(cl.domains, ls, Asset) /\ datAsset(tok) \in as \cup {NoAsset}
    <3>1. ASSUME tok \in Resolve(cl.domains, ls, as)
          PROVE  tok \in Resolve(cl.domains, ls, Asset) /\ datAsset(tok) \in as \cup {NoAsset}
      <4>1. PICK line \in lines : tok \in classify(line, as)
        BY <2>1, <3>1
      <4>2. tok \in classify(line, Asset) /\ datAsset(tok) \in as \cup {NoAsset}
        BY <1>2, <4>1
      <4>3. QED
        BY <2>1, <4>1, <4>2
    <3>2. ASSUME tok \in Resolve(cl.domains, ls, Asset), datAsset(tok) \in as \cup {NoAsset}
          PROVE  tok \in Resolve(cl.domains, ls, as)
      <4>1. PICK line \in lines : tok \in classify(line, Asset)
        BY <2>1, <3>2
      <4>2. tok \in classify(line, as)
        BY <1>2, <3>2, <4>1
      <4>3. QED
        BY <2>1, <4>1, <4>2
    <3>3. QED
      BY <3>1, <3>2
  <2>3. QED
    BY <2>2
<1>4. QED
  BY <1>3 DEF policyOf

(* A start runs on the filters of the clients, or fails over a name in one. *)
LEMMA StartsRight ==
  ASSUME NEW c \in ConfigRow, UniqueClients(c.clients), NEW d \in DiskRow, Starts(c, d)
  PROVE  \/ /\ node' = "failed"
            /\ \E i \in DOMAIN c.clients : \E tok : Stops(c.clients[i], d, tok)
         \/ /\ node' = "running" /\ users' \in Seq(PolicyRow) /\ Unique(users)'
            /\ x' = Generate(c, users')
<1> DEFINE policies == userDomainPolicies(c.clients, d.lists, Present(d))
<1>1. c.clients \in Seq(ClientRow) /\ d.assets \in [Asset -> AssetState]
  BY DEF ConfigRow, DiskRow
<1>2. /\ policies \in Seq(PolicyRow) /\ Unique(policies)
      /\ \A k \in 1..Len(policies) : \E i \in DOMAIN c.clients :
           policies[k] = policyOf(c.clients[i], d.lists, Present(d))
  BY <1>1, ClientsPolicies
<1>3. IF Refuses(policies, d)
      THEN node' = "failed" /\ x' = NoRouting /\ users' = <<>>
      ELSE node' = "running" /\ x' = Generate(c, policies) /\ users' = policies
  BY DEF Starts
<1> HIDE DEF policies
<1>4. CASE Refuses(policies, d)
  <2>1. PICK k \in DOMAIN policies : \E tok \in policies[k].tokens :
               tok \in Unknown \/ (datAsset(tok) # NoAsset /\ d.assets[datAsset(tok)] # "good")
    BY <1>4 DEF Refuses
  <2>2. PICK tok \in policies[k].tokens :
               tok \in Unknown \/ (datAsset(tok) # NoAsset /\ d.assets[datAsset(tok)] # "good")
    BY <2>1
  <2>3. k \in 1..Len(policies)
    BY <1>2
  <2>4. PICK i \in DOMAIN c.clients : policies[k] = policyOf(c.clients[i], d.lists, Present(d))
    BY <1>2, <2>3
  <2>5. Present(d) \in SUBSET Asset
    BY DEF Present
  <2>6. /\ tok \in policyOf(c.clients[i], d.lists, Asset).tokens
        /\ datAsset(tok) \in Present(d) \cup {NoAsset}
    BY <2>2, <2>4, <2>5, NamedTokens
  <2>7. datAsset(tok) # NoAsset => datAsset(tok) \in Asset /\ d.assets[datAsset(tok)] # "missing"
    BY <2>6 DEF Present
  <2>8. datAsset(tok) \in Asset /\ d.assets[datAsset(tok)] # "good" /\ datAsset(tok) # NoAsset =>
          d.assets[datAsset(tok)] = "bad"
    BY <1>1, <2>7 DEF AssetState
  <2>9. Stops(c.clients[i], d, tok)
    BY <2>2, <2>6, <2>7, <2>8 DEF Stops
  <2>10. QED
    BY <1>3, <1>4, <2>9
<1>5. CASE ~ Refuses(policies, d)
  <2>1. node' = "running" /\ x' = Generate(c, policies) /\ users' = policies
    BY <1>3, <1>5
  <2>2. Unique(users)'
    BY <1>2, <2>1 DEF Unique
  <2>3. QED
    BY <1>2, <2>1, <2>2
<1>6. QED
  BY <1>4, <1>5

LEMMA RunningStep == Edited /\ OnDisk /\ Running /\ [Next]_vars => Running'
<1> SUFFICES ASSUME Edited, OnDisk, Running, [Next]_vars PROVE Running'
  OBVIOUS
<1>1. Edited' /\ OnDisk'
  BY EditedStep, DiskStep
<1>2. config' \in ConfigRow /\ UniqueClients(config'.clients) /\ Disk' \in DiskRow
  BY <1>1 DEF Edited, OnDisk, UniqueClients
<1>3. CASE UNCHANGED nodeVars /\ (config' = config \/ node # "running")
  BY <1>3 DEF Running, nodeVars, Unique
<1>4. CASE node' = "down"
  BY <1>4 DEF Running
<1>5. CASE Starts(config', Disk')
  <2>1. \/ node' = "failed"
        \/ /\ node' = "running" /\ users' \in Seq(PolicyRow) /\ Unique(users)'
           /\ x' = Generate(config', users')
    BY <1>2, <1>5, StartsRight
  <2>2. QED
    BY <2>1 DEF Running, Generate
<1>6. QED
  BY <1>3, <1>4, <1>5, NodeStep

LEMMA NextInv == DomainInv /\ [Next]_vars => DomainInv'
  BY EditedStep, DiskStep, RunningStep DEF DomainInv

LEMMA Invariant == Spec => []DomainInv
  BY InitInv, NextInv, PTL DEF Spec

---------------------------------------------------------------------------
(* Theorems.                                                               *)

(* The type invariant, for every set of clients, lists and filters: what   *)
(* link add, edit, remove, update and setup's default leave is a list of   *)
(* clients with one row for each UUID, in force and in draft.              *)
THEOREM TypeCorrect == Spec => []TypeOK
  BY Invariant, InvType, PTL

LEMMA ResolveFacts ==
  ASSUME NEW c, NEW policies
  PROVE  /\ Generate(c, policies).resolve \in BOOLEAN
         /\ \A i \in DOMAIN policies :
              "country" \in policies[i].tokens => Generate(c, policies).resolve
  BY DEF Generate, needsIPResolve

LEMMA RunningMeans == DomainInv => RoutesMean
<1> SUFFICES ASSUME DomainInv, node = "running", NEW u \in Client, NEW conn \in Connection
             PROVE  Route(x, u, conn) = Meant(u, conn)
  BY DEF RoutesMean
<1>1. config \in ConfigRow /\ users \in Seq(PolicyRow) /\ Unique(users) /\ x = Generate(config, users)
  BY DEF DomainInv, Edited, Running
<1>2. DOMAIN users = 1..Len(users) /\ \A i \in 1..Len(users) : users[i] \in PolicyRow
  BY <1>1
<1>3. x.resolve \in BOOLEAN
  BY <1>1, ResolveFacts
<1>4. CASE \E i \in DOMAIN users : users[i].email = u
  <2> DEFINE i == CHOOSE j \in DOMAIN users : users[j].email = u
             p == users[i]
             named == conn.names \cap p.tokens # {}
             byAddress == /\ conn.by = "domain" /\ p.mode = "whitelist"
                          /\ conn.names \cap p.tokens = {} /\ conn.net \in p.tokens
  <2>1. i \in 1..Len(users) /\ p.email = u
    BY <1>2, <1>4
  <2>2. \A j \in DOMAIN users : users[j].email = u => j = i
    BY <1>1, <1>2, <2>1 DEF Unique
  <2>3. DecidedByName(u, conn) <=> p.mode = "whitelist" \/ named
    BY <1>2, <2>1, <2>2 DEF DecidedByName
  <2>4. ListedByAddressOnly(u, conn) <=> byAddress
    BY <1>2, <2>1, <2>2 DEF ListedByAddressOnly
  <2>5. Meant(u, conn) =
          IF conn.bittorrent /\ config.blockBittorrent THEN "block"
          ELSE IF /\ conn.net = "private" /\ config.blockPrivate
                  /\ conn.by = "ip" \/ (x.resolve /\ ~ DecidedByName(u, conn))
          THEN "block"
          ELSE IF ListedByAddressOnly(u, conn) THEN "block"
          ELSE Meaning(p.mode, p.tokens, conn, x.resolve)
    BY <1>4 DEF Meant
  <2> HIDE DEF i
  <2>6. Route(x, u, conn) = Passes(Global(config, conn), Own(p, conn), x.resolve)
    BY <1>1, <2>1, RouteIsPasses
  <2>7. p \in PolicyRow
    BY <1>2, <2>1
  <2> HIDE DEF p
  <2>8. Passes(Global(config, conn), Own(p, conn), x.resolve) =
          IF conn.bittorrent /\ config.blockBittorrent THEN "block"
          ELSE IF /\ conn.net = "private" /\ config.blockPrivate
                  /\ conn.by = "ip" \/ (x.resolve /\ ~ (p.mode = "whitelist" \/ named))
          THEN "block"
          ELSE IF byAddress THEN "block"
          ELSE Meaning(p.mode, p.tokens, conn, x.resolve)
    BY <1>1, <1>3, <2>7, OwnMeans
  <2> HIDE DEF named, byAddress
  <2>9. QED
    BY <2>3, <2>4, <2>5, <2>6, <2>8
<1>5. CASE ~ \E i \in DOMAIN users : users[i].email = u
  <2>1. Route(x, u, conn) = Passes(Global(config, conn), NoneOwn, x.resolve)
    BY <1>1, <1>2, <1>5, RouteIsPasses
  <2>2. ~ DecidedByName(u, conn) /\ ~ ListedByAddressOnly(u, conn)
    BY <1>5 DEF DecidedByName, ListedByAddressOnly
  <2>3. Meant(u, conn) =
          IF conn.bittorrent /\ config.blockBittorrent THEN "block"
          ELSE IF conn.net = "private" /\ config.blockPrivate /\ (conn.by = "ip" \/ x.resolve) THEN "block"
          ELSE "direct"
    BY <1>5, <2>2 DEF Meant
  <2>4. QED
    BY <1>1, <1>3, <2>1, <2>3, NoneMeans
<1>6. QED
  BY <1>4, <1>5

(* Every filter the node was started with treats every connection as its    *)
(* mode and resolved sources say, however many clients there are and        *)
(* whatever their filters, where a domain's address counts only as far as   *)
(* Meant says: less than is documented, see RoutesMean (userDomainPolicies, *)
(* xraygen.Generate, and xray's two passes).                                *)
THEOREM RoutesAlwaysMean == Spec => []RoutesMean
  BY Invariant, RunningMeans, PTL

LEMMA RunningIsolated == DomainInv => Isolated
<1> SUFFICES ASSUME DomainInv, node = "running", NEW u \in Client, NEW conn \in Connection,
                    ~ (conn.by = "domain" /\ conn.net = "private")
             PROVE  LET own == Appended([i \in DOMAIN users |-> When(users[i].email = u, users[i])])
                        alone == Generate(config, own)
                    IN  Route(x, u, conn) = Route(alone, u, conn)
  BY DEF Isolated
<1> DEFINE own == Appended([i \in DOMAIN users |-> When(users[i].email = u, users[i])])
           alone == Generate(config, own)
<1>1. config \in ConfigRow /\ users \in Seq(PolicyRow) /\ Unique(users) /\ x = Generate(config, users)
  BY DEF DomainInv, Edited, Running
<1>2. DOMAIN users = 1..Len(users) /\ \A i \in 1..Len(users) : users[i] \in PolicyRow
  BY <1>1
<1>3. /\ own \in Seq(PolicyRow) /\ Unique(own)
      /\ \A k \in 1..Len(own) : \E i \in 1..Len(users) : users[i].email = u /\ own[k] = users[i]
      /\ \A i \in 1..Len(users) : users[i].email = u => \E k \in 1..Len(own) : own[k] = users[i]
  BY <1>1, OwnPolicies
<1> HIDE DEF own
<1>4. DOMAIN own = 1..Len(own)
  BY <1>3
<1>5. /\ x.resolve \in BOOLEAN /\ alone.resolve \in BOOLEAN
      /\ \A i \in 1..Len(users) : "country" \in users[i].tokens => x.resolve
      /\ \A k \in 1..Len(own) : "country" \in own[k].tokens => alone.resolve
  BY <1>1, <1>2, <1>4, ResolveFacts
<1>6. CASE \E i \in 1..Len(users) : users[i].email = u
  <2>1. PICK i \in 1..Len(users) : users[i].email = u
    BY <1>6
  <2>2. PICK k \in 1..Len(own) : own[k] = users[i]
    BY <1>3, <2>1
  <2> DEFINE p == users[i]
  <2>3. p \in PolicyRow /\ ("country" \in p.tokens => x.resolve /\ alone.resolve)
    BY <1>2, <1>5, <2>1, <2>2
  <2>4. Route(x, u, conn) = Passes(Global(config, conn), Own(p, conn), x.resolve)
    BY <1>1, <2>1, RouteIsPasses
  <2>5. Route(alone, u, conn) = Passes(Global(config, conn), Own(p, conn), alone.resolve)
    <3>1. own[k].email = u /\ own[k] = p
      BY <2>1, <2>2
    <3>2. own \in Seq(PolicyRow) /\ Unique(own) /\ config \in ConfigRow /\ k \in 1..Len(own)
      BY <1>1, <1>3, <2>2
    <3>3. Route(alone, u, conn) = Passes(Global(config, conn), Own(own[k], conn), alone.resolve)
      BY <3>1, <3>2, RouteIsPasses
    <3>4. QED
      BY <3>1, <3>3
  <2> HIDE DEF p, alone
  <2>6. Passes(Global(config, conn), Own(p, conn), x.resolve)
        = Passes(Global(config, conn), Own(p, conn), alone.resolve)
    BY <1>1, <1>5, <2>3, ResolveElsewhere
  <2>7. QED
    BY <2>4, <2>5, <2>6 DEF alone, own
<1>7. CASE \A i \in 1..Len(users) : users[i].email # u
  <2>1. Len(own) \in Nat /\ \A k \in 1..Len(own) : own[k].email # u
    BY <1>3, <1>7
  <2>2. Route(x, u, conn) = Passes(Global(config, conn), NoneOwn, x.resolve)
    BY <1>1, <1>7, RouteIsPasses
  <2>3. Route(alone, u, conn) = Passes(Global(config, conn), NoneOwn, alone.resolve)
    BY <1>1, <1>3, <2>1, RouteIsPasses
  <2> HIDE DEF alone
  <2>4. Passes(Global(config, conn), NoneOwn, x.resolve)
        = Passes(Global(config, conn), NoneOwn, alone.resolve)
    BY <1>1, <1>5, ResolveElsewhere
  <2>5. QED
    BY <2>2, <2>3, <2>4 DEF alone, own
<1>8. QED
  BY <1>6, <1>7

(* A user's routes are those of a node with no other user, whatever the     *)
(* others' filters and their order (xraygen.Generate's user-scoped rules).  *)
THEOREM AlwaysIsolated == Spec => []Isolated
  BY Invariant, RunningIsolated, PTL

(* No download takes away what a filter resolves to, but for an empty data  *)
(* file whose digest could not be had and a remote list that came with      *)
(* nothing usable (geodata.Download, fetchRemoteList).                      *)
THEOREM FiltersAlwaysKept == Spec => FiltersKept
<1> DEFINE Kept(cl) ==
      Matchers(cl, Disk) # {} /\ Matchers(cl, Disk') = {} =>
         \/ \E a \in unverified' : assets'[a] = "missing"
         \/ "url" \in cl.domains /\ lists' # lists /\ lists'["url"] # {}
<1>1. ASSUME DomainInv, [Next]_vars, NEW cl,
             Matchers(cl, Disk) # {}, Matchers(cl, Disk') = {},
             ~ \E a \in unverified' : assets'[a] = "missing",
             ~ ("url" \in cl.domains /\ lists' # lists /\ lists'["url"] # {})
      PROVE  FALSE
  <2>1. OnDisk' /\ Better(Disk, Disk')
    BY <1>1, DiskStep DEF DomainInv
  <2>2. /\ Disk.assets = assets /\ Disk.lists = lists /\ Disk'.assets = assets'
        /\ Disk'.lists = lists' /\ Disk'.unverified = unverified'
    BY DEF Disk
  <2>3. Present(Disk) \subseteq Present(Disk')
    BY <1>1, <2>1, <2>2 DEF Better, Present
  <2>4. Present(Disk) \in SUBSET Asset /\ Present(Disk') \in SUBSET Asset
    BY DEF Present
  <2>5. PICK tok \in policyOf(cl, lists, Asset).tokens : datAsset(tok) \in Present(Disk) \cup {NoAsset}
    BY <1>1, <2>2, <2>4, NamedTokens DEF Matchers
  <2>6. ASSUME NEW l \in ListRef \cap cl.domains, l \in DOMAIN lists
        PROVE  l \in DOMAIN lists' /\ lists'[l] = lists[l]
    <3>1. l \in DOMAIN lists' /\ (lists'[l] = lists[l] \/ (l = "url" /\ lists'[l] # {}))
      BY <2>1, <2>2, <2>6 DEF Better
    <3>2. QED
      BY <1>1, <2>6, <3>1
  <2>7. \A src \in cl.domains : readList(src, lists) \subseteq readList(src, lists')
    BY <2>6 DEF readList
  <2>8. Resolve(cl.domains, lists, Asset) \subseteq Resolve(cl.domains, lists', Asset)
    BY <2>7 DEF Resolve
  <2>9. tok \in policyOf(cl, lists', Asset).tokens
    BY <2>5, <2>8 DEF policyOf
  <2>10. tok \in Matchers(cl, Disk')
    BY <2>2, <2>3, <2>4, <2>5, <2>9, NamedTokens DEF Matchers
  <2>11. QED
    BY <1>1, <2>10
<1>2. DomainInv /\ [Next]_vars => \A i \in DOMAIN config.clients : Kept(config.clients[i])
  BY <1>1
<1>3. QED
  BY Invariant, <1>2, PTL DEF Spec, FiltersKept

(* xray refuses what the filters became only over a name it does not know,  *)
(* or over a data file installed unverified, and in either case one whose   *)
(* data file is there: Resolve leaves out what needs a file that is not.    *)
THEOREM MissingFileNeverStopsTheNode == Spec => MissingFileNeverStops
<1> DEFINE Stopped ==
      node' = "failed" /\ node # "failed" =>
        \E i \in DOMAIN config'.clients :
        \E tok \in policyOf(config'.clients[i], lists', Asset).tokens :
          /\ datAsset(tok) # NoAsset => assets'[datAsset(tok)] # "missing"
          /\ tok \in Unknown \/ datAsset(tok) \in unverified'
<1>1. DomainInv /\ [Next]_vars => Stopped
  <2> SUFFICES ASSUME DomainInv, [Next]_vars, node' = "failed", node # "failed"
               PROVE  Stopped
    OBVIOUS
  <2>1. Edited' /\ OnDisk' /\ OnDisk
    BY EditedStep, DiskStep DEF DomainInv
  <2>2. Starts(config', Disk')
    BY <2>1, NodeStep DEF nodeVars
  <2>3. config' \in ConfigRow /\ UniqueClients(config'.clients) /\ Disk' \in DiskRow
    BY <2>1 DEF Edited, OnDisk, UniqueClients
  <2>4. PICK i \in DOMAIN config'.clients : \E tok : Stops(config'.clients[i], Disk', tok)
    BY <2>2, <2>3, StartsRight
  <2>5. PICK tok : Stops(config'.clients[i], Disk', tok)
    BY <2>4
  <2>6. /\ Disk'.assets = assets' /\ Disk'.lists = lists'
        /\ \A a \in Asset : assets'[a] = "bad" => a \in unverified'
    BY <2>1 DEF Disk, OnDisk
  <2>7. QED
    BY <2>4, <2>5, <2>6 DEF Stops
<1>2. QED
  BY Invariant, <1>1, PTL DEF Spec, MissingFileNeverStops

============================================================================
