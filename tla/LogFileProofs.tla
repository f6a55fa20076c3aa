--------------------------- MODULE LogFileProofs ---------------------------
(***************************************************************************)
(* What LogFile promises, proved for every size of log and line, every     *)
(* number of lines written and of rotations.                               *)
(*                                                                         *)
(* LogInv is inductive.  Its part RecentInv is about the daemon: the log,  *)
(* or during a rotation the tail about to be written back, is orderly,     *)
(* has nothing beyond the last line written and, unless a write was torn,  *)
(* only whole lines; that is what lets a rotation cut at a newline and     *)
(* keep the newest lines (KeptRecent).  Its part FollowInv is about the    *)
(* follower: what it printed is the reading of what it has gone past, and  *)
(* it started where a line ends.                                           *)
(*                                                                         *)
(* The follower's steps rest on ReadInTwo: however a text is cut, reading  *)
(* it in two goes, the second from what the first left over, gives what    *)
(* reading it at once gives.  It is an induction over the text's units,    *)
(* from the well-foundedness of < (NumberInduction).                       *)
(***************************************************************************)
EXTENDS LogFile, SequenceTheorems, WellFoundedInduction, TLAPS

(* Induction over the natural numbers, for a set of them.                   *)
LEMMA NumberInduction ==
  ASSUME NEW T \in SUBSET Nat, 0 \in T, \A n \in T : n + 1 \in T
  PROVE  T = Nat
<1> DEFINE R == {ss \in Nat \X Nat : ss[1] < ss[2]}
           Bad == Nat \ T
<1> SUFFICES ASSUME Bad # {} PROVE FALSE
  OBVIOUS
<1>1. IsWellFoundedOn(R, Nat)
  BY NatLessThanWellFounded DEF OpToRel
<1> HIDE DEF R
<1>2. \E n \in Bad : \A k \in Bad : ~ (<<k, n>> \in R)
  <2> HIDE DEF Bad
  <2>1. Bad \subseteq Nat
    BY DEF Bad
  <2>2. QED
    BY <1>1, <2>1, WFMin
<1>3. PICK m \in Bad : \A k \in Bad : ~ (<<k, m>> \in R)
  BY <1>2
<1>4. m \in Nat /\ m # 0
  OBVIOUS
<1>5. <<m - 1, m>> \in R
  BY <1>4 DEF R
<1>6. m - 1 \in T
  BY <1>3, <1>4, <1>5
<1>7. QED
  BY <1>4, <1>6

(* A set of numbers that is not empty has a least one, and Min is it. *)
LEMMA MinIsLeast ==
  ASSUME NEW S \in SUBSET Nat, S # {}
  PROVE  Min(S) \in S /\ \A k \in S : Min(S) <= k
<1> DEFINE R == {ss \in Nat \X Nat : ss[1] < ss[2]}
<1>1. IsWellFoundedOn(R, Nat)
  BY NatLessThanWellFounded DEF OpToRel
<1> HIDE DEF R
<1>2. \E n \in S : \A k \in S : ~ (<<k, n>> \in R)
  BY <1>1, WFMin
<1>3. \A n, k \in S : k < n => <<k, n>> \in R
  BY DEF R
<1>4. \A n, k \in S : n <= k \/ k < n
  OBVIOUS
<1>5. \E n \in S : \A k \in S : n <= k
  BY <1>2, <1>3, <1>4
<1>6. QED
  BY <1>5, Zenon DEF Min

(* A loop's values: from v on, turn i takes what turn i - 1 left to F[i] of  *)
(* it.                                                                       *)
Turns(N, V) == [1..N -> [V -> V]]
Loop(N, V, v, F, g) ==
  g \in [0..N -> V] /\ g[0] = v /\ \A i \in 1..N : g[i] = F[i][g[i - 1]]

(* There is such a function (Right(g, n): it is right up to turn n).         *)
LEMMA LoopExists ==
  ASSUME NEW V, NEW N \in Nat, NEW v \in V, NEW F \in Turns(N, V)
  PROVE  \E g : Loop(N, V, v, F, g)
<1> DEFINE G == [0..N -> V]
           Right(g, n) == g[0] = v /\ \A i \in 1..N : i <= n => g[i] = F[i][g[i - 1]]
           T == {n \in Nat : n <= N => \E g \in G : Right(g, n)}
<1> USE DEF Turns
<1>1. 0 \in T
  <2> DEFINE g == [i \in 0..N |-> v]
  <2>1. g \in G /\ Right(g, 0)
    OBVIOUS
  <2>2. QED
    BY <2>1
<1>2. ASSUME NEW n \in T PROVE n + 1 \in T
  <2>0. n \in Nat
    OBVIOUS
  <2>1. SUFFICES ASSUME n + 1 <= N PROVE \E g \in G : Right(g, n + 1)
    BY <2>0
  <2>2. PICK g \in G : Right(g, n)
    BY <2>0, <2>1
  <2> DEFINE w == F[n + 1][g[n]]
             h == [g EXCEPT ![n + 1] = w]
  <2>3. w \in V
    BY <2>0, <2>1
  <2> HIDE DEF w
  <2>4. h \in G
    BY <2>3
  <2>5. h[n + 1] = w /\ \A i \in 0..N : i # n + 1 => h[i] = g[i]
    BY <2>0, <2>1
  <2> HIDE DEF h
  <2>6. Right(h, n + 1)
    <3>1. h[0] = v
      BY <2>0, <2>1, <2>2, <2>5
    <3>2. ASSUME NEW i \in 1..N, i <= n + 1 PROVE h[i] = F[i][h[i - 1]]
      <4>1. h[i - 1] = g[i - 1]
        BY <2>0, <2>5, <3>2
      <4>2. CASE i = n + 1
        BY <2>0, <2>5, <4>1, <4>2 DEF w
      <4>3. CASE i # n + 1
        BY <2>0, <2>2, <2>5, <3>2, <4>1, <4>3
      <4>4. QED
        BY <4>2, <4>3
    <3>3. QED
      BY <3>1, <3>2
  <2>7. QED
    BY <2>4, <2>6
<1>3. T = Nat
  <2> HIDE DEF T
  <2>1. T \in SUBSET Nat
    BY DEF T
  <2>2. QED
    BY <1>1, <1>2, <2>1, NumberInduction
<1>4. N \in T
  BY <1>3
<1>5. PICK g \in G : Right(g, N)
  BY <1>4
<1>6. Loop(N, V, v, F, g)
  BY <1>5 DEF Loop
<1>7. QED
  BY <1>6

(* A loop's values stay where each turn leads.                              *)
LEMMA LoopStays ==
  ASSUME NEW V, NEW N \in Nat, NEW v \in V, NEW F \in Turns(N, V), NEW a, a[0] = v,
         \A i \in 1..N : a[i - 1] \in V => a[i] = F[i][a[i - 1]]
  PROVE  \A i \in 0..N : a[i] \in V
<1> DEFINE T == {n \in Nat : n <= N => a[n] \in V}
<1>1. 0 \in T
  OBVIOUS
<1>2. ASSUME NEW n \in T PROVE n + 1 \in T
  <2>0. n \in Nat
    OBVIOUS
  <2>1. ASSUME n + 1 <= N PROVE a[n + 1] \in V
    <3>1. a[n] \in V /\ n + 1 \in 1..N /\ (n + 1) - 1 = n
      BY <2>0, <2>1
    <3>2. a[n + 1] = F[n + 1][a[n]]
      BY <3>1
    <3>3. QED
      BY <3>1, <3>2 DEF Turns
  <2>2. QED
    BY <2>0, <2>1
<1>3. T = Nat
  <2> HIDE DEF T
  <2>1. T \in SUBSET Nat
    BY DEF T
  <2>2. QED
    BY <1>1, <1>2, <2>1, NumberInduction
<1>4. QED
  BY <1>3

---------------------------------------------------------------------------
(* Reading a text unit by unit.                                            *)

(* The functions Rests and Matches define, as the equations they solve.     *)
RestStep(text, rest, i) ==
  IF i = 0 THEN <<>> ELSE IF EndsLine(text[i]) THEN <<>> ELSE Append(rest[i - 1], text[i])
ChosenRests(text) == CHOOSE g : g = [i \in 0..Len(text) |-> RestStep(text, g, i)]
Printed(text, src, i) == EndsLine(text[i]) /\ lineMatches(LineAt(text, i), src)
MatchStep(text, src, lines, i) ==
  IF i = 0 THEN <<>>
  ELSE IF Printed(text, src, i)
  THEN Append(lines[i - 1], LineAt(text, i)) ELSE lines[i - 1]
ChosenMatches(text, src) == CHOOSE g : g = [i \in 0..Len(text) |-> MatchStep(text, src, g, i)]

LEMMA AsChosen ==
  ASSUME NEW text, NEW src
  PROVE  Rests(text) = ChosenRests(text) /\ Matches(text, src) = ChosenMatches(text, src)
  BY DEF Rests, ChosenRests, RestStep, Matches, ChosenMatches, MatchStep, Printed

(* Each is what its definition says, unit by unit.                          *)
LEMMA RestsAre ==
  ASSUME NEW S, NEW text \in Seq(S)
  PROVE  /\ Rests(text)[0] = <<>>
         /\ \A i \in 1..Len(text) : Rests(text)[i] =
              IF EndsLine(text[i]) THEN <<>> ELSE Append(Rests(text)[i - 1], text[i])
         /\ \A i \in 0..Len(text) : Rests(text)[i] \in Seq(S)
<1> DEFINE N == Len(text)
           V == Seq(S)
           F == [i \in 1..N |-> [s \in V |-> IF EndsLine(text[i]) THEN <<>> ELSE Append(s, text[i])]]
           a == Rests(text)
<1>1. N \in Nat /\ <<>> \in V /\ \A i \in 1..N : text[i] \in S
  OBVIOUS
<1>2. \A i \in 1..N : \A s \in V : (IF EndsLine(text[i]) THEN <<>> ELSE Append(s, text[i])) \in V
  BY <1>1
<1> HIDE DEF N, V
<1>3. F \in Turns(N, V)
  BY <1>2 DEF Turns
<1>4. \A i \in 1..N : \A s \in V : F[i][s] = IF EndsLine(text[i]) THEN <<>> ELSE Append(s, text[i])
  OBVIOUS
<1> HIDE DEF F
<1>5. PICK g : Loop(N, V, <<>>, F, g)
  BY <1>1, <1>3, LoopExists
<1>6. ASSUME NEW i \in 0..N PROVE g[i] = RestStep(text, g, i)
  <2>1. CASE i = 0
    BY <1>5, <2>1 DEF Loop, RestStep
  <2>2. CASE i # 0
    <3>1. i \in 1..N /\ i - 1 \in 0..N
      BY <1>1, <2>2
    <3>2. g[i - 1] \in V /\ g[i] = F[i][g[i - 1]]
      BY <1>5, <3>1 DEF Loop
    <3>3. QED
      BY <1>4, <2>2, <3>1, <3>2 DEF RestStep
  <2>3. QED
    BY <2>1, <2>2
<1>7. g = [i \in 0..N |-> RestStep(text, g, i)]
  BY <1>5, <1>6 DEF Loop
<1>8. a = [i \in 0..N |-> RestStep(text, a, i)]
  BY <1>7, AsChosen DEF ChosenRests, N
<1> HIDE DEF a
<1>9. a[0] = <<>> /\ \A i \in 1..N : a[i] = IF EndsLine(text[i]) THEN <<>> ELSE Append(a[i - 1], text[i])
  <2>1. \A i \in 0..N : a[i] = RestStep(text, a, i)
    BY <1>8
  <2>2. 0 \in 0..N /\ \A i \in 1..N : i \in 0..N /\ i # 0
    BY <1>1
  <2>3. QED
    BY <2>1, <2>2 DEF RestStep
<1>10. \A i \in 0..N : a[i] \in V
  BY <1>1, <1>3, <1>4, <1>9, LoopStays
<1>11. QED
  BY <1>9, <1>10 DEF a, N, V

LEMMA MatchesAre ==
  ASSUME NEW S, NEW text \in Seq(S), NEW src
  PROVE  /\ Matches(text, src)[0] = <<>>
         /\ \A i \in 1..Len(text) : Matches(text, src)[i] =
              IF Printed(text, src, i)
              THEN Append(Matches(text, src)[i - 1], LineAt(text, i)) ELSE Matches(text, src)[i - 1]
         /\ \A i \in 0..Len(text) : Matches(text, src)[i] \in Seq(Seq(S))
         /\ \A i \in 1..Len(text) : LineAt(text, i) \in Seq(S)
<1> DEFINE N == Len(text)
           V == Seq(Seq(S))
           Adds(i) == Printed(text, src, i)
           line(i) == LineAt(text, i)
           F == [i \in 1..N |-> [s \in V |-> IF Adds(i) THEN Append(s, line(i)) ELSE s]]
           a == Matches(text, src)
<1>1. N \in Nat /\ <<>> \in V /\ \A i \in 1..N : line(i) \in Seq(S)
  <2>1. ASSUME NEW i \in 1..N PROVE line(i) \in Seq(S)
    <3>1. text[i] \in S /\ i - 1 \in 0..N
      OBVIOUS
    <3>2. Rests(text)[i - 1] \in Seq(S)
      BY <3>1, RestsAre
    <3>3. QED
      BY <3>1, <3>2 DEF LineAt
  <2>2. QED
    BY <2>1
<1> HIDE DEF line
<1>2. \A i \in 1..N : \A s \in V : (IF Adds(i) THEN Append(s, line(i)) ELSE s) \in V
  <2> HIDE DEF Adds
  <2>1. \A i \in 1..N : \A s \in V : Append(s, line(i)) \in V
    BY <1>1
  <2>2. QED
    BY <2>1
<1> HIDE DEF N, V, Adds
<1>3. F \in Turns(N, V)
  BY <1>2 DEF Turns
<1>4. \A i \in 1..N : \A s \in V : F[i][s] = IF Adds(i) THEN Append(s, line(i)) ELSE s
  OBVIOUS
<1> HIDE DEF F
<1>5. PICK g : Loop(N, V, <<>>, F, g)
  BY <1>1, <1>3, LoopExists
<1>0. \A h, i : MatchStep(text, src, h, i) =
               IF i = 0 THEN <<>> ELSE IF Adds(i) THEN Append(h[i - 1], line(i)) ELSE h[i - 1]
  BY DEF MatchStep, Adds, line
<1>6. ASSUME NEW i \in 0..N PROVE g[i] = MatchStep(text, src, g, i)
  <2>1. CASE i = 0
    BY <1>0, <1>5, <2>1 DEF Loop
  <2>2. CASE i # 0
    <3>1. i \in 1..N /\ i - 1 \in 0..N
      BY <1>1, <2>2
    <3>2. g[i - 1] \in V /\ g[i] = F[i][g[i - 1]]
      BY <1>5, <3>1 DEF Loop
    <3>3. QED
      BY <1>0, <1>4, <2>2, <3>1, <3>2
  <2>3. QED
    BY <2>1, <2>2
<1>7. g = [i \in 0..N |-> MatchStep(text, src, g, i)]
  BY <1>5, <1>6 DEF Loop
<1>8. a = [i \in 0..N |-> MatchStep(text, src, a, i)]
  BY <1>7, AsChosen DEF ChosenMatches, N
<1> HIDE DEF a
<1>9. a[0] = <<>> /\ \A i \in 1..N : a[i] = IF Adds(i) THEN Append(a[i - 1], line(i)) ELSE a[i - 1]
  <2>1. \A i \in 0..N : a[i] = MatchStep(text, src, a, i)
    BY <1>8
  <2>2. 0 \in 0..N /\ \A i \in 1..N : i \in 0..N /\ i # 0
    BY <1>1
  <2>3. QED
    BY <1>0, <2>1, <2>2
<1>10. \A i \in 0..N : a[i] \in V
  BY <1>1, <1>3, <1>4, <1>9, LoopStays
<1>11. QED
  BY <1>1, <1>9, <1>10 DEF a, N, V, Adds, line

(* What is read of a text does not depend on what comes after it.           *)
LEMMA PrefixRead ==
  ASSUME NEW S, NEW t \in Seq(S), NEW c \in Seq(S), NEW src
  PROVE  \A n \in 0..Len(t) : /\ Rests(t \o c)[n] = Rests(t)[n]
                              /\ Matches(t \o c, src)[n] = Matches(t, src)[n]
<1> DEFINE tc == t \o c
           N == Len(t)
           T == {n \in Nat : n <= N => /\ Rests(tc)[n] = Rests(t)[n]
                                       /\ Matches(tc, src)[n] = Matches(t, src)[n]}
<1>1. /\ tc \in Seq(S) /\ N \in Nat /\ Len(tc) \in Nat /\ N <= Len(tc)
      /\ \A i \in 1..N : i \in 1..Len(tc) /\ tc[i] = t[i]
  OBVIOUS
<1> HIDE DEF tc
<1>2. /\ Rests(tc)[0] = <<>> /\ Rests(t)[0] = <<>>
      /\ Matches(tc, src)[0] = <<>> /\ Matches(t, src)[0] = <<>>
  BY <1>1, RestsAre, MatchesAre
<1>3. 0 \in T
  BY <1>2
<1>4. ASSUME NEW n \in T PROVE n + 1 \in T
  <2>0. n \in Nat
    OBVIOUS
  <2>1. ASSUME n + 1 <= N
        PROVE  Rests(tc)[n + 1] = Rests(t)[n + 1] /\ Matches(tc, src)[n + 1] = Matches(t, src)[n + 1]
    <3> DEFINE m == n + 1
    <3>1. m \in 1..N /\ m - 1 = n /\ n <= N
      BY <1>1, <2>0, <2>1
    <3>2. Rests(tc)[n] = Rests(t)[n] /\ Matches(tc, src)[n] = Matches(t, src)[n]
      BY <3>1
    <3> HIDE DEF m
    <3>3. m \in 1..Len(tc) /\ tc[m] = t[m] /\ m \in 1..Len(t)
      BY <1>1, <3>1
    <3>4. LineAt(tc, m) = LineAt(t, m)
      BY <3>1, <3>2, <3>3 DEF LineAt
    <3>5. Rests(tc)[m] = Rests(t)[m]
      <4>1. Rests(tc)[m] = IF EndsLine(tc[m]) THEN <<>> ELSE Append(Rests(tc)[m - 1], tc[m])
        BY <1>1, <3>3, RestsAre
      <4>2. Rests(t)[m] = IF EndsLine(t[m]) THEN <<>> ELSE Append(Rests(t)[m - 1], t[m])
        BY <3>3, RestsAre
      <4>3. QED
        BY <3>1, <3>2, <3>3, <4>1, <4>2
    <3>6. Matches(tc, src)[m] = Matches(t, src)[m]
      <4>1. Matches(tc, src)[m] = IF Printed(tc, src, m)
                                  THEN Append(Matches(tc, src)[m - 1], LineAt(tc, m))
                                  ELSE Matches(tc, src)[m - 1]
        BY <1>1, <3>3, MatchesAre
      <4>2. Matches(t, src)[m] = IF Printed(t, src, m)
                                 THEN Append(Matches(t, src)[m - 1], LineAt(t, m))
                                 ELSE Matches(t, src)[m - 1]
        BY <3>3, MatchesAre
      <4>3. QED
        BY <3>1, <3>2, <3>3, <3>4, <4>1, <4>2 DEF Printed
    <3>7. QED
      BY <3>5, <3>6 DEF m
  <2>2. QED
    BY <2>0, <2>1
<1>5. T = Nat
  <2> HIDE DEF T
  <2>1. T \in SUBSET Nat
    BY DEF T
  <2>2. QED
    BY <1>3, <1>4, <2>1, NumberInduction
<1>6. \A n \in 0..N : n \in T
  BY <1>1, <1>5
<1>7. QED
  BY <1>1, <1>6 DEF tc

(* What follows the last newline has none.                                  *)
Unended(r) == \A k \in 1..Len(r) : ~ EndsLine(r[k])

LEMMA RestUnended ==
  ASSUME NEW S, NEW t \in Seq(S)
  PROVE  \A n \in 0..Len(t) : Unended(Rests(t)[n])
<1> DEFINE N == Len(t)
           r == Rests(t)
           T == {n \in Nat : n <= N => Unended(r[n])}
<1>1. N \in Nat
  OBVIOUS
<1>2. /\ r[0] = <<>> /\ \A i \in 1..N : r[i] = IF EndsLine(t[i]) THEN <<>> ELSE Append(r[i - 1], t[i])
      /\ \A i \in 0..N : r[i] \in Seq(S)
  BY RestsAre
<1>3. Unended(<<>>)
  BY DEF Unended
<1>4. \A i \in 1..N : t[i] \in S
  OBVIOUS
<1> HIDE DEF N, r
<1>5. 0 \in T
  BY <1>2, <1>3
<1>6. ASSUME NEW n \in T PROVE n + 1 \in T
  <2>0. n \in Nat
    OBVIOUS
  <2>1. ASSUME n + 1 <= N PROVE Unended(r[n + 1])
    <3> DEFINE m == n + 1
    <3>1. m \in 1..N /\ n \in 0..N /\ m - 1 = n /\ n <= N
      BY <1>1, <2>0, <2>1
    <3>2. Unended(r[n])
      BY <3>1
    <3> HIDE DEF m
    <3>3. r[n] \in Seq(S) /\ t[m] \in S /\ r[m] = IF EndsLine(t[m]) THEN <<>> ELSE Append(r[n], t[m])
      BY <1>2, <1>4, <3>1
    <3>4. CASE EndsLine(t[m])
      BY <1>3, <3>3, <3>4 DEF m
    <3>5. CASE ~ EndsLine(t[m])
      <4> DEFINE s == r[n]
                 u == t[m]
      <4>1. s \in Seq(S) /\ u \in S /\ Unended(s) /\ ~ EndsLine(u) /\ r[m] = Append(s, u)
        BY <3>2, <3>3, <3>5
      <4> HIDE DEF s, u
      <4>2. Len(Append(s, u)) = Len(s) + 1 /\ Len(s) \in Nat
            /\ \A k \in 1..Len(s) + 1 : Append(s, u)[k] = IF k = Len(s) + 1 THEN u ELSE s[k]
        BY <4>1
      <4>3. Unended(Append(s, u))
        BY <4>1, <4>2 DEF Unended
      <4>4. QED
        BY <4>1, <4>3 DEF m
    <3>6. QED
      BY <3>4, <3>5
  <2>2. QED
    BY <2>0, <2>1
<1>7. T = Nat
  <2> HIDE DEF T
  <2>1. T \in SUBSET Nat
    BY DEF T
  <2>2. QED
    BY <1>5, <1>6, <2>1, NumberInduction
<1>8. QED
  BY <1>1, <1>7 DEF r, N

(* A text without a newline has no line, and is all rest.                   *)
LEMMA UnendedRead ==
  ASSUME NEW S, NEW r \in Seq(S), Unended(r), NEW src
  PROVE  Rest(r) = r /\ Matching(r, src) = <<>>
<1> DEFINE N == Len(r)
           a == Rests(r)
           m == Matches(r, src)
           T == {n \in Nat : n <= N => a[n] = SubSeq(r, 1, n) /\ m[n] = <<>>}
<1>0. N \in Nat
  OBVIOUS
<1>1. \A i \in 1..N : ~ EndsLine(r[i])
  BY DEF Unended
<1>2. a[0] = <<>> /\ \A i \in 1..N : a[i] = IF EndsLine(r[i]) THEN <<>> ELSE Append(a[i - 1], r[i])
  BY RestsAre
<1>3. m[0] = <<>> /\ \A i \in 1..N : ~ EndsLine(r[i]) => m[i] = m[i - 1]
  BY MatchesAre DEF Printed
<1>4. SubSeq(r, 1, 0) = <<>> /\ SubSeq(r, 1, N) = r
      /\ \A i \in 1..N : SubSeq(r, 1, i) = Append(SubSeq(r, 1, i - 1), r[i])
  <2>1. SubSeq(r, 1, 0) = <<>> /\ SubSeq(r, 1, N) = r
    OBVIOUS
  <2>2. ASSUME NEW i \in 1..N PROVE SubSeq(r, 1, i) = Append(SubSeq(r, 1, i - 1), r[i])
    OBVIOUS
  <2>3. QED
    BY <2>1, <2>2
<1> HIDE DEF N, a, m
<1>5. 0 \in T
  BY <1>2, <1>3, <1>4
<1>6. ASSUME NEW n \in T PROVE n + 1 \in T
  <2>0. n \in Nat
    OBVIOUS
  <2>1. ASSUME n + 1 <= N PROVE a[n + 1] = SubSeq(r, 1, n + 1) /\ m[n + 1] = <<>>
    <3> DEFINE l == n + 1
    <3>1. l \in 1..N /\ l - 1 = n /\ n <= N
      BY <1>0, <2>0, <2>1
    <3>2. a[n] = SubSeq(r, 1, n) /\ m[n] = <<>>
      BY <3>1
    <3> HIDE DEF l
    <3>3. a[l] = Append(a[n], r[l]) /\ m[l] = m[n] /\ SubSeq(r, 1, l) = Append(SubSeq(r, 1, n), r[l])
      BY <1>1, <1>2, <1>3, <1>4, <3>1
    <3>4. QED
      BY <3>2, <3>3 DEF l
  <2>2. QED
    BY <2>0, <2>1
<1>7. T = Nat
  <2> HIDE DEF T
  <2>1. T \in SUBSET Nat
    BY DEF T
  <2>2. QED
    BY <1>5, <1>6, <2>1, NumberInduction
<1>8. a[N] = r /\ m[N] = <<>>
  <2>1. N \in T
    BY <1>0, <1>7
  <2>2. a[N] = SubSeq(r, 1, N) /\ m[N] = <<>>
    BY <1>0, <2>1
  <2>3. QED
    BY <1>4, <2>2
<1>9. QED
  BY <1>8 DEF a, m, N, Rest, Matching

LEMMA EmptyRead ==
  ASSUME NEW src
  PROVE  Rest(<<>>) = <<>> /\ Matching(<<>>, src) = <<>>
<1>1. <<>> \in Seq({}) /\ Unended(<<>>)
  BY DEF Unended
<1>2. QED
  BY <1>1, UnendedRead

(* A text's rest and lines are texts.                                       *)
LEMMA ReadType ==
  ASSUME NEW S, NEW t \in Seq(S), NEW src
  PROVE  Rest(t) \in Seq(S) /\ Matching(t, src) \in Seq(Seq(S)) /\ Unended(Rest(t))
<1>1. Len(t) \in 0..Len(t)
  OBVIOUS
<1>2. QED
  BY <1>1, RestsAre, MatchesAre, RestUnended DEF Rest, Matching

(* A text that ends with a newline has no rest.                             *)
LEMMA EndedRest ==
  ASSUME NEW S, NEW t \in Seq(S), t # <<>>, EndsLine(t[Len(t)])
  PROVE  Rest(t) = <<>>
<1>1. Len(t) \in 1..Len(t)
  OBVIOUS
<1>2. QED
  BY <1>1, RestsAre DEF Rest

LEMMA AppendToConcat ==
  ASSUME NEW V, NEW s \in Seq(V), NEW t \in Seq(V), NEW e \in V
  PROVE  Append(s \o t, e) = s \o Append(t, e)
  OBVIOUS

(* However a text is cut, reading it in two goes, the second from what was  *)
(* left of the first, gives what reading it at once gives (printStream).    *)
LEMMA ReadInTwo ==
  ASSUME NEW S, NEW t \in Seq(S), NEW c \in Seq(S), NEW src
  PROVE  /\ Rest(t \o c) = Rest(Rest(t) \o c)
         /\ Matching(t \o c, src) = Matching(t, src) \o Matching(Rest(t) \o c, src)
<1> DEFINE r == Rest(t)
           tc == t \o c
           b == r \o c
           M == Matching(t, src)
           p == Len(t)
           q == Len(r)
           N == Len(c)
           At(n) == /\ Rests(tc)[p + n] = Rests(b)[q + n]
                    /\ Matches(tc, src)[p + n] = M \o Matches(b, src)[q + n]
           T == {n \in Nat : n <= N => At(n)}
<1>1. r \in Seq(S) /\ M \in Seq(Seq(S)) /\ Unended(r)
  BY ReadType
<1> HIDE DEF r, M
<1>2. /\ p \in Nat /\ q \in Nat /\ N \in Nat
      /\ tc \in Seq(S) /\ Len(tc) = p + N /\ b \in Seq(S) /\ Len(b) = q + N
      /\ \A i \in 1..N : tc[p + i] = c[i] /\ b[q + i] = c[i]
  BY <1>1
<1>3. At(0)
  <2>0. p \in 0..Len(t) /\ q \in 0..Len(r)
    BY <1>2
  <2>1. Rests(tc)[p] = Rests(t)[p] /\ Matches(tc, src)[p] = Matches(t, src)[p]
    BY <2>0, PrefixRead
  <2> HIDE DEF p, q
  <2>2. Rests(b)[q] = Rests(r)[q] /\ Matches(b, src)[q] = Matches(r, src)[q]
    BY <1>1, <2>0, PrefixRead
  <2>3. Rests(t)[p] = r /\ Matches(t, src)[p] = M
    BY DEF r, M, Rest, Matching, p
  <2>4. Rests(r)[q] = r /\ Matches(r, src)[q] = <<>>
    BY <1>1, UnendedRead DEF Rest, Matching, q
  <2>5. M \o <<>> = M /\ p + 0 = p /\ q + 0 = q
    BY <1>1, <1>2
  <2>6. QED
    BY <2>1, <2>2, <2>3, <2>4, <2>5
<1> HIDE DEF tc, b, p, q, N
<1>4. 0 \in T
  BY <1>3
<1>5. ASSUME NEW n \in T PROVE n + 1 \in T
  <2>0. n \in Nat
    OBVIOUS
  <2>1. ASSUME n + 1 <= N PROVE At(n + 1)
    <3> DEFINE i == p + (n + 1)
               j == q + (n + 1)
               u == c[n + 1]
               R == Rests(tc)[p + n]
               K == Matches(b, src)[q + n]
    <3>1. /\ n + 1 \in 1..N /\ i - 1 = p + n /\ j - 1 = q + n /\ n <= N
          /\ i \in 1..Len(tc) /\ j \in 1..Len(b) /\ j - 1 \in 0..Len(b)
      BY <1>2, <2>0, <2>1
    <3>0. tc \in Seq(S) /\ i \in 1..Len(tc) /\ b \in Seq(S) /\ j \in 1..Len(b)
      BY <1>2, <3>1
    <3>2. tc[i] = u /\ b[j] = u
      BY <1>2, <3>1
    <3>3. At(n)
      BY <3>1
    <3>4. Rests(tc)[i - 1] = R /\ Rests(b)[j - 1] = R
          /\ Matches(tc, src)[i - 1] = M \o K /\ Matches(b, src)[j - 1] = K
      BY <3>1, <3>3
    <3> HIDE DEF i, j, u, R, K
    <3>5. LineAt(tc, i) = Append(R, u) /\ LineAt(b, j) = Append(R, u)
      BY <3>2, <3>4 DEF LineAt
    <3>6. Rests(tc)[i] = Rests(b)[j]
      <4>1. Rests(tc)[i] = IF EndsLine(tc[i]) THEN <<>> ELSE Append(Rests(tc)[i - 1], tc[i])
        BY <3>0, RestsAre
      <4>2. Rests(b)[j] = IF EndsLine(b[j]) THEN <<>> ELSE Append(Rests(b)[j - 1], b[j])
        BY <3>0, RestsAre
      <4>3. QED
        BY <3>2, <3>4, <4>1, <4>2
    <3>7. Matches(tc, src)[i] = M \o Matches(b, src)[j]
      <4> DEFINE line == Append(R, u)
                 Adds == EndsLine(u) /\ lineMatches(line, src)
      <4>1. Matches(tc, src)[i] = IF Adds THEN Append(M \o K, line) ELSE M \o K
        <5>1. Matches(tc, src)[i] = IF Printed(tc, src, i)
                                    THEN Append(Matches(tc, src)[i - 1], LineAt(tc, i))
                                    ELSE Matches(tc, src)[i - 1]
          BY <3>0, MatchesAre
        <5>2. QED
          BY <3>2, <3>4, <3>5, <5>1 DEF Printed
      <4>2. Matches(b, src)[j] = IF Adds THEN Append(K, line) ELSE K
        <5>1. Matches(b, src)[j] = IF Printed(b, src, j)
                                   THEN Append(Matches(b, src)[j - 1], LineAt(b, j))
                                   ELSE Matches(b, src)[j - 1]
          BY <3>0, MatchesAre
        <5>2. QED
          BY <3>2, <3>4, <3>5, <5>1 DEF Printed
      <4>3. K \in Seq(Seq(S)) /\ line \in Seq(S)
        <5>1. \A k \in 0..Len(b) : Matches(b, src)[k] \in Seq(Seq(S))
          BY <1>2, MatchesAre
        <5>2. \A k \in 1..Len(b) : LineAt(b, k) \in Seq(S)
          BY <1>2, MatchesAre
        <5>3. QED
          BY <3>1, <3>4, <3>5, <5>1, <5>2
      <4> HIDE DEF line, Adds
      <4>4. Append(M \o K, line) = M \o Append(K, line)
        <5> DEFINE V == Seq(S)
        <5>1. M \in Seq(V) /\ K \in Seq(V) /\ line \in V
          BY <1>1, <4>3
        <5> HIDE DEF V, At, T
        <5>2. QED
          BY <5>1, AppendToConcat
      <4>5. QED
        BY <4>1, <4>2, <4>4
    <3>8. QED
      BY <3>6, <3>7 DEF i, j
  <2>2. QED
    BY <2>0, <2>1
<1>6. T = Nat
  <2> HIDE DEF T
  <2>1. T \in SUBSET Nat
    BY DEF T
  <2>2. QED
    BY <1>4, <1>5, <2>1, NumberInduction
<1>7. At(N)
  <2>1. N \in T
    BY <1>2, <1>6
  <2> HIDE DEF At
  <2>2. QED
    BY <1>2, <2>1
<1>8. QED
  BY <1>2, <1>7 DEF Rest, Matching, tc, b, r, M

---------------------------------------------------------------------------
(* Types.                                                                  *)

Text == Seq(Unit)

LogTypes ==
  /\ created \in BOOLEAN /\ up \in BOOLEAN /\ rotating \in BOOLEAN
  /\ torn \in BOOLEAN /\ lost \in BOOLEAN
  /\ written \in 0..MaxLines
  /\ file \in Text /\ kept \in Text
  /\ gen \in Nat
  /\ rotating => up /\ file = <<>>

FollowTypes ==
  /\ pc \in {"off", "stat", "read", "wait"} /\ filter \in Filter
  /\ offset \in Nat /\ size \in Nat /\ base \in Nat /\ seen \in Nat
  /\ leftover \in Text /\ shown \in Seq(Text) /\ streamed \in Seq(Text)
  /\ seen <= gen

LEMMA Sizes ==
  /\ LineLen \in Nat /\ LineLen >= 2 /\ logsTail \in Nat /\ logsTail >= 1 /\ MaxLines \in Nat
  /\ MaxBytes \in Nat /\ MaxBytes \div 2 \in Nat /\ MaxBytes \div 2 > LineLen
  /\ MaxBytes >= MaxBytes \div 2
  BY SizeAssumption

LEMMA UnitsType ==
  ASSUME NEW n \in 0..LineLen, NEW line \in 1..MaxLines, NEW src \in Src
  PROVE  /\ Units(n, line, src) \in Text /\ Len(Units(n, line, src)) = n
         /\ \A p \in 1..n : /\ Units(n, line, src)[p].line = line
                            /\ Units(n, line, src)[p].part = p
<1>1. n \in Nat /\ \A p \in 1..n : p \in 1..LineLen
  BY Sizes
<1>2. \A p \in 1..n : [line |-> line, part |-> p, src |-> src] \in Unit
  BY <1>1 DEF Unit
<1>3. QED
  BY <1>1, <1>2 DEF Units, Text

LEMMA UnitFields ==
  ASSUME NEW u \in Unit
  PROVE  u.line \in Nat /\ u.part \in Nat /\ u.part >= 1 /\ u.part <= LineLen
  BY Sizes DEF Unit

(* A suffix of a text, unit by unit. *)
LEMMA SuffixUnits ==
  ASSUME NEW t \in Text, NEW k \in 0..Len(t)
  PROVE  LET s == SubSeq(t, k + 1, Len(t)) IN
         /\ s \in Text /\ Len(s) = Len(t) - k
         /\ \A i \in 1..Len(s) : s[i] = t[k + i]
<1> DEFINE N == Len(t)
           s == SubSeq(t, k + 1, N)
<1>1. t \in Seq(Unit) /\ N \in Nat /\ k \in 0..N /\ k + 1 \in 1..N + 1 /\ DOMAIN t = 1..N
  BY DEF Text
<1>2. \A i \in (k + 1)..N : t[i] \in Unit
  BY <1>1
<1> HIDE DEF N
<1>3. s \in Seq(Unit)
  BY <1>1, <1>2
<1>4. Len(s) = N - k
  BY <1>1
<1>5. \A i \in 1..N - k : s[i] = t[k + i]
  BY <1>1
<1>6. QED
  BY <1>3, <1>4, <1>5 DEF N, Text

(* The tail a rotation keeps is a suffix of the text.                      *)
LEMMA TailIsSuffix ==
  ASSUME NEW t \in Text, Len(t) > MaxBytes
  PROVE  LET half == MaxBytes \div 2
             from == Len(t) - half
         IN  /\ from \in 0..Len(t)
             /\ \/ /\ \A i \in 1..half : ~ EndsLine(t[from + i])
                   /\ KeptTail(t) = SubSeq(t, from + 1, Len(t))
                \/ \E p \in 1..half :
                     /\ EndsLine(t[from + p]) /\ \A i \in 1..half : i < p => ~ EndsLine(t[from + i])
                     /\ from + p \in 0..Len(t)
                     /\ KeptTail(t) = SubSeq(t, (from + p) + 1, Len(t))
<1> DEFINE half == MaxBytes \div 2
           from == Len(t) - half
           buf == SubSeq(t, from + 1, Len(t))
           nl == Newlines(buf)
<1>1. half \in Nat /\ half > 0 /\ Len(t) \in Nat /\ MaxBytes \in Nat /\ MaxBytes >= half
  BY Sizes DEF Text
<1> HIDE DEF half
<1>2. from \in 0..Len(t) /\ Len(t) - from = half
  BY <1>1
<1>3. Keep(t) = half
  BY <1>1 DEF Keep, half
<1>4. KeptTail(t) = IF nl = {} THEN buf ELSE SubSeq(buf, Min(nl) + 1, Len(buf))
  BY <1>3 DEF KeptTail, Trimmed
<1> HIDE DEF from
<1>5. buf \in Text /\ Len(buf) = half /\ \A i \in 1..half : buf[i] = t[from + i]
  BY <1>2, SuffixUnits
<1>6. \A i : i \in nl <=> i \in 1..half /\ EndsLine(t[from + i])
  BY <1>5 DEF Newlines, Text
<1> HIDE DEF buf
<1>7. nl \in SUBSET Nat
  BY <1>1, <1>6
<1>8. CASE nl = {}
  BY <1>2, <1>4, <1>6, <1>8 DEF half, from, buf
<1>9. CASE nl # {}
  <2> DEFINE p == Min(nl)
  <2>1. p \in nl /\ \A i \in nl : p <= i
    BY <1>7, <1>9, MinIsLeast
  <2> HIDE DEF p, nl
  <2>2. p \in 1..half /\ EndsLine(t[from + p])
    BY <1>6, <2>1
  <2>3. \A i \in 1..half : i < p => ~ EndsLine(t[from + i])
    BY <1>1, <1>6, <2>1, <2>2
  <2>4. from + p \in 0..Len(t)
    BY <1>1, <1>2, <2>2
  <2>5. SubSeq(buf, p + 1, Len(buf)) = SubSeq(t, (from + p) + 1, Len(t))
    <3> DEFINE l == SubSeq(buf, p + 1, Len(buf))
               r == SubSeq(t, (from + p) + 1, Len(t))
    <3>1. p \in 0..Len(buf)
      BY <1>5, <1>1, <2>2
    <3>2. l \in Text /\ Len(l) = half - p /\ \A i \in 1..Len(l) : l[i] = buf[p + i]
      BY <1>5, <3>1, SuffixUnits
    <3>3. r \in Text /\ Len(r) = Len(t) - (from + p) /\ \A i \in 1..Len(r) : r[i] = t[(from + p) + i]
      BY <2>4, SuffixUnits
    <3> HIDE DEF l, r
    <3>4. Len(l) = Len(r) /\ Len(l) \in Nat
      BY <1>1, <1>2, <2>2, <3>2, <3>3
    <3>5. ASSUME NEW i \in 1..Len(l) PROVE l[i] = r[i]
      <4>1. p + i \in 1..half /\ (from + p) + i = from + (p + i)
        BY <1>1, <1>2, <2>2, <3>2, <3>5
      <4>2. QED
        BY <1>5, <3>2, <3>3, <3>4, <4>1
    <3>6. l = r
      BY <3>2, <3>3, <3>4, <3>5 DEF Text
    <3>7. QED
      BY <3>6 DEF l, r
  <2>6. KeptTail(t) = SubSeq(t, (from + p) + 1, Len(t))
    BY <1>4, <1>9, <2>5 DEF p
  <2>7. QED
    BY <1>2, <2>2, <2>3, <2>4, <2>6 DEF half, from
<1>10. QED
  BY <1>8, <1>9

LEMMA KeptType ==
  ASSUME NEW t \in Text, Len(t) > MaxBytes
  PROVE  \E k \in 0..Len(t) : KeptTail(t) = SubSeq(t, k + 1, Len(t))
  BY TailIsSuffix

LEMMA TypesInit == Init => LogTypes /\ FollowTypes
<1> SUFFICES ASSUME Init PROVE LogTypes /\ FollowTypes
  OBVIOUS
<1>1. <<>> \in Text /\ <<>> \in Seq(Text) /\ 0 \in 0..MaxLines
  BY Sizes DEF Text
<1>2. LogTypes
  BY <1>1 DEF Init, LogTypes
<1>3. FollowTypes
  BY <1>1 DEF Init, FollowTypes, Filter
<1>4. QED
  BY <1>2, <1>3

LEMMA LogTypesStep == LogTypes /\ [Next]_vars => LogTypes'
<1> SUFFICES ASSUME LogTypes, [Next]_vars PROVE LogTypes'
  OBVIOUS
<1>1. ASSUME UNCHANGED logVars PROVE LogTypes'
  BY <1>1 DEF LogTypes, logVars
<1>2. CASE New
  BY <1>2 DEF New, LogTypes
<1>3. CASE Write
  <2>1. PICK src \in Src, n \in 0..LineLen : file' = file \o Units(n, written + 1, src)
                                             /\ torn' = (torn \/ n < LineLen)
    BY <1>3 DEF Write
  <2>2. written + 1 \in 1..MaxLines
    BY <1>3, Sizes DEF Write, LogTypes
  <2>3. Units(n, written + 1, src) \in Text
    BY <2>2, UnitsType
  <2>4. file' \in Text
    BY <2>1, <2>3 DEF LogTypes, Text
  <2>5. torn' \in BOOLEAN
    BY <2>1 DEF LogTypes
  <2>6. QED
    BY <1>3, <2>2, <2>4, <2>5 DEF Write, LogTypes
<1>4. CASE RotateTruncate
  <2>1. file \in Text /\ Len(file) > MaxBytes
    BY <1>4 DEF RotateTruncate, LogTypes
  <2>2. KeptTail(file) \in Text
    BY <2>1, KeptType, SuffixUnits
  <2>3. <<>> \in Text
    BY DEF Text
  <2>4. QED
    BY <1>4, <2>2, <2>3 DEF RotateTruncate, LogTypes
<1>5. CASE RotateRewrite
  <2>1. PICK n \in 0..Len(kept) : file' = file \o SubSeq(kept, 1, n) /\ lost' = (lost \/ n < Len(kept))
    BY <1>5 DEF RotateRewrite
  <2>2. file' \in Text /\ <<>> \in Text
    BY <2>1 DEF LogTypes, Text
  <2>3. lost' \in BOOLEAN
    BY <2>1 DEF LogTypes
  <2>4. QED
    BY <1>5, <2>2, <2>3 DEF RotateRewrite, LogTypes
<1>6. CASE Close
  <2>1. <<>> \in Text /\ lost' \in BOOLEAN
    BY <1>6 DEF Close, LogTypes, Text
  <2>2. QED
    BY <1>6, <2>1 DEF Close, LogTypes
<1>7. CASE Follow \/ Stat \/ Read \/ Poll \/ Quit
  BY <1>1, <1>7 DEF Follow, Stat, Read, Poll, Quit
<1>8. CASE UNCHANGED vars
  BY <1>1, <1>8 DEF vars, logVars
<1>9. QED
  BY <1>2, <1>3, <1>4, <1>5, <1>6, <1>7, <1>8 DEF Next, FollowStep

(* So are the lines printTail prints.                                       *)
LEMMA TailLinesType ==
  ASSUME NEW t \in Text, NEW src
  PROVE  TailLines(t, src) \in Seq(Text)
<1> DEFINE rest == Rest(t)
           m == Matching(t, src)
           all == IF rest # <<>> /\ lineMatches(rest, src) THEN Append(m, rest) ELSE m
<1>1. rest \in Text /\ m \in Seq(Text)
  BY ReadType DEF Text
<1>2. TailLines(t, src) = IF Len(all) > logsTail
                          THEN SubSeq(all, Len(all) - logsTail + 1, Len(all)) ELSE all
  BY DEF TailLines
<1> HIDE DEF rest, m
<1>3. all \in Seq(Text)
  BY <1>1
<1> HIDE DEF all
<1>4. Len(all) \in Nat /\ logsTail \in Nat /\ logsTail >= 1
  BY <1>3, Sizes
<1>5. CASE Len(all) > logsTail
  <2>1. Len(all) - logsTail + 1 \in 1..Len(all) + 1
    BY <1>4, <1>5
  <2>2. SubSeq(all, Len(all) - logsTail + 1, Len(all)) \in Seq(Text)
    BY <1>3, <1>4, <2>1
  <2>3. QED
    BY <1>2, <1>5, <2>2
<1>6. QED
  BY <1>2, <1>3, <1>5

LEMMA ChunkType ==
  ASSUME LogTypes, FollowTypes
  PROVE  Chunk \in Text
  BY DEF LogTypes, FollowTypes, Chunk, Text

LEMMA FollowTypesStep == LogTypes /\ FollowTypes /\ [Next]_vars => FollowTypes'
<1> SUFFICES ASSUME LogTypes, FollowTypes, [Next]_vars PROVE FollowTypes'
  OBVIOUS
<1>1. <<>> \in Text /\ <<>> \in Seq(Text) /\ file \in Text /\ Len(file) \in Nat /\ gen \in Nat
  BY DEF LogTypes, Text
<1>2. ASSUME UNCHANGED followVars, gen' \in Nat, gen <= gen' PROVE FollowTypes'
  BY <1>1, <1>2 DEF FollowTypes, followVars
<1>3. CASE New \/ Write \/ RotateRewrite \/ Close
  BY <1>1, <1>2, <1>3 DEF New, Write, RotateRewrite, Close
<1>4. CASE RotateTruncate
  BY <1>1, <1>2, <1>4 DEF RotateTruncate
<1>5. CASE Follow
  <2>1. TailLines(file, filter') \in Seq(Text)
    BY <1>1, TailLinesType
  <2>2. QED
    BY <1>1, <1>5, <2>1 DEF Follow, FollowTypes, logVars
<1>6. CASE Stat
  <2>1. gen' = gen /\ filter' = filter
    BY <1>6 DEF Stat, logVars
  <2>2. pc' \in {"off", "stat", "read", "wait"} /\ size' \in Nat /\ offset' \in Nat /\ base' \in Nat
        /\ seen' \in Nat /\ seen' <= gen
    BY <1>1, <1>6 DEF Stat, FollowTypes
  <2>3. leftover' \in Text /\ shown' \in Seq(Text) /\ streamed' \in Seq(Text)
    BY <1>1, <1>6 DEF Stat, FollowTypes
  <2>4. QED
    BY <2>1, <2>2, <2>3 DEF FollowTypes
<1>7. CASE Read
  <2> DEFINE buf == leftover \o Chunk
  <2>1. Chunk \in Text /\ Len(Chunk) \in Nat /\ leftover \in Text
    BY ChunkType DEF FollowTypes, Text
  <2>2. buf \in Text
    BY <2>1 DEF Text
  <2>3. streamed' = streamed \o Matching(buf, filter) /\ leftover' = Rest(buf)
        /\ offset' = offset + Len(Chunk) /\ pc' = "wait"
        /\ UNCHANGED <<filter, size, shown, base, seen, gen>>
    BY <1>7 DEF Read, logVars
  <2> HIDE DEF buf
  <2>4. Rest(buf) \in Text /\ Matching(buf, filter) \in Seq(Text)
    BY <2>2, ReadType DEF Text
  <2>5. streamed' \in Seq(Text)
    BY <2>3, <2>4 DEF FollowTypes
  <2>6. QED
    BY <2>1, <2>3, <2>4, <2>5 DEF FollowTypes
<1>8. CASE Poll
  BY <1>8 DEF Poll, FollowTypes, logVars
<1>9. CASE Quit
  BY <1>1, <1>9 DEF Quit, FollowTypes, logVars, Filter
<1>10. CASE UNCHANGED vars
  BY <1>1, <1>2, <1>10 DEF vars, followVars
<1>11. QED
  BY <1>3, <1>4, <1>5, <1>6, <1>7, <1>8, <1>9, <1>10 DEF Next, FollowStep

---------------------------------------------------------------------------
(* Recent history.                                                         *)

(* The log, or during a rotation the tail about to be written back. *)
Log == IF rotating THEN kept ELSE file

(* Unit after unit of a line, then the next line; after a torn write any   *)
(* later one.                                                              *)
Adjacent(log, cut) ==
  \A i \in 1..Len(log) : i > 1 =>
    \/ log[i].line = log[i - 1].line /\ log[i].part = log[i - 1].part + 1
    \/ /\ log[i].line > log[i - 1].line /\ log[i].part = 1
       /\ ~ cut => log[i - 1].part = LineLen /\ log[i].line = log[i - 1].line + 1

(* Every line that is begun is there to its end. *)
Whole(log) ==
  \A i \in 1..Len(log) :
    /\ i + (LineLen - log[i].part) <= Len(log)
    /\ \A j \in i..i + (LineLen - log[i].part) :
         log[j].line = log[i].line /\ log[j].part = log[i].part + (j - i)

Upto(log, line) == \A i \in 1..Len(log) : log[i].line <= line

(* The log ends with the last line written and starts at the start of one. *)
Recent(log) ==
  /\ Len(log) >= 1 /\ log[1].part = 1
  /\ log[Len(log)].line = written /\ log[Len(log)].part = LineLen
  /\ gen = 0 => log[1].line = 1
  /\ gen # 0 => Len(log) >= MaxBytes \div 2 - LineLen

RecentInv ==
  /\ written = 0 => file = <<>> /\ kept = <<>>
  /\ gen # 0 => written # 0
  /\ ~ lost => /\ Adjacent(Log, torn) /\ Upto(Log, written)
               /\ ~ torn => Whole(Log)
               /\ ~ torn /\ written # 0 => Recent(Log)

(* A suffix is as orderly as the text.                                     *)
LEMMA SuffixOrderly ==
  ASSUME NEW t \in Text, NEW k \in 0..Len(t), NEW cut \in BOOLEAN, NEW line
  PROVE  LET s == SubSeq(t, k + 1, Len(t)) IN
         /\ Adjacent(t, cut) => Adjacent(s, cut)
         /\ Upto(t, line) => Upto(s, line)
         /\ Whole(t) => Whole(s)
<1> DEFINE N == Len(t)
           s == SubSeq(t, k + 1, N)
<1>1. N \in Nat /\ k \in 0..N /\ \A i \in 1..N : t[i] \in Unit
  BY DEF Text
<1>2. s \in Text /\ Len(s) = N - k /\ \A i \in 1..Len(s) : s[i] = t[k + i]
  BY SuffixUnits
<1> HIDE DEF s
<1>3. \A i \in 1..Len(s) : k + i \in 1..N
  BY <1>1, <1>2
<1>4. ASSUME Adjacent(t, cut) PROVE Adjacent(s, cut)
  <2>1. ASSUME NEW i \in 1..Len(s), i > 1
        PROVE  \/ s[i].line = s[i - 1].line /\ s[i].part = s[i - 1].part + 1
               \/ /\ s[i].line > s[i - 1].line /\ s[i].part = 1
                  /\ ~ cut => s[i - 1].part = LineLen /\ s[i].line = s[i - 1].line + 1
    <3>1. k + i \in 1..N /\ k + i > 1 /\ i - 1 \in 1..Len(s) /\ k + (i - 1) = (k + i) - 1
      BY <1>1, <1>2, <2>1
    <3>2. s[i] = t[k + i] /\ s[i - 1] = t[(k + i) - 1]
      BY <1>2, <3>1
    <3>3. QED
      BY <1>4, <3>1, <3>2 DEF Adjacent
  <2>2. QED
    BY <2>1 DEF Adjacent
<1>5. ASSUME Upto(t, line) PROVE Upto(s, line)
  BY <1>2, <1>3, <1>5 DEF Upto
<1>6. ASSUME Whole(t) PROVE Whole(s)
  <2>1. ASSUME NEW i \in 1..Len(s)
        PROVE  /\ i + (LineLen - s[i].part) <= Len(s)
               /\ \A j \in i..i + (LineLen - s[i].part) :
                    s[j].line = s[i].line /\ s[j].part = s[i].part + (j - i)
    <3> DEFINE l == k + i
               e == LineLen - t[l].part
    <3>1. l \in 1..N /\ s[i] = t[l]
      BY <1>2, <1>3
    <3>2. /\ l + e <= N
          /\ \A j \in l..l + e : t[j].line = t[l].line /\ t[j].part = t[l].part + (j - l)
      BY <1>6, <3>1 DEF Whole
    <3>3. e \in Nat
      BY <1>1, <3>1, UnitFields, Sizes
    <3> HIDE DEF e
    <3>4. i + e <= Len(s)
      BY <1>1, <1>2, <3>1, <3>2, <3>3
    <3>5. ASSUME NEW j \in i..i + e
          PROVE  s[j].line = s[i].line /\ s[j].part = s[i].part + (j - i)
      <4>1. j \in 1..Len(s) /\ k + j \in l..l + e /\ (k + j) - l = j - i
        BY <1>1, <1>2, <3>1, <3>3, <3>4, <3>5
      <4>2. s[j] = t[k + j]
        BY <1>2, <4>1
      <4>3. QED
        BY <3>1, <3>2, <4>1, <4>2
    <3>6. QED
      BY <3>1, <3>4, <3>5 DEF e
  <2>2. QED
    BY <2>1 DEF Whole
<1>7. QED
  BY <1>4, <1>5, <1>6 DEF s

(* What a rotation keeps of an orderly log is the recent part of it, but    *)
(* for the line at its edge.                                                *)
LEMMA KeptRecent ==
  ASSUME NEW t \in Text, Len(t) > MaxBytes, Adjacent(t, FALSE), Whole(t),
         t[Len(t)].part = LineLen
  PROVE  LET s == KeptTail(t) IN
         /\ s \in Text /\ Len(s) >= 1 /\ Len(s) >= MaxBytes \div 2 - LineLen
         /\ s[1].part = 1 /\ s[Len(s)] = t[Len(t)]
<1> DEFINE N == Len(t)
           half == MaxBytes \div 2
           from == N - half
           s == KeptTail(t)
<1>1. /\ N \in Nat /\ half \in Nat /\ LineLen \in Nat /\ LineLen >= 2 /\ half > LineLen /\ N >= half
      /\ \A i \in 1..N : t[i] \in Unit
  BY Sizes DEF Text
<1>2. /\ from \in 0..N
      /\ \/ /\ \A i \in 1..half : ~ EndsLine(t[from + i])
            /\ s = SubSeq(t, from + 1, N)
         \/ \E p \in 1..half :
              /\ EndsLine(t[from + p]) /\ \A i \in 1..half : i < p => ~ EndsLine(t[from + i])
              /\ from + p \in 0..N
              /\ s = SubSeq(t, (from + p) + 1, N)
  BY TailIsSuffix
<1> HIDE DEF s, half, N
<1> DEFINE q == LineLen - t[from + 1].part
<1>3. from + 1 \in 1..N /\ from \in Nat /\ N - from = half
  BY <1>1
<1> HIDE DEF from
<1>4. q \in Nat /\ q < LineLen
  BY <1>1, <1>3, UnitFields
<1>5. t[from + (q + 1)].part = LineLen
  <2> DEFINE l == from + 1
             a == t[l].part
  <2>1. l \in 1..N /\ a \in Nat /\ q = LineLen - a
    BY <1>1, <1>3, UnitFields
  <2> HIDE DEF q
  <2>2. from + (q + 1) = l + q
    BY <1>3, <1>4
  <2>3. \A j \in l..l + q : t[j].part = a + (j - l)
    BY <2>1 DEF Whole, N, q
  <2> HIDE DEF a, l
  <2>4. l + q \in l..l + q /\ a + ((l + q) - l) = LineLen
    BY <1>1, <1>4, <2>1
  <2>5. QED
    BY <2>2, <2>3, <2>4
<1> HIDE DEF q
<1>6. q + 1 \in 1..half /\ EndsLine(t[from + (q + 1)])
  BY <1>1, <1>4, <1>5 DEF EndsLine
<1>7. PICK p \in 1..half :
              /\ EndsLine(t[from + p]) /\ \A i \in 1..half : i < p => ~ EndsLine(t[from + i])
              /\ from + p \in 0..N
              /\ s = SubSeq(t, (from + p) + 1, N)
  BY <1>2, <1>6
<1>8. p <= q + 1
  BY <1>1, <1>4, <1>6, <1>7
<1>9. s \in Text /\ Len(s) = N - (from + p) /\ \A i \in 1..Len(s) : s[i] = t[(from + p) + i]
  BY <1>7, SuffixUnits DEF N
<1>10. Len(s) = half - p /\ Len(s) >= 1 /\ Len(s) >= half - LineLen
  BY <1>1, <1>3, <1>4, <1>7, <1>8, <1>9
<1>11. s[Len(s)] = t[N]
  <2>1. Len(s) \in 1..Len(s) /\ (from + p) + Len(s) = N
    BY <1>1, <1>2, <1>3, <1>7, <1>9, <1>10
  <2>2. QED
    BY <1>9, <2>1
<1>12. s[1].part = 1
  <2>1. s[1] = t[(from + p) + 1]
    BY <1>1, <1>9, <1>10
  <2>2. (from + p) + 1 \in 1..N /\ (from + p) + 1 > 1 /\ ((from + p) + 1) - 1 = from + p /\ from + p \in 1..N
    BY <1>1, <1>2, <1>3, <1>7, <1>9, <1>10
  <2>3. t[from + p].part = LineLen
    BY <1>7 DEF EndsLine
  <2>4. t[(from + p) + 1].part <= LineLen
    BY <1>1, <2>2, UnitFields
  <2>5. t[(from + p) + 1].part = LineLen + 1 \/ t[(from + p) + 1].part = 1
    BY <2>2, <2>3 DEF Adjacent, N
  <2>6. QED
    BY <1>1, <2>1, <2>4, <2>5
<1>13. QED
  BY <1>9, <1>10, <1>11, <1>12 DEF s, N, half

(* A write adds to an orderly log; a whole one to a whole log.              *)
LEMMA WriteRecent ==
  ASSUME NEW t \in Text, NEW w \in Nat, NEW n \in 0..LineLen, NEW src \in Src, w + 1 \in 1..MaxLines,
         NEW cut \in BOOLEAN, Adjacent(t, cut), Upto(t, w),
         ~ cut /\ t # <<>> => t[Len(t)].line = w /\ t[Len(t)].part = LineLen
  PROVE  LET s == t \o Units(n, w + 1, src) IN
         /\ Adjacent(s, cut \/ n < LineLen) /\ Upto(s, w + 1)
         /\ Whole(t) /\ n = LineLen => Whole(s)
         /\ n = LineLen => /\ Len(s) >= 1 /\ Len(s) >= Len(t)
                           /\ s[Len(s)].line = w + 1 /\ s[Len(s)].part = LineLen
                           /\ s[1] = IF t = <<>> THEN s[Len(t) + 1] ELSE t[1]
                           /\ s[Len(t) + 1].line = w + 1 /\ s[Len(t) + 1].part = 1
<1> DEFINE N == Len(t)
           U == Units(n, w + 1, src)
           s == t \o U
<1>1. /\ U \in Text /\ Len(U) = n
      /\ \A p \in 1..n : U[p].line = w + 1 /\ U[p].part = p
  BY UnitsType
<1> HIDE DEF U
<1>2. /\ N \in Nat /\ n \in Nat /\ n <= LineLen /\ LineLen \in Nat /\ LineLen >= 2
      /\ \A i \in 1..N : t[i] \in Unit
  BY Sizes DEF Text
<1>3. s \in Text /\ Len(s) = N + n /\ (\A i \in 1..N : s[i] = t[i]) /\ \A p \in 1..n : s[N + p] = U[p]
  BY <1>1, <1>2 DEF Text
<1>4. t = <<>> <=> N = 0
  BY <1>2 DEF Text
<1> HIDE DEF s, N
<1>5. \A p \in 1..n : s[N + p].line = w + 1 /\ s[N + p].part = p
  BY <1>1, <1>3
<1>6. \A i \in 1..N + n : i \in 1..N \/ (i - N \in 1..n /\ i = N + (i - N))
  BY <1>2
<1>7. Upto(s, w + 1)
  <2>1. ASSUME NEW i \in 1..N + n PROVE s[i].line <= w + 1
    <3>1. CASE i \in 1..N
      <4>1. t[i].line <= w /\ t[i].line \in Nat
        BY <1>2, <3>1, UnitFields DEF Upto, N
      <4>2. QED
        BY <1>3, <3>1, <4>1
    <3>2. CASE i - N \in 1..n
      <4> DEFINE p == i - N
      <4>1. p \in 1..n /\ i = N + p
        BY <1>2, <3>2
      <4> HIDE DEF p
      <4>2. s[i].line = w + 1
        BY <1>5, <4>1
      <4>3. QED
        BY <4>2
    <3>3. QED
      BY <1>6, <3>1, <3>2
  <2>2. QED
    BY <1>3, <2>1 DEF Upto
<1>8. Adjacent(s, cut \/ n < LineLen)
  <2>1. ASSUME NEW i \in 1..N + n, i > 1
        PROVE  \/ s[i].line = s[i - 1].line /\ s[i].part = s[i - 1].part + 1
               \/ /\ s[i].line > s[i - 1].line /\ s[i].part = 1
                  /\ ~ (cut \/ n < LineLen) => s[i - 1].part = LineLen /\ s[i].line = s[i - 1].line + 1
    <3>1. CASE i \in 1..N
      <4>1. i - 1 \in 1..N
        BY <1>2, <2>1, <3>1
      <4>2. s[i] = t[i] /\ s[i - 1] = t[i - 1]
        BY <1>3, <3>1, <4>1
      <4>3. QED
        BY <2>1, <3>1, <4>2 DEF Adjacent, N
    <3>2. CASE i = N + 1
      <4>1. N \in 1..N /\ i - 1 = N /\ 1 \in 1..n
        BY <1>2, <2>1, <3>2
      <4>2. s[i].line = w + 1 /\ s[i].part = 1 /\ s[i - 1] = t[N]
        BY <1>3, <1>5, <3>2, <4>1
      <4>3. t[N].line <= w /\ t[N].line \in Nat
        BY <1>2, <4>1, UnitFields DEF Upto, N
      <4>4. ~ cut => t[N].line = w /\ t[N].part = LineLen
        BY <1>2, <1>4, <4>1 DEF N
      <4>5. QED
        BY <4>2, <4>3, <4>4
    <3>3. CASE i - N \in 1..n /\ i # N + 1
      <4> DEFINE p == i - N
      <4>1. p \in 1..n /\ p - 1 \in 1..n /\ i = N + p /\ i - 1 = N + (p - 1)
        BY <1>2, <3>3
      <4> HIDE DEF p
      <4>2. s[i].line = w + 1 /\ s[i].part = p /\ s[i - 1].line = w + 1 /\ s[i - 1].part = p - 1
        BY <1>5, <4>1
      <4>3. QED
        BY <4>1, <4>2
    <3>4. QED
      BY <1>6, <3>1, <3>2, <3>3
  <2>2. QED
    BY <1>3, <2>1 DEF Adjacent
<1>9. ASSUME Whole(t), n = LineLen PROVE Whole(s)
  <2>1. ASSUME NEW i \in 1..N + n
        PROVE  /\ i + (LineLen - s[i].part) <= N + n
               /\ \A j \in i..i + (LineLen - s[i].part) :
                    s[j].line = s[i].line /\ s[j].part = s[i].part + (j - i)
    <3>1. CASE i \in 1..N
      <4> DEFINE e == LineLen - t[i].part
      <4>1. i + e <= N /\ \A j \in i..i + e : t[j].line = t[i].line /\ t[j].part = t[i].part + (j - i)
        BY <1>9, <3>1 DEF Whole, N
      <4>2. e \in Nat
        BY <1>2, <3>1, UnitFields
      <4> HIDE DEF e
      <4>3. \A j \in i..i + e : j \in 1..N
        BY <1>2, <3>1, <4>1, <4>2
      <4>4. \A j \in i..i + e : s[j] = t[j]
        BY <1>3, <4>3
      <4>5. s[i] = t[i] /\ i + e <= N + n
        BY <1>2, <1>3, <3>1, <4>1, <4>2
      <4>6. QED
        BY <4>1, <4>4, <4>5 DEF e
    <3>2. CASE i - N \in 1..n
      <4> DEFINE p == i - N
      <4>1. p \in 1..n /\ i = N + p
        BY <1>2, <3>2
      <4> HIDE DEF p
      <4>2. s[i].line = w + 1 /\ s[i].part = p
        BY <1>5, <4>1
      <4>3. i + (LineLen - p) = N + n
        BY <1>2, <1>9, <4>1
      <4>4. ASSUME NEW j \in i..N + n PROVE s[j].line = w + 1 /\ s[j].part = p + (j - i)
        <5>1. j - N \in 1..n /\ j = N + (j - N) /\ p + (j - i) = j - N
          BY <1>2, <4>1, <4>4
        <5>2. QED
          BY <1>5, <5>1
      <4>5. QED
        BY <1>2, <4>2, <4>3, <4>4
    <3>3. QED
      BY <1>6, <3>1, <3>2
  <2>2. QED
    BY <1>3, <2>1 DEF Whole
<1>10. ASSUME n = LineLen
       PROVE  /\ Len(s) >= 1 /\ Len(s) >= N
              /\ s[Len(s)].line = w + 1 /\ s[Len(s)].part = LineLen
              /\ s[1] = IF t = <<>> THEN s[N + 1] ELSE t[1]
              /\ s[N + 1].line = w + 1 /\ s[N + 1].part = 1
  <2>1. n \in 1..n /\ 1 \in 1..n
    BY <1>2, <1>10
  <2>2. s[Len(s)].line = w + 1 /\ s[Len(s)].part = LineLen /\ s[N + 1].line = w + 1 /\ s[N + 1].part = 1
    BY <1>3, <1>5, <1>10, <2>1
  <2>3. s[1] = IF t = <<>> THEN s[N + 1] ELSE t[1]
    BY <1>2, <1>3, <1>4
  <2>4. QED
    BY <1>2, <1>3, <1>10, <2>2, <2>3
<1>11. QED
  BY <1>7, <1>8, <1>9, <1>10 DEF s, U, N

(* RecentInv holds at first and after every step.                           *)
LEMMA RecentInit == Init => RecentInv
<1> SUFFICES ASSUME Init PROVE RecentInv
  OBVIOUS
<1>1. Log = <<>> /\ Len(<<>>) = 0 /\ written = 0 /\ gen = 0 /\ file = <<>> /\ kept = <<>>
  BY DEF Init, Log
<1>2. Adjacent(<<>>, torn) /\ Upto(<<>>, written) /\ Whole(<<>>)
  BY <1>1 DEF Adjacent, Upto, Whole
<1>3. QED
  BY <1>1, <1>2 DEF RecentInv

LEMMA RecentStep == LogTypes /\ RecentInv /\ [Next]_vars => RecentInv'
<1> SUFFICES ASSUME LogTypes, RecentInv, [Next]_vars PROVE RecentInv'
  OBVIOUS
<1>1. /\ file \in Text /\ kept \in Text /\ gen \in Nat /\ written \in Nat /\ torn \in BOOLEAN
      /\ lost \in BOOLEAN
      /\ written = 0 => file = <<>> /\ kept = <<>>
      /\ gen # 0 => written # 0
      /\ ~ lost => /\ Adjacent(Log, torn) /\ Upto(Log, written)
                   /\ ~ torn => Whole(Log)
                   /\ ~ torn /\ written # 0 => Recent(Log)
  BY DEF LogTypes, RecentInv
<1>2. ASSUME UNCHANGED <<written, gen, torn>>, ~ lost' => ~ lost /\ Log' = Log,
             written = 0 => file' = <<>> /\ kept' = <<>>
      PROVE  RecentInv'
  <2>1. CASE lost'
    BY <1>1, <1>2, <2>1 DEF RecentInv
  <2>2. CASE ~ lost'
    <3>1. ~ lost /\ Log' = Log
      BY <1>2, <2>2
    <3>2. Adjacent(Log, torn)' /\ Upto(Log, written)'
      BY <1>1, <1>2, <3>1 DEF Adjacent, Upto
    <3>3. ~ torn => Whole(Log)'
      BY <1>1, <3>1 DEF Whole
    <3>4. ~ torn /\ written # 0 => Recent(Log)'
      BY <1>1, <1>2, <3>1 DEF Recent
    <3>5. QED
      BY <1>1, <1>2, <3>2, <3>3, <3>4 DEF RecentInv
  <2>3. QED
    BY <2>1, <2>2
<1>3. CASE New
  BY <1>1, <1>2, <1>3 DEF New, Log
<1>4. CASE Write
  <2>1. PICK src \in Src, n \in 0..LineLen : file' = file \o Units(n, written + 1, src)
                                             /\ torn' = (torn \/ n < LineLen)
    BY <1>4 DEF Write
  <2> DEFINE s == file \o Units(n, written + 1, src)
  <2>2. /\ written' = written + 1 /\ UNCHANGED <<gen, lost, rotating, kept>> /\ ~ rotating
        /\ Log = file /\ Log' = s /\ written + 1 \in 1..MaxLines
    <3>1. written < MaxLines /\ ~ rotating
          /\ written' = written + 1 /\ UNCHANGED <<gen, lost, rotating, kept>>
      BY <1>4 DEF Write
    <3>2. QED
      BY <1>1, <2>1, <3>1, Sizes DEF Log, LogTypes
  <2>3. CASE lost
    BY <1>1, <2>2, <2>3 DEF RecentInv
  <2>4. CASE ~ lost
    <3>1. /\ Adjacent(file, torn) /\ Upto(file, written)
          /\ ~ torn => Whole(file)
          /\ ~ torn /\ written # 0 => Recent(file)
      BY <1>1, <2>2, <2>4
    <3>2. ~ torn /\ file # <<>> => file[Len(file)].line = written /\ file[Len(file)].part = LineLen
      BY <1>1, <3>1 DEF Recent
    <3>3. /\ Adjacent(s, torn \/ n < LineLen) /\ Upto(s, written + 1)
          /\ Whole(file) /\ n = LineLen => Whole(s)
          /\ n = LineLen => /\ Len(s) >= 1 /\ Len(s) >= Len(file)
                            /\ s[Len(s)].line = written + 1 /\ s[Len(s)].part = LineLen
                            /\ s[1] = IF file = <<>> THEN s[Len(file) + 1] ELSE file[1]
                            /\ s[Len(file) + 1].line = written + 1 /\ s[Len(file) + 1].part = 1
      <4>1. /\ file \in Text /\ written \in Nat /\ written + 1 \in 1..MaxLines /\ torn \in BOOLEAN
            /\ n \in 0..LineLen /\ src \in Src
        BY <1>1, <2>2
      <4> HIDE DEF s
      <4>2. QED
        BY <3>1, <3>2, <4>1, WriteRecent DEF s
    <3> HIDE DEF s
    <3>4. Adjacent(Log, torn)' /\ Upto(Log, written)'
      BY <2>1, <2>2, <3>3 DEF Adjacent, Upto
    <3>5. ~ torn' => ~ torn /\ n = LineLen
      <4>1. n \in Nat /\ LineLen \in Nat /\ n <= LineLen
        BY Sizes
      <4>2. n < LineLen \/ n = LineLen
        BY <4>1
      <4>3. QED
        BY <2>1, <4>2
    <3>6. ~ torn' => Whole(Log)'
      BY <2>2, <3>1, <3>3, <3>5 DEF Whole
    <3>7. ASSUME ~ torn' PROVE Recent(Log)'
      <4>1. ~ torn /\ n = LineLen
        BY <3>5, <3>7
      <4>2. Len(s) \in Nat /\ Len(file) \in Nat
        <5>1. Units(n, written + 1, src) \in Text
          BY <2>2, UnitsType
        <5>2. QED
          BY <1>1, <5>1 DEF s, Text
      <4>3. CASE file = <<>>
        <5>1. written = 0 /\ gen = 0
          <6>1. written # 0 => Len(file) >= 1
            BY <3>1, <4>1 DEF Recent
          <6>2. Len(file) = 0
            BY <4>3
          <6>3. QED
            BY <1>1, <6>1, <6>2
        <5>2. QED
          BY <1>1, <2>2, <3>3, <4>1, <4>3, <5>1 DEF Recent
      <4>4. CASE file # <<>>
        <5>1. written # 0
          BY <1>1, <4>4
        <5>2. Recent(file)
          BY <3>1, <4>1, <5>1
        <5>3. s[1] = file[1] /\ Len(s) >= 1 /\ Len(s) >= Len(file)
              /\ s[Len(s)].line = written + 1 /\ s[Len(s)].part = LineLen
          BY <3>3, <4>1, <4>4
        <5>4. gen # 0 => Len(s) >= MaxBytes \div 2 - LineLen
          BY <4>2, <5>2, <5>3, Sizes DEF Recent
        <5>5. QED
          BY <2>2, <5>2, <5>3, <5>4 DEF Recent
      <4>5. QED
        BY <4>3, <4>4
    <3>8. QED
      BY <1>1, <2>2, <2>4, <3>4, <3>6, <3>7 DEF RecentInv
  <2>5. QED
    BY <2>3, <2>4
<1>5. CASE RotateTruncate
  <2> DEFINE s == KeptTail(file)
  <2>1. /\ Len(file) > MaxBytes /\ file' = <<>> /\ kept' = s /\ gen' = gen + 1 /\ rotating'
        /\ ~ rotating /\ UNCHANGED <<written, torn, lost>>
    BY <1>5 DEF RotateTruncate
  <2>2. Log = file /\ Log' = s
    BY <2>1 DEF Log
  <2>3. written # 0 /\ gen' # 0
    BY <1>1, <2>1, Sizes
  <2>4. PICK k \in 0..Len(file) : s = SubSeq(file, k + 1, Len(file))
    BY <1>1, <2>1, KeptType
  <2>5. /\ Adjacent(file, torn) => Adjacent(s, torn)
        /\ Upto(file, written) => Upto(s, written)
        /\ Whole(file) => Whole(s)
    BY <1>1, <2>4, SuffixOrderly
  <2>6. ASSUME ~ lost, ~ torn
        PROVE  /\ Len(s) >= 1 /\ Len(s) >= MaxBytes \div 2 - LineLen
               /\ s[1].part = 1 /\ s[Len(s)] = file[Len(file)] /\ Recent(file)
    <3>1. Adjacent(file, FALSE) /\ Whole(file) /\ Recent(file)
      BY <1>1, <2>2, <2>3, <2>6
    <3>2. QED
      BY <1>1, <2>1, <3>1, KeptRecent DEF Recent
  <2> HIDE DEF s
  <2>7. ASSUME ~ lost PROVE Adjacent(Log, torn)' /\ Upto(Log, written)' /\ (~ torn => Whole(Log)')
    BY <1>1, <2>1, <2>2, <2>5, <2>7 DEF Adjacent, Upto, Whole
  <2>8. ASSUME ~ lost, ~ torn PROVE Recent(Log)'
    BY <2>1, <2>2, <2>3, <2>6, <2>8 DEF Recent
  <2>9. QED
    BY <2>1, <2>3, <2>7, <2>8 DEF RecentInv
<1>6. CASE RotateRewrite
  <2>1. PICK n \in 0..Len(kept) : file' = file \o SubSeq(kept, 1, n) /\ lost' = (lost \/ n < Len(kept))
    BY <1>6 DEF RotateRewrite
  <2>2. rotating /\ ~ rotating' /\ kept' = <<>> /\ UNCHANGED <<written, gen, torn>> /\ file = <<>>
    BY <1>6 DEF RotateRewrite, LogTypes
  <2>3. n \in Nat /\ Len(kept) \in Nat /\ n <= Len(kept) /\ <<>> \o SubSeq(kept, 1, n) = SubSeq(kept, 1, n)
    BY <1>1 DEF Text
  <2>4. SubSeq(kept, 1, Len(kept)) = kept
    BY <1>1 DEF Text
  <2>5. ~ lost' => ~ lost /\ Log' = Log
    <3>1. n < Len(kept) \/ n = Len(kept)
      BY <2>3
    <3>2. n = Len(kept) => file' = kept
      BY <2>1, <2>2, <2>3, <2>4
    <3>3. Log = kept /\ Log' = file'
      BY <2>2 DEF Log
    <3>4. QED
      BY <2>1, <3>1, <3>2, <3>3
  <2>6. written = 0 => file' = <<>>
    <3>1. ASSUME written = 0 PROVE file' = <<>>
      <4>1. kept = <<>> /\ Len(kept) = 0
        BY <1>1, <3>1
      <4>2. n = 0 /\ SubSeq(<<>>, 1, 0) = <<>>
        BY <2>3, <4>1
      <4>3. QED
        BY <2>1, <2>2, <4>1, <4>2
    <3>2. QED
      BY <3>1
  <2>7. QED
    BY <1>2, <2>2, <2>5, <2>6
<1>7. CASE Close
  <2>1. /\ ~ rotating' /\ kept' = <<>> /\ lost' = (lost \/ kept # <<>>)
        /\ UNCHANGED <<file, written, gen, torn>>
    BY <1>7 DEF Close
  <2>2. ~ lost' => ~ lost /\ Log' = Log
    BY <1>1, <2>1 DEF Log, LogTypes
  <2>3. QED
    BY <1>1, <1>2, <2>1, <2>2
<1>8. CASE UNCHANGED logVars
  BY <1>1, <1>2, <1>8 DEF logVars, Log
<1>9. CASE Follow \/ Stat \/ Read \/ Poll \/ Quit
  BY <1>8, <1>9 DEF Follow, Stat, Read, Poll, Quit
<1>10. CASE UNCHANGED vars
  BY <1>8, <1>10 DEF vars, logVars
<1>11. QED
  BY <1>3, <1>4, <1>5, <1>6, <1>7, <1>9, <1>10 DEF Next, FollowStep

(* What a text held before it grew it still holds.                          *)
LEMMA TextGrows ==
  ASSUME NEW t \in Text, NEW c \in Text, NEW a \in Nat, NEW b \in 0..Len(t)
  PROVE  /\ t \o c \in Text /\ Len(t) <= Len(t \o c)
         /\ SubSeq(t \o c, a + 1, b) = SubSeq(t, a + 1, b)
         /\ b # 0 => (t \o c)[b] = t[b]
<1> DEFINE s == t \o c
           N == Len(t)
<1>1. /\ t \in Seq(Unit) /\ s \in Seq(Unit) /\ N \in Nat /\ Len(s) \in Nat /\ N <= Len(s)
      /\ \A i \in 1..N : s[i] = t[i]
  BY DEF Text
<1>2. b \in Nat /\ b <= N /\ a \in Nat /\ N \in Nat
  BY <1>1
<1> HIDE DEF s, N
<1>3. \A i \in (a + 1)..b : i \in 1..N
  BY <1>2
<1>4. SubSeq(s, a + 1, b) = SubSeq(t, a + 1, b)
  <2>1. SubSeq(s, a + 1, b) = [i \in 1..(b - (a + 1) + 1) |-> s[i + (a + 1) - 1]]
    BY <1>1 DEF SubSeq
  <2>2. SubSeq(t, a + 1, b) = [i \in 1..(b - (a + 1) + 1) |-> t[i + (a + 1) - 1]]
    BY <1>1 DEF SubSeq
  <2>3. \A i \in 1..(b - (a + 1) + 1) : i + (a + 1) - 1 \in (a + 1)..b
    BY <1>2
  <2>4. \A i \in 1..(b - (a + 1) + 1) : s[i + (a + 1) - 1] = t[i + (a + 1) - 1]
    BY <1>1, <1>3, <2>3
  <2>5. QED
    BY <2>1, <2>2, <2>4
<1>5. b # 0 => b \in 1..N
  BY <1>2
<1>6. QED
  BY <1>1, <1>4, <1>5 DEF s, N, Text

(* Two parts of a text that meet are one.                                   *)
LEMMA TextJoins ==
  ASSUME NEW t \in Text, NEW a \in Nat, NEW b \in Nat, NEW e \in Nat,
         a <= b, b <= e, e <= Len(t)
  PROVE  /\ SubSeq(t, a + 1, b) \in Text /\ SubSeq(t, b + 1, e) \in Text
         /\ Len(SubSeq(t, a + 1, b)) = b - a /\ Len(SubSeq(t, b + 1, e)) = e - b
         /\ SubSeq(t, a + 1, e) = SubSeq(t, a + 1, b) \o SubSeq(t, b + 1, e)
  BY DEF Text

(* What Read gets starts at the offset, whatever happened since Stat.       *)
LEMMA ChunkIs ==
  ASSUME LogTypes, FollowTypes, offset <= Len(file)
  PROVE  \E e \in offset..Len(file) : Chunk = SubSeq(file, offset + 1, e) /\ Len(Chunk) = e - offset
<1> DEFINE N == Len(file)
           top == IF size < N THEN size ELSE N
<1>1. file \in Text /\ N \in Nat /\ offset \in Nat /\ size \in Nat /\ offset <= N
  BY DEF LogTypes, FollowTypes, Text
<1>2. top \in Nat /\ top <= N
  BY <1>1
<1>3. Chunk = SubSeq(file, offset + 1, top)
  BY DEF Chunk
<1> HIDE DEF top, N
<1>4. CASE offset <= top
  BY <1>1, <1>2, <1>3, <1>4, TextJoins DEF N
<1>5. CASE top < offset
  <2>1. SubSeq(file, offset + 1, top) = <<>> /\ SubSeq(file, offset + 1, offset) = <<>>
    <3>1. file \in Seq(Unit)
      BY <1>1 DEF Text
    <3>2. SubSeq(file, offset + 1, top) = <<>>
      BY <1>1, <1>2, <1>5, <3>1
    <3>3. SubSeq(file, offset + 1, offset) = <<>>
      BY <1>1, <3>1
    <3>4. QED
      BY <3>2, <3>3
  <2>2. Chunk = SubSeq(file, offset + 1, offset) /\ Len(Chunk) = offset - offset
    <3>1. Len(<<>>) = 0 /\ offset - offset = 0
      BY <1>1
    <3>2. QED
      BY <1>3, <2>1, <3>1
  <2>3. offset \in offset..Len(file)
    BY <1>1 DEF N
  <2>4. QED
    BY <2>2, <2>3
<1>6. QED
  BY <1>1, <1>2, <1>4, <1>5

(* The inductive invariant of the follower.                                 *)
FollowNow ==
  /\ base <= offset /\ offset <= Len(file)
  /\ streamed = Matching(SubSeq(file, base + 1, offset), filter)
  /\ leftover = Rest(SubSeq(file, base + 1, offset))
  /\ shown = TailLines(SubSeq(file, 1, base), filter)
  /\ ~ torn /\ ~ lost => base = 0 \/ EndsLine(file[base])

FollowInv == pc # "off" /\ seen = gen => FollowNow

(* It does not depend on what the daemon adds, nor on its other steps.     *)
LEMMA FollowGrows ==
  ASSUME LogTypes, FollowTypes, FollowInv, UNCHANGED <<gen, followVars>>,
         ~ torn' => ~ torn, ~ lost' => ~ lost,
         NEW c \in Text, file' = file \o c
  PROVE  FollowInv'
<1> SUFFICES ASSUME pc # "off", seen = gen PROVE FollowNow'
  BY DEF FollowInv, followVars
<1>1. FollowNow
  BY DEF FollowInv
<1>2. file \in Text /\ Len(file) \in Nat /\ base \in Nat /\ offset \in Nat /\ 0 \in Nat
  BY DEF LogTypes, FollowTypes, Text
<1>3. base \in 0..Len(file) /\ offset \in 0..Len(file)
  BY <1>1, <1>2 DEF FollowNow
<1>4. /\ SubSeq(file', base + 1, offset) = SubSeq(file, base + 1, offset)
      /\ Len(file') \in Nat /\ Len(file) <= Len(file')
  <2>1. file \o c \in Text
    BY <1>2, <1>3, TextGrows
  <2>2. QED
    BY <1>2, <1>3, <2>1, TextGrows DEF Text
<1>5. SubSeq(file', 1, base) = SubSeq(file, 1, base) /\ (base # 0 => file'[base] = file[base])
  <2>1. 0 + 1 = 1
    OBVIOUS
  <2>2. SubSeq(file \o c, 0 + 1, base) = SubSeq(file, 0 + 1, base)
        /\ (base # 0 => (file \o c)[base] = file[base])
    BY <1>2, <1>3, TextGrows
  <2>3. QED
    BY <2>1, <2>2
<1>6. UNCHANGED <<pc, filter, offset, leftover, shown, streamed, base, seen>>
  BY DEF followVars
<1>7. /\ base' <= offset' /\ offset' <= Len(file')
      /\ streamed' = Matching(SubSeq(file', base' + 1, offset'), filter')
      /\ leftover' = Rest(SubSeq(file', base' + 1, offset'))
      /\ shown' = TailLines(SubSeq(file', 1, base'), filter')
      /\ ~ torn' /\ ~ lost' => base' = 0 \/ EndsLine(file'[base'])
  <2>1. offset <= Len(file')
    BY <1>1, <1>2, <1>4 DEF FollowNow
  <2>2. QED
    BY <1>1, <1>4, <1>5, <1>6, <2>1 DEF FollowNow
<1>8. QED
  BY <1>7 DEF FollowNow, Matching, Matches, Rest, Rests, TailLines, EndsLine, lineMatches, LineAt

LEMMA TailLinesEmpty ==
  ASSUME NEW src
  PROVE  TailLines(<<>>, src) = <<>>
<1>1. Rest(<<>>) = <<>> /\ Matching(<<>>, src) = <<>> /\ Len(<<>>) = 0
  BY EmptyRead
<1>2. ~ (0 > logsTail)
  BY Sizes
<1>3. QED
  BY <1>1, <1>2 DEF TailLines

(* What Follow meets: the text ends where a line does.                      *)
LEMMA StartsClean ==
  ASSUME LogTypes, RecentInv, ~ torn, ~ lost
  PROVE  Len(file) = 0 \/ EndsLine(file[Len(file)])
<1>1. CASE rotating
  BY <1>1 DEF LogTypes
<1>2. CASE ~ rotating
  <2>1. Log = file
    BY <1>2 DEF Log
  <2>2. CASE written = 0
    BY <2>2 DEF RecentInv
  <2>3. CASE written # 0
    BY <2>1, <2>3 DEF RecentInv, Recent, EndsLine
  <2>4. QED
    BY <2>2, <2>3
<1>3. QED
  BY <1>1, <1>2

LEMMA FollowKeeps ==
  ASSUME FollowInv, pc # "off",
         UNCHANGED <<filter, offset, leftover, base, seen, streamed, shown>>,
         UNCHANGED <<file, gen, torn, lost>>
  PROVE  FollowInv'
<1> SUFFICES ASSUME seen = gen PROVE FollowNow'
  BY DEF FollowInv
<1>1. FollowNow
  BY DEF FollowInv
<1>2. /\ base' <= offset' /\ offset' <= Len(file')
      /\ streamed' = Matching(SubSeq(file', base' + 1, offset'), filter')
      /\ leftover' = Rest(SubSeq(file', base' + 1, offset'))
      /\ shown' = TailLines(SubSeq(file', 1, base'), filter')
      /\ ~ torn' /\ ~ lost' => base' = 0 \/ EndsLine(file'[base'])
  BY <1>1 DEF FollowNow
<1>3. QED
  BY <1>2 DEF FollowNow, Matching, Matches, Rest, Rests, TailLines, EndsLine, lineMatches, LineAt

(* FollowInv holds at first and after every step.                           *)
LEMMA FollowInit == Init => FollowInv
  BY DEF Init, FollowInv

LEMMA FollowInvStep == LogTypes /\ FollowTypes /\ RecentInv /\ FollowInv /\ [Next]_vars => FollowInv'
<1> SUFFICES ASSUME LogTypes, FollowTypes, RecentInv, FollowInv, [Next]_vars PROVE FollowInv'
  OBVIOUS
<1>1. /\ file \in Text /\ kept \in Text /\ Len(file) \in Nat /\ gen \in Nat /\ written \in Nat
      /\ offset \in Nat /\ base \in Nat /\ seen \in Nat /\ seen <= gen /\ filter \in Filter
  BY DEF LogTypes, FollowTypes, Text
<1>2. file \o <<>> = file /\ <<>> \in Text
  BY <1>1 DEF Text
<1>3. ASSUME UNCHANGED <<file, gen, followVars>>, ~ torn' => ~ torn, ~ lost' => ~ lost
      PROVE  FollowInv'
  <2>1. file' = file \o <<>>
    BY <1>2, <1>3
  <2>2. QED
    BY <1>2, <1>3, <2>1, FollowGrows
<1>4. CASE New
  BY <1>3, <1>4 DEF New
<1>5. CASE Write
  <2>1. PICK src \in Src, n \in 0..LineLen : file' = file \o Units(n, written + 1, src)
                                             /\ torn' = (torn \/ n < LineLen)
    BY <1>5 DEF Write
  <2>2. written + 1 \in 1..MaxLines /\ UNCHANGED <<gen, lost, followVars>>
    BY <1>1, <1>5, Sizes DEF Write
  <2>3. Units(n, written + 1, src) \in Text
    BY <2>2, UnitsType
  <2>4. QED
    BY <2>1, <2>2, <2>3, FollowGrows
<1>6. CASE RotateTruncate
  <2>1. gen' = gen + 1 /\ seen' = seen
    BY <1>6 DEF RotateTruncate, followVars
  <2>2. seen' # gen'
    BY <1>1, <2>1
  <2>3. QED
    BY <2>2 DEF FollowInv
<1>7. CASE RotateRewrite
  <2>1. PICK n \in 0..Len(kept) : file' = file \o SubSeq(kept, 1, n) /\ lost' = (lost \/ n < Len(kept))
    BY <1>7 DEF RotateRewrite
  <2>2. UNCHANGED <<gen, torn, followVars>>
    BY <1>7 DEF RotateRewrite
  <2>3. SubSeq(kept, 1, n) \in Text
    BY <1>1 DEF Text
  <2>4. QED
    BY <2>1, <2>2, <2>3, FollowGrows
<1>8. CASE Close
  BY <1>3, <1>8 DEF Close
<1>9. CASE Follow
  <2>1. /\ filter' \in Filter /\ shown' = TailLines(file, filter') /\ streamed' = <<>>
        /\ offset' = Len(file) /\ leftover' = <<>> /\ base' = Len(file)
        /\ UNCHANGED <<file, torn, lost>>
    BY <1>9 DEF Follow, logVars
  <2>2. SubSeq(file, Len(file) + 1, Len(file)) = <<>> /\ SubSeq(file, 1, Len(file)) = file
    BY <1>1 DEF Text
  <2>3. ~ torn /\ ~ lost => Len(file) = 0 \/ EndsLine(file[Len(file)])
    BY StartsClean
  <2>4. Rest(<<>>) = <<>> /\ Matching(<<>>, filter') = <<>>
    BY EmptyRead
  <2>5. /\ base' <= offset' /\ offset' <= Len(file')
        /\ streamed' = Matching(SubSeq(file', base' + 1, offset'), filter')
        /\ leftover' = Rest(SubSeq(file', base' + 1, offset'))
        /\ shown' = TailLines(SubSeq(file', 1, base'), filter')
        /\ ~ torn' /\ ~ lost' => base' = 0 \/ EndsLine(file'[base'])
    <3>1. SubSeq(file', base' + 1, offset') = <<>> /\ SubSeq(file', 1, base') = file
      BY <2>1, <2>2
    <3>2. base' <= offset' /\ offset' <= Len(file')
      BY <1>1, <2>1
    <3>3. ~ torn' /\ ~ lost' => base' = 0 \/ EndsLine(file'[base'])
      BY <2>1, <2>3
    <3>4. QED
      BY <2>1, <2>4, <3>1, <3>2, <3>3
  <2>6. FollowNow'
    BY <2>5 DEF FollowNow, Matching, Matches, Rest, Rests, TailLines, EndsLine, lineMatches, LineAt
  <2>7. QED
    BY <2>6 DEF FollowInv
<1>10. CASE Stat
  <2>1. CASE Restarts
    <3>1. /\ offset' = 0 /\ leftover' = <<>> /\ base' = 0 /\ streamed' = <<>> /\ shown' = <<>>
          /\ UNCHANGED <<filter, file, torn, lost>>
      BY <1>10, <2>1 DEF Stat, logVars
    <3>2. SubSeq(file, 0 + 1, 0) = <<>> /\ SubSeq(file, 1, 0) = <<>>
      BY <1>1 DEF Text
    <3>3. Rest(<<>>) = <<>> /\ Matching(<<>>, filter) = <<>> /\ TailLines(<<>>, filter) = <<>>
      BY EmptyRead, TailLinesEmpty
    <3>4. /\ base' <= offset' /\ offset' <= Len(file')
          /\ streamed' = Matching(SubSeq(file', base' + 1, offset'), filter')
          /\ leftover' = Rest(SubSeq(file', base' + 1, offset'))
          /\ shown' = TailLines(SubSeq(file', 1, base'), filter')
          /\ ~ torn' /\ ~ lost' => base' = 0 \/ EndsLine(file'[base'])
      <4>1. SubSeq(file', base' + 1, offset') = <<>> /\ SubSeq(file', 1, base') = <<>>
        BY <3>1, <3>2
      <4>2. base' <= offset' /\ offset' <= Len(file') /\ base' = 0
        BY <1>1, <3>1
      <4>3. QED
        BY <3>1, <3>3, <4>1, <4>2
    <3>5. FollowNow'
      BY <3>4 DEF FollowNow, Matching, Matches, Rest, Rests, TailLines, EndsLine, lineMatches, LineAt
    <3>6. QED
      BY <3>5 DEF FollowInv
  <2>2. CASE ~ Restarts
    <3>1. /\ UNCHANGED <<filter, offset, leftover, base, seen, streamed, shown>> /\ pc # "off"
          /\ UNCHANGED <<file, gen, torn, lost>>
      BY <1>10, <2>2 DEF Stat, logVars
    <3>2. QED
      BY <3>1, FollowKeeps
  <2>3. QED
    BY <2>1, <2>2
<1>11. CASE Read
  <2> SUFFICES ASSUME seen = gen PROVE FollowNow'
    BY <1>11 DEF Read, FollowInv, logVars
  <2>1. pc # "off" /\ streamed' = streamed \o Matching(leftover \o Chunk, filter)
        /\ leftover' = Rest(leftover \o Chunk) /\ offset' = offset + Len(Chunk)
        /\ UNCHANGED <<filter, shown, base, seen, file, gen, torn, lost>>
    BY <1>11 DEF Read, logVars
  <2>2. FollowNow
    BY <2>1 DEF FollowInv
  <2>3. base <= offset /\ offset <= Len(file)
    BY <2>2 DEF FollowNow
  <2>4. PICK e \in offset..Len(file) : Chunk = SubSeq(file, offset + 1, e) /\ Len(Chunk) = e - offset
    BY <2>3, ChunkIs
  <2>5. e \in Nat /\ offset <= e /\ e <= Len(file) /\ offset + (e - offset) = e /\ base <= e
    BY <1>1, <2>3
  <2>6. offset' = e
    BY <2>1, <2>4, <2>5
  <2> DEFINE t == SubSeq(file, base + 1, offset)
             c == SubSeq(file, offset + 1, e)
  <2>7. t \in Text /\ c \in Text /\ SubSeq(file, base + 1, e) = t \o c
    <3>1. file \in Text /\ base \in Nat /\ offset \in Nat /\ e \in Nat
          /\ base <= offset /\ offset <= e /\ e <= Len(file)
      BY <1>1, <2>3, <2>5
    <3> HIDE DEF t, c
    <3>2. /\ SubSeq(file, base + 1, offset) \in Text /\ SubSeq(file, offset + 1, e) \in Text
          /\ SubSeq(file, base + 1, e) = SubSeq(file, base + 1, offset) \o SubSeq(file, offset + 1, e)
      BY <3>1, TextJoins
    <3>3. QED
      BY <3>2 DEF t, c
  <2>8. streamed = Matching(t, filter) /\ leftover = Rest(t)
    BY <2>2 DEF FollowNow
  <2> HIDE DEF t
  <2>9. streamed' = Matching(t, filter) \o Matching(Rest(t) \o c, filter) /\ leftover' = Rest(Rest(t) \o c)
    BY <2>1, <2>4, <2>8
  <2> HIDE DEF c
  <2>10. Rest(t \o c) = Rest(Rest(t) \o c)
         /\ Matching(t \o c, filter) = Matching(t, filter) \o Matching(Rest(t) \o c, filter)
    BY <2>7, ReadInTwo DEF Text
  <2>11. /\ base' <= offset' /\ offset' <= Len(file')
         /\ streamed' = Matching(SubSeq(file', base' + 1, offset'), filter')
         /\ leftover' = Rest(SubSeq(file', base' + 1, offset'))
         /\ shown' = TailLines(SubSeq(file', 1, base'), filter')
         /\ ~ torn' /\ ~ lost' => base' = 0 \/ EndsLine(file'[base'])
    <3>1. SubSeq(file', base' + 1, offset') = t \o c
      BY <2>1, <2>6, <2>7
    <3>2. streamed' = Matching(t \o c, filter') /\ leftover' = Rest(t \o c)
      BY <2>1, <2>9, <2>10
    <3>3. shown' = TailLines(SubSeq(file', 1, base'), filter')
          /\ (~ torn' /\ ~ lost' => base' = 0 \/ EndsLine(file'[base']))
      BY <2>1, <2>2 DEF FollowNow
    <3>4. base' <= offset' /\ offset' <= Len(file')
      BY <2>1, <2>5, <2>6
    <3>5. QED
      BY <3>1, <3>2, <3>3, <3>4
  <2>12. QED
    BY <2>11 DEF FollowNow, Matching, Matches, Rest, Rests, TailLines, EndsLine, lineMatches, LineAt
<1>12. CASE Poll
  <2>1. /\ UNCHANGED <<filter, offset, leftover, base, seen, streamed, shown>> /\ pc # "off"
        /\ UNCHANGED <<file, gen, torn, lost>>
    BY <1>12 DEF Poll, logVars
  <2>2. QED
    BY <2>1, FollowKeeps
<1>13. CASE Quit
  BY <1>13 DEF Quit, FollowInv
<1>14. CASE UNCHANGED vars
  BY <1>3, <1>14 DEF vars, followVars
<1>15. QED
  BY <1>4, <1>5, <1>6, <1>7, <1>8, <1>9, <1>10, <1>11, <1>12, <1>13, <1>14 DEF Next, FollowStep

(* What ends a sequence is its suffix.                                      *)
LEMMA EndIsSuffix ==
  ASSUME NEW S, NEW u \in Seq(S), NEW s \in Seq(S)
  PROVE  IsSuffix(s, u \o s)
<1> DEFINE t == u \o s
           K == Len(u)
           N == Len(s)
           rs == Reverse(s)
           rt == Reverse(t)
<1>1. K \in Nat /\ N \in Nat /\ t \in Seq(S) /\ Len(t) = K + N /\ \A i \in 1..N : t[K + i] = s[i]
  OBVIOUS
<1>2. /\ rs = [i \in 1..N |-> s[(N - i) + 1]]
      /\ rt = [i \in 1..Len(t) |-> t[(Len(t) - i) + 1]]
  BY DEF Reverse
<1> HIDE DEF t, K, N
<1>3. \A i \in 1..N : (N - i) + 1 \in 1..N /\ (Len(t) - i) + 1 = K + ((N - i) + 1) /\ i \in 1..Len(t)
  BY <1>1
<1>4. \A i \in 1..N : t[(Len(t) - i) + 1] = s[(N - i) + 1]
  BY <1>1, <1>3
<1> HIDE DEF rs, rt
<1>5. \A i \in 1..N : rs[i] = rt[i]
  BY <1>2, <1>3, <1>4
<1>6. \A i \in 1..N : s[i] \in S
  BY DEF N
<1>7. \A i \in 1..Len(t) : t[i] \in S /\ (Len(t) - i) + 1 \in 1..Len(t)
  BY <1>1
<1>8. rs \in Seq(S) /\ Len(rs) = N
  <2>1. \A i \in 1..N : s[(N - i) + 1] \in S
    BY <1>3, <1>6
  <2>2. N \in Nat
    BY <1>1
  <2>3. rs \in Seq(S)
    BY <1>2, <2>1, <2>2
  <2>4. QED
    BY <1>2, <2>2, <2>3
<1>9. rt \in Seq(S) /\ Len(rt) = K + N
  <2>1. \A i \in 1..Len(t) : t[(Len(t) - i) + 1] \in S
    BY <1>7
  <2>2. Len(t) \in Nat /\ Len(t) = K + N
    BY <1>1
  <2>3. rt \in Seq(S)
    BY <1>2, <2>1, <2>2
  <2>4. QED
    BY <1>2, <2>2, <2>3
<1>10. SubSeq(rs, 1, N) = SubSeq(rt, 1, N)
  BY <1>1, <1>5, <1>8, <1>9
<1>11. IsPrefix(rs, rt)
  BY <1>1, <1>8, <1>9, <1>10 DEF IsPrefix
<1>12. QED
  BY <1>11 DEF IsSuffix, rs, rt, t

(* A sequence cut in two.                                                   *)
LEMMA CutInTwo ==
  ASSUME NEW V, NEW m \in Seq(V), NEW k \in 0..Len(m)
  PROVE  /\ SubSeq(m, 1, k) \in Seq(V)
         /\ m = SubSeq(m, 1, k) \o SubSeq(m, k + 1, Len(m))
<1> DEFINE N == Len(m)
           a == SubSeq(m, 1, k)
           b == SubSeq(m, k + 1, N)
<1>1. m \in Seq(V) /\ N \in Nat /\ k \in Nat /\ k <= N /\ \A i \in 1..N : m[i] \in V
  OBVIOUS
<1>2. a \in Seq(V) /\ Len(a) = k /\ \A i \in 1..k : a[i] = m[i]
  OBVIOUS
<1>3. DOMAIN m = 1..N
  OBVIOUS
<1> HIDE DEF N
<1>4. \A i \in (k + 1)..N : i \in 1..N
  BY <1>1
<1>5. \A i \in (k + 1)..N : m[i] \in V
  BY <1>1, <1>4
<1>6. b \in Seq(V)
  BY <1>1, <1>5
<1>7. Len(b) = N - k /\ \A i \in 1..N - k : b[i] = m[k + i]
  BY <1>1
<1>8. N - k \in Nat
  BY <1>1
<1> HIDE DEF a, b
<1>9. a \o b \in Seq(V) /\ Len(a \o b) = N
  <2>1. Len(a \o b) = Len(a) + Len(b) /\ a \o b \in Seq(V)
    <3>1. a \in Seq(V) /\ b \in Seq(V)
      BY <1>2, <1>6
    <3>2. QED
      BY <3>1, ConcatProperties
  <2>2. k + (N - k) = N
    BY <1>1
  <2>3. QED
    BY <1>2, <1>7, <2>1, <2>2
<1>10. \A i \in 1..N : (a \o b)[i] = m[i]
  <2>1. ASSUME NEW i \in 1..N, i <= k PROVE (a \o b)[i] = m[i]
    <3>1. i \in 1..k /\ i \in 1..Len(a)
      BY <1>1, <1>2, <2>1
    <3>2. (a \o b)[i] = a[i]
      BY <1>2, <1>6, <3>1
    <3>3. QED
      BY <1>2, <3>1, <3>2
  <2>2. ASSUME NEW p \in 1..N - k PROVE (a \o b)[k + p] = m[k + p]
    <3>1. p \in 1..Len(b)
      BY <1>7, <2>2
    <3>2. (a \o b)[k + p] = b[p]
      BY <1>1, <1>2, <1>6, <3>1
    <3>3. QED
      BY <1>7, <3>2
  <2>3. \A i \in 1..N : i <= k \/ (i - k \in 1..N - k /\ i = k + (i - k))
    BY <1>1
  <2>4. QED
    BY <2>1, <2>2, <2>3
<1>11. a \o b = m
  <2>1. Len(m) = N
    BY DEF N
  <2>2. QED
    BY <1>1, <1>9, <1>10, <2>1
<1>12. QED
  BY <1>2, <1>11 DEF a, b, N

(* Of a text with no rest, printTail prints the end of what it matches.     *)
LEMMA TailLinesEnd ==
  ASSUME NEW t \in Text, NEW src, Rest(t) = <<>>
  PROVE  \E u \in Seq(Text) : Matching(t, src) = u \o TailLines(t, src)
<1> DEFINE m == Matching(t, src)
           N == Len(m)
           k == N - logsTail
<1>1. m \in Seq(Text)
  BY ReadType DEF Text
<1>2. TailLines(t, src) = IF Len(m) > logsTail THEN SubSeq(m, Len(m) - logsTail + 1, Len(m)) ELSE m
  BY DEF TailLines
<1> HIDE DEF m
<1>3. N \in Nat /\ logsTail \in Nat
  BY <1>1, Sizes
<1>4. CASE N > logsTail
  <2>1. k \in Nat /\ k <= N /\ TailLines(t, src) = SubSeq(m, k + 1, N)
    BY <1>2, <1>3, <1>4
  <2> HIDE DEF k
  <2>2. k \in 0..Len(m)
    BY <1>3, <2>1
  <2>3. SubSeq(m, 1, k) \in Seq(Text) /\ m = SubSeq(m, 1, k) \o SubSeq(m, k + 1, N)
    BY <1>1, <2>2, CutInTwo
  <2>4. QED
    BY <2>1, <2>3 DEF m
<1>5. CASE ~ (N > logsTail)
  <2>1. m = <<>> \o m /\ <<>> \in Seq(Text) /\ TailLines(t, src) = m
    BY <1>1, <1>2, <1>5
  <2>2. QED
    BY <2>1 DEF m
<1>6. QED
  BY <1>4, <1>5

(* The inductive invariant, and the properties that follow from it.        *)
LogInv == LogTypes /\ FollowTypes /\ RecentInv /\ FollowInv

LEMMA LogInvHolds == Spec => []LogInv
<1>1. Init => LogInv
  BY TypesInit, RecentInit, FollowInit DEF LogInv
<1>2. LogInv /\ [Next]_vars => LogInv'
  BY LogTypesStep, FollowTypesStep, RecentStep, FollowInvStep DEF LogInv
<1>3. QED
  BY <1>1, <1>2, PTL DEF Spec

LEMMA TypesMeanTypes == LogTypes /\ FollowTypes => TypeOK
<1> SUFFICES ASSUME LogTypes, FollowTypes PROVE TypeOK
  OBVIOUS
<1>1. ASSUME NEW t \in Text PROVE Range(t) \subseteq Unit
  BY DEF Range, Text
<1>2. Range(file) \subseteq Unit /\ Range(kept) \subseteq Unit /\ Range(leftover) \subseteq Unit
  BY <1>1 DEF LogTypes, FollowTypes
<1>3. {created, up, rotating, torn, lost} \subseteq BOOLEAN /\ (rotating => up)
  BY DEF LogTypes
<1>4. {offset, size, gen, base, seen} \subseteq Nat
  BY DEF LogTypes, FollowTypes
<1>5. QED
  BY <1>2, <1>3, <1>4 DEF TypeOK, LogTypes, FollowTypes

LEMMA RecentMeansKept == LogTypes /\ RecentInv => RecentKept
<1> DEFINE log == IF rotating THEN kept ELSE file
<1> SUFFICES ASSUME LogTypes, RecentInv, ~ lost
             PROVE  /\ \A i \in DOMAIN log \ {1} :
                         \/ log[i].line = log[i - 1].line /\ log[i].part = log[i - 1].part + 1
                         \/ /\ log[i].line > log[i - 1].line /\ log[i].part = 1
                            /\ ~torn => EndsLine(log[i - 1]) /\ log[i].line = log[i - 1].line + 1
                    /\ ~torn /\ written > 0 =>
                         /\ log # <<>> /\ Head(log).part = 1
                         /\ Last(log).line = written /\ EndsLine(Last(log))
                         /\ IF gen = 0 THEN Head(log).line = 1
                            ELSE Len(log) >= MaxBytes \div 2 - LineLen
  BY DEF RecentKept
<1>1. log = Log /\ log \in Text /\ Adjacent(log, torn) /\ written \in Nat /\ gen \in Nat
      /\ (~ torn /\ written # 0 => Recent(log))
  BY Sizes DEF Log, LogTypes, RecentInv
<1> HIDE DEF log
<1>2. DOMAIN log = 1..Len(log) /\ Len(log) \in Nat
  BY <1>1 DEF Text
<1>3. \A i \in DOMAIN log \ {1} : i \in 1..Len(log) /\ i > 1
  BY <1>2
<1>4. \A i \in DOMAIN log \ {1} :
        \/ log[i].line = log[i - 1].line /\ log[i].part = log[i - 1].part + 1
        \/ /\ log[i].line > log[i - 1].line /\ log[i].part = 1
           /\ ~torn => EndsLine(log[i - 1]) /\ log[i].line = log[i - 1].line + 1
  BY <1>1, <1>3 DEF Adjacent, EndsLine
<1>5. ASSUME ~ torn, written > 0
      PROVE  /\ log # <<>> /\ Head(log).part = 1
             /\ Last(log).line = written /\ EndsLine(Last(log))
             /\ IF gen = 0 THEN Head(log).line = 1 ELSE Len(log) >= MaxBytes \div 2 - LineLen
  <2>1. Recent(log)
    BY <1>1, <1>5
  <2>2. log # <<>>
    BY <1>2, <2>1 DEF Recent
  <2>3. Head(log) = log[1] /\ Last(log) = log[Len(log)]
    BY <1>1, <2>2 DEF Last, Text
  <2>4. QED
    BY <2>1, <2>2, <2>3 DEF Recent, EndsLine
<1>6. QED
  BY <1>4, <1>5

LEMMA FollowMeansNoGap == LogTypes /\ FollowTypes /\ FollowInv => NoGap
<1> SUFFICES ASSUME LogTypes, FollowTypes, FollowInv, pc # "off", seen = gen, ~ torn, ~ lost
             PROVE  IsSuffix(shown \o streamed, Matching(SubSeq(file, 1, offset), filter))
  BY DEF NoGap
<1> DEFINE pre == SubSeq(file, 1, base)
           t == SubSeq(file, base + 1, offset)
           full == SubSeq(file, 1, offset)
<1>1. /\ base <= offset /\ offset <= Len(file) /\ streamed = Matching(t, filter)
      /\ shown = TailLines(pre, filter) /\ (base = 0 \/ EndsLine(file[base]))
  BY DEF FollowInv, FollowNow
<1>2. file \in Text /\ Len(file) \in Nat /\ base \in Nat /\ offset \in Nat /\ 0 <= base /\ 0 \in Nat
      /\ 0 + 1 = 1
  BY DEF LogTypes, FollowTypes, Text
<1>3. pre \in Text /\ t \in Text /\ Len(pre) = base /\ full = pre \o t
  <2>1. /\ SubSeq(file, 0 + 1, base) \in Text /\ SubSeq(file, base + 1, offset) \in Text
        /\ Len(SubSeq(file, 0 + 1, base)) = base - 0
        /\ SubSeq(file, 0 + 1, offset) = SubSeq(file, 0 + 1, base) \o SubSeq(file, base + 1, offset)
    <3>1. file \in Text /\ 0 \in Nat /\ base \in Nat /\ offset \in Nat
          /\ 0 <= base /\ base <= offset /\ offset <= Len(file)
      BY <1>1, <1>2
    <3> HIDE DEF pre, t, full
    <3>2. QED
      BY <3>1, TextJoins
  <2>2. base - 0 = base
    BY <1>2
  <2>3. QED
    BY <1>2, <2>1, <2>2
<1>4. Rest(pre) = <<>>
  <2>1. CASE base = 0
    <3>1. pre = <<>>
      BY <1>3, <2>1 DEF Text
    <3>2. QED
      BY <3>1, EmptyRead
  <2>2. CASE base # 0
    <3>1. pre # <<>> /\ pre[base] = file[base]
      BY <1>1, <1>2, <1>3, <2>2 DEF Text
    <3>2. QED
      BY <1>1, <1>3, <2>2, <3>1, EndedRest DEF Text
  <2>3. QED
    BY <2>1, <2>2
<1> HIDE DEF pre, t, full
<1>5. Matching(full, filter) = Matching(pre, filter) \o streamed
  <2>1. Matching(full, filter) = Matching(pre, filter) \o Matching(Rest(pre) \o t, filter)
    BY <1>3, ReadInTwo DEF Text
  <2>2. <<>> \o t = t
    BY <1>3 DEF Text
  <2>3. QED
    BY <1>1, <1>4, <2>1, <2>2
<1>6. PICK u \in Seq(Text) : Matching(pre, filter) = u \o shown
  BY <1>1, <1>3, <1>4, TailLinesEnd
<1>7. shown \in Seq(Text) /\ streamed \in Seq(Text)
  BY DEF FollowTypes
<1>8. (u \o shown) \o streamed = u \o (shown \o streamed) /\ shown \o streamed \in Seq(Text)
  BY <1>7
<1>9. IsSuffix(shown \o streamed, u \o (shown \o streamed))
  BY <1>8, EndIsSuffix
<1>10. QED
  BY <1>5, <1>6, <1>8, <1>9 DEF full

(* Every variable of the daemon's log and of its follower keeps to its type: *)
(* no rotation, torn write or restart of the follower leaves a text with    *)
(* anything but units in it (nodelog.go, logs.go).                          *)
THEOREM TypeCorrect == Spec => []TypeOK
<1>1. LogInv => TypeOK
  BY TypesMeanTypes DEF LogInv
<1>2. QED
  BY <1>1, LogInvHolds, PTL

(* Rotation keeps the recent history, in order and up to the last line      *)
(* written, as long as every rotation wrote back what it cut                *)
(* (nodelog.go Rotate).                                                     *)
THEOREM RecentAlwaysKept == Spec => []RecentKept
<1>1. LogInv => RecentKept
  BY RecentMeansKept DEF LogInv
<1>2. QED
  BY <1>1, LogInvHolds, PTL

(* The follower printed the matching lines of what it has gone past, and    *)
(* carries the unfinished one over, however its reads cut the file and      *)
(* wherever the daemon's writes and rotations fell between its Stat and its *)
(* ReadAt (logs.go cmdLogs, printStream).                                   *)
THEOREM AlwaysFollowed == Spec => []Followed
<1>1. LogInv => Followed
  BY DEF LogInv, FollowInv, FollowNow, Followed
<1>2. QED
  BY <1>1, LogInvHolds, PTL

(* The tail it printed first and what it streamed after are together the    *)
(* end of the log's matching lines: none twice, none left out between       *)
(* (logs.go printTail, cmdLogs).                                            *)
THEOREM NeverAGap == Spec => []NoGap
<1>1. LogInv => NoGap
  BY FollowMeansNoGap DEF LogInv
<1>2. QED
  BY <1>1, LogInvHolds, PTL

============================================================================
