---------------------------- MODULE RouteTableProofs ----------------------------
(***************************************************************************)
(* Proofs about RouteTable, for any controllers, programs and routes.      *)
(***************************************************************************)
EXTENDS RouteTable, TLAPS, NaturalsInduction, WellFoundedInduction, SequenceTheorems

-----------------------------------------------------------------------------
(* Loops.  What holds of a loop is proved with the least turn after which  *)
(* it would not.                                                           *)

LEMMA LeastTurn ==
  ASSUME NEW S \in SUBSET Nat, S # {}
  PROVE  \E i \in S : \A j \in S : i <= j
<1> DEFINE Less == OpToRel(<, Nat)
<1>1. IsWellFoundedOn(Less, Nat)
  BY NatLessThanWellFounded, Zenon
<1>2. Less = {ss \in Nat \X Nat : ss[1] < ss[2]}
  BY Zenon DEF OpToRel
<1> HIDE DEF Less
<1>3. \E i \in S : \A j \in S : ~(<<j, i>> \in Less)
  BY <1>1, WFMin, Zenon
<1>4. ASSUME NEW i \in S, NEW j \in S, ~(<<j, i>> \in Less) PROVE i <= j
  BY <1>2, <1>4
<1> QED
  BY <1>3, <1>4

LEMMA EveryTurn ==
  ASSUME NEW N \in Nat, NEW S, 0 \in S, \A n \in 1 .. N : n - 1 \in S => n \in S
  PROVE  \A n \in 0 .. N : n \in S
<1> DEFINE Rest == {n \in 0 .. N : n \notin S}
<1> SUFFICES ASSUME Rest # {} PROVE FALSE
  OBVIOUS
<1>1. PICK n \in Rest : \A j \in Rest : n <= j
  <2>1. Rest \in SUBSET Nat
    OBVIOUS
  <2> HIDE DEF Rest
  <2> QED
    BY <2>1, LeastTurn
<1>2. n \in 1 .. N /\ n - 1 \in 0 .. N /\ n - 1 < n
  BY <1>1
<1>3. n - 1 \in S
  BY <1>1, <1>2
<1> QED
  BY <1>1, <1>2, <1>3

(* What a loop comes to exists, whatever its turns do.                     *)
Loops(N, X)        == [1 .. N -> [X -> X]]
RunOf(f, N, X, b, G) == f \in [0 .. N -> X] /\ f[0] = b /\ \A n \in 1 .. N : f[n] = G[n][f[n - 1]]

LEMMA Turns ==
  ASSUME NEW N \in Nat, NEW X, NEW b \in X, NEW G \in Loops(N, X)
  PROVE  \E f : RunOf(f, N, X, b, G)
<1> DEFINE Run(f, k) == f[0] = b /\ \A n \in 1 .. k : f[n] = G[n][f[n - 1]]
           S == {k \in 0 .. N : \E f \in [0 .. k -> X] : Run(f, k)}
<1>1. 0 \in S
  <2> DEFINE f == [i \in 0 .. 0 |-> b]
  <2>1. f \in [0 .. 0 -> X] /\ Run(f, 0) /\ 0 \in 0 .. N
    OBVIOUS
  <2> HIDE DEF f
  <2> QED
    BY <2>1
<1>2. ASSUME NEW k \in 1 .. N, k - 1 \in S PROVE k \in S
  <2>1. PICK f \in [0 .. k - 1 -> X] : Run(f, k - 1)
    BY <1>2
  <2> DEFINE g == [i \in 0 .. k |-> IF i = k THEN G[k][f[k - 1]] ELSE f[i]]
  <2>2. g \in [0 .. k -> X]
    <3>1. G[k] \in [X -> X] /\ f[k - 1] \in X
      BY DEF Loops
    <3> QED
      BY <3>1
  <2>3. g[0] = b
    BY <2>1
  <2>4. ASSUME NEW n \in 1 .. k PROVE g[n] = G[n][g[n - 1]]
    <3>1. CASE n = k
      BY <3>1
    <3>2. CASE n # k
      <4>1. n \in 1 .. k - 1 /\ n - 1 \in 0 .. k - 1
        BY <3>2
      <4>2. f[n] = G[n][f[n - 1]]
        BY <2>1, <4>1
      <4> QED
        BY <4>1, <4>2
    <3> QED
      BY <3>1, <3>2
  <2> HIDE DEF g
  <2> QED
    BY <2>2, <2>3, <2>4
<1> HIDE DEF S
<1>3. \A n \in 0 .. N : n \in S
  BY <1>1, <1>2, EveryTurn
<1> QED
  BY <1>3 DEF S, RunOf

-----------------------------------------------------------------------------
(* Sequences.                                                              *)

LEMMA FlattenTurns ==
  ASSUME NEW S, NEW ss \in Seq(Seq(S)), Len(ss) # 0
  PROVE  \E g : /\ FlattenSeq(ss) = g[Len(ss)]
                /\ g = [i \in 1 .. Len(ss) |-> IF i = 1 THEN ss[i] ELSE g[i - 1] \o ss[i]]
<1> DEFINE X == Seq(S)
           N == Len(ss)
           F(g) == [i \in 1 .. N |-> IF i = 1 THEN ss[i] ELSE g[i - 1] \o ss[i]]
<1>1. N \in Nat /\ <<>> \in X /\ \A i \in 1 .. N : ss[i] \in X
  OBVIOUS
<1>2. \A x, y \in X : x \o y \in X /\ <<>> \o x = x
  OBVIOUS
<1>3. FlattenSeq(ss) = (CHOOSE g : g = F(g))[N]
  BY Zenon DEF FlattenSeq
<1> HIDE DEF X, N
<1>4. \E g : g = F(g)
  <2> DEFINE G == [n \in 1 .. N |-> [x \in X |-> x \o ss[n]]]
  <2>1. G \in Loops(N, X)
    BY <1>1, <1>2 DEF Loops
  <2>2. PICK f \in [0 .. N -> X] : f[0] = <<>> /\ \A n \in 1 .. N : f[n] = G[n][f[n - 1]]
    <3> HIDE DEF G
    <3>1. \E f : RunOf(f, N, X, <<>>, G)
      BY <1>1, <2>1, Turns
    <3> QED
      BY <3>1 DEF RunOf
  <2> DEFINE g == [i \in 1 .. N |-> f[i]]
  <2>3. ASSUME NEW i \in 1 .. N PROVE f[i] = IF i = 1 THEN ss[i] ELSE g[i - 1] \o ss[i]
    <3>1. f[i] = f[i - 1] \o ss[i]
      <4>1. f[i - 1] \in X
        <5>1. i - 1 \in 0 .. N
          BY <1>1
        <5> QED
          BY <5>1
      <4>2. G[i][f[i - 1]] = f[i - 1] \o ss[i]
        BY <4>1
      <4> HIDE DEF G
      <4> QED
        BY <2>2, <4>2
    <3>2. CASE i = 1
      BY <1>1, <1>2, <2>2, <3>1, <3>2
    <3>3. CASE i # 1
      <4>1. i - 1 \in 1 .. N
        BY <1>1, <3>3
      <4> QED
        BY <3>1, <3>3, <4>1
    <3> QED
      BY <3>2, <3>3
  <2>4. g = F(g)
    BY <2>3
  <2> QED
    BY <2>4
<1> QED
  BY <1>3, <1>4, Zenon DEF N

(* A flattened sequence has the elements of its parts.                     *)
LEMMA Flattened ==
  ASSUME NEW S, NEW ss \in Seq(Seq(S))
  PROVE  /\ FlattenSeq(ss) \in Seq(S)
         /\ ToSet(FlattenSeq(ss)) = UNION {ToSet(ss[i]) : i \in DOMAIN ss}
<1>1. /\ Len(ss) \in Nat /\ DOMAIN ss = 1 .. Len(ss)
      /\ \A i \in 1 .. Len(ss) : ss[i] \in Seq(S)
  OBVIOUS
<1>2. CASE Len(ss) = 0
  <2>1. FlattenSeq(ss) = ss /\ ss = <<>>
    BY <1>2 DEF FlattenSeq
  <2>2. ToSet(<<>>) = {} /\ DOMAIN ss = {}
    BY <2>1 DEF ToSet
  <2> QED
    BY <2>1, <2>2
<1>3. CASE Len(ss) # 0
  <2>1. PICK g : /\ FlattenSeq(ss) = g[Len(ss)]
                 /\ g = [i \in 1 .. Len(ss) |-> IF i = 1 THEN ss[i] ELSE g[i - 1] \o ss[i]]
    BY <1>3, FlattenTurns
  <2>2. \A i \in 1 .. Len(ss) : g[i] = IF i = 1 THEN ss[i] ELSE g[i - 1] \o ss[i]
    BY <2>1
  <2> DEFINE Parts(n) == UNION {ToSet(ss[i]) : i \in 1 .. n}
             P == {n \in 0 .. Len(ss) : n > 0 => g[n] \in Seq(S) /\ ToSet(g[n]) = Parts(n)}
  <2>3. 0 \in P
    BY <1>1
  <2>4. ASSUME NEW n \in 1 .. Len(ss), n - 1 \in P PROVE n \in P
    <3>1. CASE n = 1
      <4>1. g[n] = ss[1] /\ ss[1] \in Seq(S)
        BY <1>1, <2>2, <3>1
      <4>2. Parts(1) = ToSet(ss[1])
        OBVIOUS
      <4> HIDE DEF Parts
      <4>3. g[n] \in Seq(S) /\ ToSet(g[n]) = Parts(n)
        BY <3>1, <4>1, <4>2
      <4> QED
        BY <4>3
    <3>2. CASE n # 1
      <4>1. g[n] = g[n - 1] \o ss[n] /\ ss[n] \in Seq(S)
        BY <1>1, <2>2, <3>2
      <4>2. g[n - 1] \in Seq(S) /\ ToSet(g[n - 1]) = Parts(n - 1)
        BY <2>4, <3>2
      <4>3. ASSUME NEW a \in Seq(S), NEW b \in Seq(S)
            PROVE  a \o b \in Seq(S) /\ ToSet(a \o b) = ToSet(a) \cup ToSet(b)
        <5>1. /\ DOMAIN a = 1 .. Len(a) /\ DOMAIN b = 1 .. Len(b)
              /\ DOMAIN (a \o b) = 1 .. Len(a) + Len(b)
              /\ \A i \in 1 .. Len(a) + Len(b) : (a \o b)[i] = IF i <= Len(a) THEN a[i] ELSE b[i - Len(a)]
              /\ Len(a) \in Nat /\ Len(b) \in Nat
          OBVIOUS
        <5>2. ASSUME NEW x \in ToSet(a \o b) PROVE x \in ToSet(a) \cup ToSet(b)
          BY <5>1 DEF ToSet
        <5>3. ASSUME NEW i \in 1 .. Len(a) PROVE a[i] \in ToSet(a \o b)
          BY <5>1 DEF ToSet
        <5>4. ASSUME NEW i \in 1 .. Len(b) PROVE b[i] \in ToSet(a \o b)
          <6>1. i + Len(a) \in 1 .. Len(a) + Len(b) /\ (a \o b)[i + Len(a)] = b[i]
            BY <5>1
          <6> QED
            BY <5>1, <6>1 DEF ToSet
        <5>5. \A x \in ToSet(a) \cup ToSet(b) : x \in ToSet(a \o b)
          BY <5>1, <5>3, <5>4 DEF ToSet
        <5> QED
          BY <5>2, <5>5
      <4>4. Parts(n) = Parts(n - 1) \cup ToSet(ss[n])
        <5>1. \A i : i \in 1 .. n <=> i \in 1 .. n - 1 \/ i = n
          OBVIOUS
        <5> QED
          BY <5>1
      <4> HIDE DEF Parts
      <4>5. g[n] \in Seq(S) /\ ToSet(g[n]) = Parts(n)
        BY <4>1, <4>2, <4>3, <4>4
      <4> QED
        BY <4>5
    <3> QED
      BY <3>1, <3>2
  <2> HIDE DEF P
  <2>5. Len(ss) \in P
    <3> DEFINE K == Len(ss)
    <3>1. K \in Nat /\ \A n \in 1 .. K : n - 1 \in P => n \in P
      BY <1>1, <2>4
    <3> HIDE DEF K
    <3>2. \A n \in 0 .. K : n \in P
      BY <2>3, <3>1, EveryTurn
    <3> QED
      BY <1>1, <3>2 DEF K
  <2>6. g[Len(ss)] \in Seq(S) /\ ToSet(g[Len(ss)]) = Parts(Len(ss))
    <3> HIDE DEF Parts
    <3> QED
      BY <1>1, <1>3, <2>5 DEF P
  <2> QED
    BY <1>1, <2>1, <2>6
<1> QED
  BY <1>2, <1>3

(* Those of a sequence that are in a set.                                  *)
LEMMA Amongst ==
  ASSUME NEW T, NEW s \in Seq(T), NEW S
  PROVE  Among(s, S) \in Seq(T) /\ ToSet(Among(s, S)) = {x \in ToSet(s) : x \in S}
<1> DEFINE ss == [i \in DOMAIN s |-> IF s[i] \in S THEN <<s[i]>> ELSE <<>>]
<1>1. DOMAIN s = 1 .. Len(s) /\ \A i \in 1 .. Len(s) : s[i] \in T
  OBVIOUS
<1>2. ss \in Seq(Seq(T)) /\ DOMAIN ss = DOMAIN s
  <2>1. \A i \in DOMAIN s : <<s[i]>> \in Seq(T) /\ <<>> \in Seq(T)
    BY <1>1
  <2>2. ss \in [1 .. Len(s) -> Seq(T)] /\ Len(s) \in Nat
    BY <1>1, <2>1
  <2> HIDE DEF ss
  <2> QED
    BY <1>1, <2>2
<1>3. ToSet(<<>>) = {} /\ \A x : ToSet(<<x>>) = {x}
  BY DEF ToSet
<1>4. UNION {ToSet(ss[i]) : i \in DOMAIN ss} = {x \in ToSet(s) : x \in S}
  <2>1. \A i \in DOMAIN s : ToSet(ss[i]) = IF s[i] \in S THEN {s[i]} ELSE {}
    BY <1>3
  <2>2. ASSUME NEW x PROVE (\E i \in DOMAIN s : x \in ToSet(ss[i])) <=> x \in ToSet(s) /\ x \in S
    <3>1. x \in ToSet(s) <=> \E i \in DOMAIN s : x = s[i]
      BY DEF ToSet
    <3> HIDE DEF ss
    <3> QED
      BY <2>1, <3>1
  <2> HIDE DEF ss
  <2> QED
    BY <1>2, <2>2
<1>5. Among(s, S) = FlattenSeq(ss)
  BY DEF Among
<1> HIDE DEF ss
<1> QED
  BY <1>2, <1>4, <1>5, Flattened

(* The same of sequences whose elements have no set of their own.          *)
LEMMA SequentialIs ==
  ASSUME NEW S, NEW s \in Seq(S)
  PROVE  Sequential(s)
<1>1. s \in [1 .. Len(s) -> ToSet(s)] /\ Len(s) \in Nat
  BY DEF ToSet
<1> QED
  BY <1>1 DEF Sequential

LEMMA SequentialDomain ==
  ASSUME NEW s, Sequential(s)
  PROVE  /\ Len(s) \in Nat /\ DOMAIN s = 1 .. Len(s)
         /\ \A x : x \in ToSet(s) <=> \E i \in 1 .. Len(s) : x = s[i]
<1>1. Len(s) \in Nat /\ DOMAIN s = 1 .. Len(s)
  BY DEF Sequential
<1> QED
  BY <1>1 DEF ToSet

LEMMA SequentialBy ==
  ASSUME NEW s, NEW D, NEW n \in Nat, D = 1 .. n, s = [i \in D |-> s[i]]
  PROVE  Sequential(s) /\ \A x : x \in ToSet(s) <=> \E i \in D : x = s[i]
<1> DEFINE T == ToSet(s)
<1>1. \A x : x \in ToSet(s) <=> \E i \in D : x = s[i]
  BY DEF ToSet
<1>2. s \in [1 .. n -> T]
  BY <1>1
<1> HIDE DEF T
<1>3. s \in Seq(T)
  BY <1>2
<1>4. Sequential(s)
  BY <1>3, SequentialIs
<1> QED
  BY <1>1, <1>4

LEMMA FlattenedSequential ==
  ASSUME NEW ss, Sequential(ss), \A i \in DOMAIN ss : Sequential(ss[i])
  PROVE  /\ Sequential(FlattenSeq(ss))
         /\ \A x : x \in ToSet(FlattenSeq(ss)) <=> \E i \in DOMAIN ss : x \in ToSet(ss[i])
<1> DEFINE S == UNION {ToSet(ss[i]) : i \in DOMAIN ss}
<1>1. ss \in Seq(Seq(S))
  <2>1. ASSUME NEW i \in DOMAIN ss PROVE ss[i] \in Seq(S)
    <3>1. ToSet(ss[i]) \subseteq S /\ ss[i] \in Seq(ToSet(ss[i]))
      BY <2>1 DEF Sequential
    <3> HIDE DEF S
    <3>2. ss[i] \in [1 .. Len(ss[i]) -> S] /\ Len(ss[i]) \in Nat
      BY <3>1
    <3> QED
      BY <3>2
  <2> DEFINE X == Seq(S)
  <2>2. DOMAIN ss = 1 .. Len(ss) /\ Len(ss) \in Nat /\ ss \in Seq(ToSet(ss))
    BY DEF Sequential
  <2> HIDE DEF X
  <2>3. ss \in [1 .. Len(ss) -> X]
    BY <2>1, <2>2 DEF X
  <2>4. ss \in Seq(X)
    BY <2>2, <2>3
  <2> QED
    BY <2>4 DEF X
<1>2. FlattenSeq(ss) \in Seq(S) /\ ToSet(FlattenSeq(ss)) = S
  BY <1>1, Flattened
<1> HIDE DEF S
<1>3. Sequential(FlattenSeq(ss))
  BY <1>2, SequentialIs
<1> QED
  BY <1>2, <1>3 DEF S

LEMMA AmongSequential ==
  ASSUME NEW s, Sequential(s), NEW S
  PROVE  Sequential(Among(s, S)) /\ ToSet(Among(s, S)) = {x \in ToSet(s) : x \in S}
<1>1. s \in Seq(ToSet(s))
  BY DEF Sequential
<1> DEFINE T == ToSet(s)
           r == Among(s, S)
<1>2. r \in Seq(T) /\ ToSet(r) = {x \in ToSet(s) : x \in S}
  BY <1>1, Amongst
<1> HIDE DEF r, T
<1>3. Sequential(r)
  BY <1>2, SequentialIs
<1> QED
  BY <1>2, <1>3 DEF r

LEMMA HeadOfSome ==
  ASSUME NEW s, Sequential(s), NEW x \in ToSet(s)
  PROVE  Head(s) \in ToSet(s)
<1>1. Len(s) >= 1 /\ s[1] \in ToSet(s)
  BY SequentialDomain
<1>2. Head(s) = s[1]
  BY <1>1 DEF Sequential
<1> QED
  BY <1>1, <1>2

-----------------------------------------------------------------------------
(* The loop of access().                                                   *)

Judgement == [over : BOOLEAN, hit : BOOLEAN, allow : BOOLEAN]

LEMMA JudgeType ==
  ASSUME NEW acc \in Judgement, NEW a, NEW c
  PROVE  Judge(acc, a, c) \in Judgement
BY DEF Judgement, Judge

LEMMA JudgedTurns ==
  ASSUME NEW list, Len(list) \in Nat, NEW c
  PROVE  \E g : /\ Judged(list, c) = g[Len(list)]
                /\ g = [n \in 0 .. Len(list) |-> IF n = 0 THEN Unjudged ELSE Judge(g[n - 1], list[n], c)]
<1> DEFINE N == Len(list)
           F(g) == [n \in 0 .. N |-> IF n = 0 THEN Unjudged ELSE Judge(g[n - 1], list[n], c)]
<1>1. N \in Nat /\ Unjudged \in Judgement
  BY DEF Unjudged, Judgement
<1>2. Judged(list, c) = (CHOOSE g : g = F(g))[N]
  BY Zenon DEF Judged
<1> HIDE DEF N
<1>3. \E g : g = F(g)
  <2> DEFINE G == [n \in 1 .. N |-> [acc \in Judgement |-> Judge(acc, list[n], c)]]
  <2>1. G \in Loops(N, Judgement)
    BY <1>1, JudgeType DEF Loops
  <2>2. PICK f \in [0 .. N -> Judgement] : f[0] = Unjudged /\ \A n \in 1 .. N : f[n] = G[n][f[n - 1]]
    <3> HIDE DEF G
    <3>1. \E f : RunOf(f, N, Judgement, Unjudged, G)
      BY <1>1, <2>1, Turns
    <3> QED
      BY <3>1 DEF RunOf
  <2>3. ASSUME NEW n \in 0 .. N PROVE f[n] = IF n = 0 THEN Unjudged ELSE Judge(f[n - 1], list[n], c)
    <3>1. CASE n # 0
      <4>1. n \in 1 .. N /\ n - 1 \in 0 .. N
        BY <1>1, <3>1
      <4>2. f[n - 1] \in Judgement
        BY <4>1
      <4>3. G[n][f[n - 1]] = Judge(f[n - 1], list[n], c)
        BY <4>1, <4>2
      <4> HIDE DEF G
      <4> QED
        BY <2>2, <3>1, <4>1, <4>3
    <3> QED
      BY <2>2, <3>1
  <2>4. f = F(f)
    BY <2>3
  <2> QED
    BY <2>4
<1> QED
  BY <1>2, <1>3, Zenon DEF N

Exact(list, c, n)    == {i \in 1 .. n : list[i].exact /\ list[i].name = c}
Matching(list, c, n) == {i \in 1 .. n : ~list[i].exact /\ c \in Matches[list[i].name]}

(* What the first n entries of the list have come to.                      *)
JudgedBy(acc, list, c, n) ==
  /\ acc \in Judgement
  /\ acc.over <=> Exact(list, c, n) # {}
  /\ acc.over => acc.hit /\ \E m \in Exact(list, c, n) : /\ \A j \in Exact(list, c, n) : m <= j
                                                         /\ acc.allow <=> list[m].access = "allow"
  /\ ~acc.over => /\ acc.hit <=> Matching(list, c, n) # {}
                  /\ acc.allow <=> \E i \in Matching(list, c, n) : list[i].access = "allow"

LEMMA JudgedNext ==
  ASSUME NEW list, NEW c, NEW n \in Nat \ {0}, NEW acc, JudgedBy(acc, list, c, n - 1)
  PROVE  JudgedBy(Judge(acc, list[n], c), list, c, n)
<1>1. Judge(acc, list[n], c) \in Judgement
  BY JudgeType DEF JudgedBy
<1> DEFINE a == list[n]
           E == Exact(list, c, n - 1)
           M == Matching(list, c, n - 1)
<1>2. /\ Exact(list, c, n) = IF a.exact /\ a.name = c THEN E \cup {n} ELSE E
      /\ Matching(list, c, n) = IF ~a.exact /\ c \in Matches[a.name] THEN M \cup {n} ELSE M
  BY DEF Exact, Matching
<1>3. \A i \in E \cup M : i \in Nat /\ i < n
  BY DEF Exact, Matching
<1>4. CASE acc.over
  <2>1. Judge(acc, a, c) = acc
    BY <1>4 DEF Judge
  <2>2. PICK m \in E : (\A j \in E : m <= j) /\ (acc.allow <=> list[m].access = "allow")
    BY <1>4 DEF JudgedBy
  <2>3. m \in Exact(list, c, n) /\ \A j \in Exact(list, c, n) : m <= j
    BY <1>2, <1>3, <2>2
  <2> QED
    BY <1>1, <1>4, <2>1, <2>2, <2>3 DEF JudgedBy
<1>5. CASE ~acc.over /\ a.exact /\ a.name = c
  <2> DEFINE now == Judge(acc, a, c)
  <2>1. now = [over |-> TRUE, hit |-> TRUE, allow |-> a.access = "allow"]
    BY <1>5 DEF Judge
  <2>2. now.over /\ now.hit /\ (now.allow <=> a.access = "allow")
    <3> HIDE DEF now, a
    <3>1. CASE a.access = "allow"
      <4>1. now = [over |-> TRUE, hit |-> TRUE, allow |-> TRUE]
        BY <2>1, <3>1
      <4> QED
        BY <3>1, <4>1
    <3>2. CASE a.access # "allow"
      <4>1. now = [over |-> TRUE, hit |-> TRUE, allow |-> FALSE]
        BY <2>1, <3>2
      <4> QED
        BY <3>2, <4>1
    <3> QED
      BY <3>1, <3>2
  <2>3. Exact(list, c, n) = {n}
    BY <1>2, <1>5 DEF JudgedBy
  <2>4. n <= n
    OBVIOUS
  <2> HIDE DEF now
  <2> QED
    BY <1>1, <2>2, <2>3, <2>4 DEF JudgedBy, now
<1>6. CASE ~acc.over /\ ~(a.exact /\ a.name = c)
  <2>1. Exact(list, c, n) = {}
    BY <1>2, <1>6 DEF JudgedBy
  <2>2. CASE ~a.exact /\ c \in Matches[a.name]
    <3>1. Judge(acc, a, c) = [acc EXCEPT !.hit = TRUE, !.allow = @ \/ a.access = "allow"]
      BY <1>6, <2>2 DEF Judge
    <3>2. /\ Judge(acc, a, c).over = acc.over
          /\ Judge(acc, a, c).hit
          /\ Judge(acc, a, c).allow <=> acc.allow \/ a.access = "allow"
      BY <3>1 DEF JudgedBy, Judgement
    <3>3. Matching(list, c, n) = M \cup {n}
      BY <1>2, <2>2
    <3> QED
      BY <1>1, <1>6, <2>1, <3>2, <3>3 DEF JudgedBy
  <2>3. CASE ~(~a.exact /\ c \in Matches[a.name])
    <3>1. Judge(acc, a, c) = acc
      BY <1>6, <2>3 DEF Judge
    <3>2. Matching(list, c, n) = M
      BY <1>2, <2>3
    <3> QED
      BY <1>1, <1>6, <2>1, <3>1, <3>2 DEF JudgedBy
  <2> QED
    BY <2>2, <2>3
<1> QED
  BY <1>4, <1>5, <1>6

LEMMA JudgedAll ==
  ASSUME NEW list, Sequential(list), NEW c
  PROVE  JudgedBy(Judged(list, c), list, c, Len(list))
<1> DEFINE N == Len(list)
<1>1. N \in Nat
  BY DEF Sequential
<1> HIDE DEF N
<1>2. PICK g : Judged(list, c) = g[N] /\ g = [n \in 0 .. N |-> IF n = 0 THEN Unjudged ELSE Judge(g[n - 1], list[n], c)]
  BY <1>1, JudgedTurns DEF N
<1> DEFINE P == {n \in 0 .. N : JudgedBy(g[n], list, c, n)}
<1>3. 0 \in P
  <2>1. g[0] = Unjudged
    BY <1>1, <1>2
  <2>2. Exact(list, c, 0) = {} /\ Matching(list, c, 0) = {}
    BY DEF Exact, Matching
  <2>3. JudgedBy(Unjudged, list, c, 0)
    BY <2>2 DEF JudgedBy, Judgement, Unjudged
  <2> QED
    BY <1>1, <2>1, <2>3
<1>4. ASSUME NEW n \in 1 .. N, n - 1 \in P PROVE n \in P
  <2>1. g[n] = Judge(g[n - 1], list[n], c) /\ n \in Nat \ {0}
    BY <1>1, <1>2
  <2> QED
    BY <1>4, <2>1, JudgedNext
<1> HIDE DEF P
<1>5. \A n \in 0 .. N : n \in P
  BY <1>1, <1>3, <1>4, EveryTurn
<1> QED
  BY <1>1, <1>2, <1>5 DEF P, N

(* access() lets in what the list lets in, whatever the order of its       *)
(* patterns (WebServer.ts:51-84).                                          *)
THEOREM AccessLetsIn ==
  ASSUME NEW list, list = NoAccess \/ Sequential(list), NEW c
  PROVE  access(list, c) <=> LetsIn(list, c)
<1>1. CASE list = NoAccess
  BY <1>1 DEF access, LetsIn
<1>2. CASE list # NoAccess
  <2> DEFINE E == Exact(list, c, Len(list))
             M == Matching(list, c, Len(list))
             acc == Judged(list, c)
  <2>1. JudgedBy(acc, list, c, Len(list)) /\ DOMAIN list = 1 .. Len(list)
    BY <1>2, JudgedAll DEF Sequential
  <2>2. LetsIn(list, c) <=> IF E # {} THEN list[Min(E)].access = "allow"
                            ELSE M = {} \/ \E i \in M : list[i].access = "allow"
    BY <1>2, <2>1 DEF LetsIn, Naming, Covering, Exact, Matching
  <2>3. access(list, c) <=> acc.allow \/ ~acc.hit
    BY <1>2 DEF access
  <2> HIDE DEF acc
  <2>4. CASE acc.over
    <3>1. PICK m \in E : (\A j \in E : m <= j) /\ (acc.allow <=> list[m].access = "allow")
      BY <2>1, <2>4 DEF JudgedBy
    <3>2. Min(E) = m
      <4>1. E \in SUBSET Nat
        BY DEF Exact
      <4> HIDE DEF E
      <4>2. \A x \in E : (\A y \in E : x =< y) => x = m
        BY <3>1, <4>1
      <4>3. Min(E) \in E /\ \A y \in E : Min(E) =< y
        BY <3>1 DEF Min
      <4> QED
        BY <4>2, <4>3
    <3>3. acc.hit /\ E # {}
      BY <2>1, <2>4 DEF JudgedBy
    <3> HIDE DEF E, M
    <3> QED
      BY <2>2, <2>3, <3>1, <3>2, <3>3
  <2>5. CASE ~acc.over
    <3>1. E = {} /\ (acc.hit <=> M # {}) /\ (acc.allow <=> \E i \in M : list[i].access = "allow")
      BY <2>1, <2>5 DEF JudgedBy
    <3> HIDE DEF E, M
    <3> QED
      BY <2>2, <2>3, <3>1
  <2> QED
    BY <2>4, <2>5
<1> QED
  BY <1>1, <1>2

-----------------------------------------------------------------------------
(* What is mounted.                                                        *)

(* So far an entry with controllers has a mount if it selects some, and    *)
(* what a mount of it has is what it selects.                              *)
MountedRightly(k) ==
  /\ mounts[k].entry < place
  /\ \A e : e = entries[mounts[k].entry] =>
       mounts[k].controllers = IF e.type = "routing_controller" THEN Selected(e) ELSE {}

Provided(i) ==
  \A e : e = entries[i] /\ e.type = "routing_controller" /\ Selected(e) # {} =>
    \E k \in DOMAIN mounts : mounts[k].entry = i

RouteInv ==
  /\ program \in Programs /\ entries \in RouteLists
  /\ preparing \in {"going", "prepared", "failed"}
  /\ place \in 1 .. Len(entries) + 1
  /\ mounts \in Seq([entry : DOMAIN entries, controllers : SUBSET Controllers])
  /\ Len(mounts) < place
  /\ \A k \in DOMAIN mounts : MountedRightly(k)
  /\ \A i \in 1 .. place - 1 : Provided(i)
  /\ IF preparing = "prepared" THEN place = Len(entries) + 1 /\ table = getRoutes ELSE table = <<>>

LEMMA EntriesType ==
  ASSUME NEW l \in RouteLists
  PROVE  Len(l) \in Nat /\ DOMAIN l = 1 .. Len(l)
BY RouteAssumption DEF Sequential

(* Nothing but the metadata, the entries and the mounts decides what is    *)
(* selected and which routes there are.                                    *)
LEMMA SelectedStays ==
  ASSUME program' = program
  PROVE  \A e : Selected(e)' = Selected(e)
BY DEF Selected, GroupOf

LEMMA RoutesStay ==
  ASSUME program' = program, entries' = entries, mounts' = mounts
  PROVE  getRoutes' = getRoutes
<1>1. \A m : RowsOf(m)' = RowsOf(m)
  BY DEF RowsOf, Row, RowOf, BareRow, StaticRow, Stack, Resolved, Recognised, Path, Published, Actions
<1> QED
  BY <1>1 DEF getRoutes

LEMMA MountType ==
  ASSUME RouteInv, NEW k \in DOMAIN mounts
  PROVE  /\ mounts[k].entry \in DOMAIN entries /\ mounts[k].entry \in Nat
         /\ mounts[k].controllers \in SUBSET Controllers
<1> DEFINE Mounted == [entry : DOMAIN entries, controllers : SUBSET Controllers]
<1>1. mounts \in Seq(Mounted) /\ entries \in RouteLists
  BY DEF RouteInv
<1>2. mounts[k] \in Mounted
  <2> HIDE DEF Mounted
  <2> QED
    BY <1>1
<1> QED
  BY <1>1, <1>2, EntriesType

LEMMA MountKeeps ==
  ASSUME RouteInv, NEW cs \in SUBSET Controllers, Mount(cs), preparing = "going", place <= Len(entries),
         \A e : e = entries[place] => cs = IF e.type = "routing_controller" THEN Selected(e) ELSE {}
  PROVE  RouteInv'
<1> DEFINE m == [entry |-> place, controllers |-> cs]
           Mounted == [entry : DOMAIN entries, controllers : SUBSET Controllers]
<1>1. /\ mounts' = Append(mounts, m) /\ place' = place + 1
      /\ program' = program /\ entries' = entries /\ preparing' = preparing /\ table' = table
  BY DEF Mount
<1>2. place \in DOMAIN entries /\ Len(entries) \in Nat /\ place \in Nat
  BY EntriesType DEF RouteInv
<1>3. m \in Mounted /\ mounts \in Seq(Mounted)
  BY <1>2 DEF RouteInv
<1>4. /\ mounts' \in Seq(Mounted) /\ Len(mounts') = Len(mounts) + 1 /\ Len(mounts) \in Nat
      /\ DOMAIN mounts' = DOMAIN mounts \cup {Len(mounts) + 1}
      /\ \A k \in DOMAIN mounts : mounts'[k] = mounts[k]
      /\ mounts'[Len(mounts) + 1] = m
  <2> HIDE DEF m, Mounted
  <2> QED
    BY <1>1, <1>3
<1>5. m.entry = place /\ m.controllers = cs
  OBVIOUS
<1>6. \A e : Selected(e)' = Selected(e)
  BY <1>1, SelectedStays
<1> HIDE DEF m
<1>7. /\ program' \in Programs /\ entries' \in RouteLists /\ preparing' \in {"going", "prepared", "failed"}
      /\ place' \in 1 .. Len(entries') + 1 /\ Len(mounts') < place'
      /\ preparing' # "prepared" /\ table' = <<>>
  BY <1>1, <1>2, <1>4 DEF RouteInv
<1>8. ASSUME NEW k \in DOMAIN mounts'
      PROVE  MountedRightly(k)'
  <2>1. CASE k \in DOMAIN mounts
    <3>1. mounts'[k] = mounts[k] /\ mounts[k].entry \in Nat
      BY <1>4, <2>1, MountType
    <3>2. MountedRightly(k)
      BY <2>1 DEF RouteInv
    <3> QED
      BY <1>1, <1>2, <1>6, <3>1, <3>2 DEF MountedRightly
  <2>2. CASE k = Len(mounts) + 1
    <3>1. mounts'[k].entry = place /\ mounts'[k].controllers = cs /\ entries'[place] = entries[place]
      BY <1>1, <1>4, <1>5, <2>2
    <3>2. ASSUME NEW e, e = entries[place]
          PROVE  cs = IF e.type = "routing_controller" THEN Selected(e)' ELSE {}
      BY <1>6, <3>2
    <3>3. place < place'
      BY <1>1, <1>2
    <3> QED
      BY <3>1, <3>2, <3>3 DEF MountedRightly
  <2> QED
    BY <1>4, <2>1, <2>2
<1>9. ASSUME NEW i \in 1 .. place' - 1 PROVE Provided(i)'
  <2>1. CASE i = place
    <3>1. \E k \in DOMAIN mounts' : mounts'[k].entry = i
      BY <1>4, <1>5, <2>1
    <3> QED
      BY <3>1 DEF Provided
  <2>2. CASE i # place
    <3>1. i \in 1 .. place - 1
      BY <1>1, <1>2, <2>2
    <3>2. Provided(i)
      BY <3>1 DEF RouteInv
    <3>3. (\E k \in DOMAIN mounts : mounts[k].entry = i) => \E k \in DOMAIN mounts' : mounts'[k].entry = i
      BY <1>4
    <3> QED
      BY <1>1, <1>6, <3>2, <3>3 DEF Provided
  <2> QED
    BY <2>1, <2>2
<1> QED
  BY <1>1, <1>4, <1>7, <1>8, <1>9 DEF RouteInv

LEMMA RouteInvCorrect == RouteSpec => []RouteInv
<1>1. RouteInit => RouteInv
  <2> SUFFICES ASSUME RouteInit PROVE RouteInv
    OBVIOUS
  <2>1. Len(entries) \in Nat
    BY EntriesType DEF RouteInit
  <2> QED
    BY <2>1 DEF RouteInit, Unprepared, RouteInv
<1>2. RouteInv /\ [RouteNext]_routeVars => RouteInv'
  <2> SUFFICES ASSUME RouteInv, [RouteNext]_routeVars PROVE RouteInv'
    OBVIOUS
  <2>1. CASE MountControllers
    <3>1. Selected(entries[place]) \in SUBSET Controllers
      BY DEF Selected
    <3> QED
      BY <2>1, <3>1, MountKeeps DEF MountControllers, AtEntry
  <2>2. CASE SkipControllers
    <3>1. /\ preparing = "going" /\ place <= Len(entries) /\ place' = place + 1
          /\ entries[place].type = "routing_controller" /\ Selected(entries[place]) = {}
          /\ UNCHANGED <<program, entries, preparing, mounts, table>>
      BY <2>2 DEF SkipControllers, AtEntry
    <3>2. \A e : Selected(e)' = Selected(e)
      BY <3>1, SelectedStays
    <3>3. Len(entries) \in Nat /\ DOMAIN entries = 1 .. Len(entries) /\ place \in Nat /\ Len(mounts) \in Nat
      BY EntriesType DEF RouteInv
    <3>4. place' \in 1 .. Len(entries') + 1 /\ Len(mounts') < place'
      BY <3>1, <3>3 DEF RouteInv
    <3>5. ASSUME NEW k \in DOMAIN mounts'
          PROVE  MountedRightly(k)'
      <4>1. MountedRightly(k) /\ mounts[k].entry \in Nat
        BY <3>1, MountType DEF RouteInv
      <4> QED
        BY <3>1, <3>2, <3>3, <4>1 DEF MountedRightly
    <3>6. ASSUME NEW i \in 1 .. place' - 1 PROVE Provided(i)'
      <4>1. CASE i = place
        BY <3>1, <3>2, <4>1 DEF Provided
      <4>2. CASE i # place
        <5>1. i \in 1 .. place - 1
          BY <3>1, <3>3, <4>2
        <5>2. Provided(i)
          BY <5>1 DEF RouteInv
        <5> QED
          BY <3>1, <3>2, <5>2 DEF Provided
      <4> QED
        BY <4>1, <4>2
    <3> QED
      BY <3>1, <3>4, <3>5, <3>6 DEF RouteInv
  <2>3. CASE MountStatic
    <3>1. {} \in SUBSET Controllers /\ "static_files" # "routing_controller"
      OBVIOUS
    <3> QED
      BY <2>3, <3>1, MountKeeps DEF MountStatic, AtEntry
  <2>4. ASSUME UNCHANGED <<program, entries, place, mounts>>,
               preparing' \in {"going", "prepared", "failed"},
               IF preparing' = "prepared" THEN place' = Len(entries') + 1 /\ table' = getRoutes ELSE table' = <<>>
        PROVE  RouteInv'
    <3>1. getRoutes' = getRoutes /\ \A e : Selected(e)' = Selected(e)
      BY <2>4, RoutesStay, SelectedStays
    <3> QED
      BY <2>4, <3>1 DEF RouteInv, MountedRightly, Provided
  <2>5. CASE UnknownType
    BY <2>4, <2>5 DEF UnknownType, AtEntry, RouteInv
  <2>6. CASE Publish
    <3>1. place = Len(entries) + 1
      BY <2>6, EntriesType DEF Publish, RouteInv
    <3> QED
      BY <2>4, <2>6, <3>1 DEF Publish
  <2>7. CASE UNCHANGED routeVars
    BY <2>4, <2>7 DEF routeVars, RouteInv
  <2> QED
    BY <2>1, <2>2, <2>3, <2>5, <2>6, <2>7 DEF RouteNext
<1> QED
  BY <1>1, <1>2, PTL DEF RouteSpec

(* MountsWhatIsLetIn: for an entry what its context and its list let in is *)
(* mounted, if the list does not contradict itself, and nothing else       *)
(* (WebServer.ts:51-84, 104-141).                                          *)
THEOREM MountsWhatIsLetInCorrect == RouteSpec => []MountsWhatIsLetIn
<1>1. RouteInv => MountsWhatIsLetIn
  <2> SUFFICES ASSUME RouteInv, preparing = "prepared",
                      NEW i \in DOMAIN entries, entries[i].type = "routing_controller", NEW c \in Controllers
               PROVE  LET mounted == \E m \in ToSet(mounts) : m.entry = i /\ c \in m.controllers
                          meant   == GroupOf(c) = entries[i].context \/ c \in entries[i].controllers
                      IN IF meant /\ Agreed(entries[i].access, c) THEN mounted <=> LetsIn(entries[i].access, c)
                         ELSE mounted => meant
    BY DEF MountsWhatIsLetIn
  <2>1. (\E m \in ToSet(mounts) : m.entry = i /\ c \in m.controllers) <=> c \in Selected(entries[i])
    <3>1. \A k \in DOMAIN mounts : mounts[k].entry = i => mounts[k].controllers = Selected(entries[i])
      BY DEF RouteInv, MountedRightly
    <3>2. i \in 1 .. place - 1
      BY EntriesType DEF RouteInv
    <3>3. Selected(entries[i]) # {} => \E k \in DOMAIN mounts : mounts[k].entry = i
      BY <3>2 DEF RouteInv, Provided
    <3> QED
      BY <3>1, <3>3 DEF ToSet
  <2>2. access(entries[i].access, c) <=> LetsIn(entries[i].access, c)
    <3>1. entries[i].access = NoAccess \/ Sequential(entries[i].access)
      BY RouteAssumption DEF RouteInv
    <3> QED
      BY <3>1, AccessLetsIn
  <2> QED
    BY <2>1, <2>2 DEF Selected
<1> QED
  BY <1>1, RouteInvCorrect, PTL

-----------------------------------------------------------------------------
(* The table of routes.                                                    *)

LEMMA ProgramType ==
  ASSUME RouteInv
  PROVE  /\ Sequential(program.actions) /\ Actions = ToSet(program.actions)
         /\ \A a \in Actions : /\ a.target \in Controllers
                               /\ a.permissions # Unpermitted =>
                                    /\ Sequential(a.permissions)
                                    /\ \A right \in ToSet(a.permissions) : Sequential(right)
<1>1. program \in Programs
  BY DEF RouteInv
<1>2. Sequential(program.actions) /\ Actions = ToSet(program.actions)
  BY <1>1, RouteAssumption DEF Actions
<1>3. ASSUME NEW a \in Actions
      PROVE  /\ a.target \in Controllers
             /\ a.permissions # Unpermitted =>
                  Sequential(a.permissions) /\ \A right \in ToSet(a.permissions) : Sequential(right)
  <2>1. PICK i \in DOMAIN program.actions : a = program.actions[i]
    BY <1>2 DEF ToSet
  <2> QED
    BY <1>1, <2>1, RouteAssumption DEF ToSet
<1> QED
  BY <1>2, <1>3

LEMMA StackHas ==
  ASSUME RouteInv, NEW m
  PROVE  /\ Sequential(Stack(m))
         /\ \A a : a \in ToSet(Stack(m)) <=> a \in Actions /\ a.target \in m.controllers
BY ProgramType, AmongSequential DEF Stack

LEMMA ResolvedIs ==
  ASSUME RouteInv, NEW m, NEW a, Recognised(m, a) # {}
  PROVE  Resolved(m, a) \in Recognised(m, a) /\ Resolved(m, a) \in Actions
<1> DEFINE S == Recognised(m, a)
           r == Among(program.actions, S)
<1>1. Sequential(r) /\ ToSet(r) = {b \in Actions : b \in S}
  BY ProgramType, AmongSequential
<1>2. PICK b : b \in ToSet(r)
  BY <1>1 DEF Recognised
<1>3. Resolved(m, a) = Head(r)
  BY DEF Resolved
<1> HIDE DEF r
<1>4. Head(r) \in ToSet(r)
  BY <1>1, <1>2, HeadOfSome
<1> QED
  BY <1>1, <1>3, <1>4

LEMMA RowsHas ==
  ASSUME RouteInv, NEW m
  PROVE  /\ Sequential(RowsOf(m))
         /\ \A x : x \in ToSet(RowsOf(m)) <=>
              IF entries[m.entry].type = "static_files" THEN x = StaticRow(m)
              ELSE \E a \in ToSet(Stack(m)) : x = Row(m, a)
<1>1. CASE entries[m.entry].type = "static_files"
  <2> DEFINE r == StaticRow(m)
  <2>1. RowsOf(m) = <<r>>
    BY <1>1 DEF RowsOf
  <2> HIDE DEF r
  <2>2. <<r>> \in Seq({r}) /\ ToSet(<<r>>) = {r}
    BY DEF ToSet
  <2>3. Sequential(<<r>>)
    BY <2>2, SequentialIs
  <2> QED
    BY <1>1, <2>1, <2>2, <2>3 DEF r
<1>2. CASE entries[m.entry].type # "static_files"
  <2> DEFINE s == Stack(m)
             R(a) == Row(m, a)
  <2>1. RowsOf(m) = [i \in DOMAIN s |-> R(s[i])]
    BY <1>2 DEF RowsOf
  <2>2. Sequential(s)
    BY StackHas
  <2> HIDE DEF s, R
  <2>3. Len(s) \in Nat /\ DOMAIN s = 1 .. Len(s)
    BY <2>2, SequentialDomain
  <2> DEFINE r == [i \in DOMAIN s |-> R(s[i])]
  <2>4. \A x : x \in ToSet(r) <=> \E a \in ToSet(s) : x = R(a)
    BY DEF ToSet
  <2>5. Sequential(r)
    <3>1. r = [i \in DOMAIN s |-> r[i]]
      OBVIOUS
    <3> HIDE DEF r
    <3> QED
      BY <2>3, <3>1, SequentialBy
  <2> QED
    BY <1>2, <2>1, <2>4, <2>5 DEF R, s
<1> QED
  BY <1>1, <1>2

LEMMA MountsSequential ==
  ASSUME RouteInv
  PROVE  /\ Sequential(mounts) /\ Len(mounts) \in Nat /\ DOMAIN mounts = 1 .. Len(mounts)
         /\ \A m : m \in ToSet(mounts) <=> \E i \in DOMAIN mounts : m = mounts[i]
<1>1. mounts \in Seq([entry : DOMAIN entries, controllers : SUBSET Controllers])
  BY DEF RouteInv
<1>2. Sequential(mounts)
  BY <1>1, SequentialIs
<1> QED
  BY <1>2, SequentialDomain

LEMMA RoutesHas ==
  ASSUME RouteInv
  PROVE  /\ Sequential(getRoutes)
         /\ \A x : x \in ToSet(getRoutes) <=> \E m \in ToSet(mounts) : x \in ToSet(RowsOf(m))
<1> DEFINE ss == [i \in DOMAIN mounts |-> RowsOf(mounts[i])]
<1>2. Len(mounts) \in Nat /\ DOMAIN mounts = 1 .. Len(mounts)
  BY MountsSequential
<1>3. /\ DOMAIN ss = DOMAIN mounts /\ \A i \in DOMAIN ss : Sequential(ss[i])
      /\ \A i \in DOMAIN mounts : ss[i] = RowsOf(mounts[i])
  BY RowsHas
<1>4. Sequential(ss)
  <2>1. ss = [i \in DOMAIN mounts |-> ss[i]]
    OBVIOUS
  <2> HIDE DEF ss
  <2> QED
    BY <1>2, <2>1, SequentialBy
<1>5. getRoutes = FlattenSeq(ss)
  BY DEF getRoutes
<1>6. \A m : m \in ToSet(mounts) <=> \E i \in DOMAIN mounts : m = mounts[i]
  BY DEF ToSet
<1> HIDE DEF ss
<1>7. Sequential(FlattenSeq(ss)) /\ \A x : x \in ToSet(FlattenSeq(ss)) <=> \E i \in DOMAIN ss : x \in ToSet(ss[i])
  BY <1>3, <1>4, FlattenedSequential
<1> QED
  BY <1>3, <1>5, <1>6, <1>7

(* RouteTypeOK: prepare passes the entries in their order, and the table   *)
(* has controllers or files (WebServer.ts:87-153, Express.ts:120-191).     *)
THEOREM RouteTypeCorrect == RouteSpec => []RouteTypeOK
<1>1. RouteInv => RouteTypeOK
  <2> SUFFICES ASSUME RouteInv PROVE RouteTypeOK
    OBVIOUS
  <2>1. ASSUME NEW i \in DOMAIN table PROVE table[i].controller \in Controllers \cup {"static", "none"}
    <3>1. table = getRoutes
      BY <2>1 DEF RouteInv
    <3>2. table[i] \in ToSet(getRoutes)
      BY <2>1, <3>1 DEF ToSet
    <3>3. PICK m : table[i] \in ToSet(RowsOf(m))
      BY <3>2, RoutesHas
    <3>4. CASE table[i] = StaticRow(m)
      BY <3>4 DEF StaticRow, BareRow
    <3>5. ASSUME NEW a \in Actions, table[i] = Row(m, a) PROVE table[i].controller \in Controllers \cup {"none"}
      <4>1. CASE Recognised(m, a) = {}
        BY <3>5, <4>1 DEF Row, BareRow
      <4>2. CASE Recognised(m, a) # {}
        <5> DEFINE b == Resolved(m, a)
        <5>1. b \in Actions
          BY <4>2, ResolvedIs
        <5>2. table[i].controller = b.target
          BY <3>5, <4>2 DEF Row, RowOf
        <5> HIDE DEF b
        <5> QED
          BY <5>1, <5>2, ProgramType
      <4> QED
        BY <4>1, <4>2
    <3> QED
      BY <3>3, <3>4, <3>5, RowsHas, StackHas
  <2> QED
    BY <2>1 DEF RouteInv, RouteTypeOK
<1> QED
  BY <1>1, RouteInvCorrect, PTL

-----------------------------------------------------------------------------
(* The parameters of a permission.                                         *)

PutFor(params, w) == {Put(params[Given(params, w)], v) : v \in ToSet(params[Given(params, w)])}

Word(right, params, i) ==
  IF right[i] \in DOMAIN SnakeOf /\ Given(params, right[i]) \in DOMAIN params
  THEN PutFor(params, right[i]) ELSE {right[i]}

Wordings(right, params) == ToSet(right) \cup UNION {Word(right, params, i) : i \in DOMAIN right}

(* The permission with the parameters among its first n words replaced.    *)
Filled(right, params, n) ==
  {f \in [DOMAIN right -> Wordings(right, params)] :
     \A i \in DOMAIN right : IF i <= n THEN f[i] \in Word(right, params, i) ELSE f[i] = right[i]}

ValuesGiven(params) == \A w \in DOMAIN params : Sequential(params[w]) /\ ToSet(params[w]) \subseteq Values

LEMMA RequestedGives ==
  ASSUME NEW params \in Requested
  PROVE  ValuesGiven(params)
<1>1. PICK D \in SUBSET DOMAIN SnakeOf : params \in [D -> {<<v>> : v \in Values} \cup {<<v, w>> : v, w \in Values}]
  BY DEF Requested
<1>2. ASSUME NEW g \in DOMAIN params PROVE Sequential(params[g]) /\ ToSet(params[g]) \subseteq Values
  <2>1. (\E v \in Values : params[g] = <<v>>) \/ (\E v, w \in Values : params[g] = <<v, w>>)
    BY <1>1, <1>2
  <2>2. params[g] \in Seq(Values)
    <3>1. ASSUME NEW v \in Values, params[g] = <<v>> PROVE params[g] \in Seq(Values)
      BY <3>1
    <3>2. ASSUME NEW v \in Values, NEW w \in Values, params[g] = <<v, w>> PROVE params[g] \in Seq(Values)
      BY <3>2
    <3> QED
      BY <2>1, <3>1, <3>2
  <2>3. ToSet(params[g]) \subseteq Values
    BY <2>2 DEF ToSet
  <2> QED
    BY <2>2, <2>3, SequentialIs
<1> QED
  BY <1>2 DEF ValuesGiven

(* What is put in for a value is no parameter, so it is not replaced again.*)
LEMMA PutIsNoParameter ==
  ASSUME NEW params, ValuesGiven(params), NEW w, Given(params, w) \in DOMAIN params, NEW x \in PutFor(params, w)
  PROVE  x \notin DOMAIN SnakeOf
<1> DEFINE vs == params[Given(params, w)]
<1>1. PICK v \in ToSet(vs) : x = Put(vs, v)
  BY DEF PutFor
<1>2. v \in Values /\ Trim[v] \in Values
  BY ValueAssumption DEF ValuesGiven
<1> QED
  BY <1>1, <1>2, ValueAssumption DEF Put

LEMMA MultipliedHas ==
  ASSUME NEW rights, Sequential(rights), NEW w, NEW params, ValuesGiven(params), Given(params, w) \in DOMAIN params
  PROVE  /\ Sequential(Multiplied(rights, w, params))
         /\ \A x : x \in ToSet(Multiplied(rights, w, params)) <=>
              \E r \in ToSet(rights), v \in PutFor(params, w) : x = Replaced(r, w, v)
<1> DEFINE vs    == params[Given(params, w)]
           R(r, v) == Replaced(r, w, Put(vs, v))
<1>1. Multiplied(rights, w, params) = FlattenSeq([i \in DOMAIN vs |-> [j \in DOMAIN rights |-> R(rights[j], vs[i])]])
  BY DEF Multiplied
<1>2. Sequential(vs)
  BY DEF ValuesGiven
<1> HIDE DEF vs, R
<1>3. /\ Len(vs) \in Nat /\ DOMAIN vs = 1 .. Len(vs)
      /\ Len(rights) \in Nat /\ DOMAIN rights = 1 .. Len(rights)
  BY <1>2, SequentialDomain
<1> DEFINE one(v) == [j \in DOMAIN rights |-> R(rights[j], v)]
           ss == [i \in DOMAIN vs |-> one(vs[i])]
<1>4. ASSUME NEW v PROVE Sequential(one(v)) /\ \A x : x \in ToSet(one(v)) <=> \E r \in ToSet(rights) : x = R(r, v)
  <2> DEFINE q == one(v)
  <2>1. \A x : x \in ToSet(q) <=> \E r \in ToSet(rights) : x = R(r, v)
    BY DEF ToSet
  <2>2. q = [j \in DOMAIN rights |-> q[j]]
    OBVIOUS
  <2> HIDE DEF q
  <2>3. Sequential(q)
    BY <1>3, <2>2, SequentialBy
  <2> QED
    BY <2>1, <2>3 DEF q
<1> HIDE DEF one
<1>5. Sequential(ss)
  <2>1. ss = [i \in DOMAIN vs |-> ss[i]]
    OBVIOUS
  <2> HIDE DEF ss
  <2> QED
    BY <1>3, <2>1, SequentialBy
<1>6. /\ DOMAIN ss = DOMAIN vs /\ \A i \in DOMAIN ss : Sequential(ss[i])
      /\ \A i \in DOMAIN vs : ss[i] = one(vs[i])
  BY <1>4
<1>7. Multiplied(rights, w, params) = FlattenSeq(ss)
  BY <1>1 DEF one
<1> HIDE DEF ss
<1>8. Sequential(FlattenSeq(ss)) /\ \A x : x \in ToSet(FlattenSeq(ss)) <=> \E i \in DOMAIN ss : x \in ToSet(ss[i])
  BY <1>5, <1>6, FlattenedSequential
<1>9. \A v : v \in ToSet(vs) <=> \E i \in DOMAIN vs : v = vs[i]
  BY DEF ToSet
<1>10. \A x : x \in ToSet(Multiplied(rights, w, params)) <=> \E r \in ToSet(rights), v \in ToSet(vs) : x = R(r, v)
  BY <1>4, <1>6, <1>7, <1>8, <1>9
<1>11. \A x, r : (\E v \in ToSet(vs) : x = R(r, v)) <=> \E v \in PutFor(params, w) : x = Replaced(r, w, v)
  BY DEF R, vs, PutFor
<1>12. Sequential(Multiplied(rights, w, params))
  BY <1>7, <1>8
<1> HIDE DEF R, vs
<1>13. ASSUME NEW x
       PROVE  (\E r \in ToSet(rights), v \in ToSet(vs) : x = R(r, v))
                <=> \E r \in ToSet(rights), v \in PutFor(params, w) : x = Replaced(r, w, v)
  BY <1>11, Zenon
<1> QED
  BY <1>10, <1>12, <1>13, Zenon

LEMMA SequentialIn ==
  ASSUME NEW s, Sequential(s), NEW S, ToSet(s) \subseteq S
  PROVE  s \in Seq(S)
<1>1. Len(s) \in Nat /\ s \in Seq(ToSet(s))
  BY DEF Sequential
<1> DEFINE T == ToSet(s)
<1> HIDE DEF T
<1>2. s \in [1 .. Len(s) -> S]
  <2>1. s \in Seq(T) /\ T \subseteq S
    BY <1>1 DEF T
  <2> QED
    BY <2>1
<1> QED
  BY <1>1, <1>2

(* One turn of the loop over the words of a permission.                    *)
WordTurn(rights, w, params) == IF w \in DOMAIN SnakeOf THEN Multiplied(rights, w, params) ELSE rights

LEMMA WordTurnType ==
  ASSUME NEW right, Sequential(right), NEW params, ValuesGiven(params), NEW n \in 1 .. Len(right),
         NEW rights \in Seq([DOMAIN right -> Wordings(right, params)])
  PROVE  WordTurn(rights, right[n], params) \in Seq([DOMAIN right -> Wordings(right, params)])
<1> DEFINE F == [DOMAIN right -> Wordings(right, params)]
           w == right[n]
<1>1. CASE w \notin DOMAIN SnakeOf \/ Given(params, w) \notin DOMAIN params
  BY <1>1 DEF WordTurn, Multiplied
<1>2. CASE w \in DOMAIN SnakeOf /\ Given(params, w) \in DOMAIN params
  <2> DEFINE m == Multiplied(rights, w, params)
  <2>1. ToSet(rights) \subseteq F
    BY DEF ToSet
  <2>2. PutFor(params, w) \subseteq Wordings(right, params)
    <3>1. Word(right, params, n) = PutFor(params, w) /\ n \in DOMAIN right
      BY <1>2 DEF Word, Sequential
    <3> QED
      BY <3>1 DEF Wordings
  <2>3. ASSUME NEW r \in F, NEW v \in Wordings(right, params) PROVE Replaced(r, w, v) \in F
    BY DEF Replaced
  <2> HIDE DEF F
  <2>4. Sequential(rights)
    BY SequentialIs DEF F
  <2>5. /\ Sequential(m)
        /\ \A x : x \in ToSet(m) <=> \E r \in ToSet(rights), v \in PutFor(params, w) : x = Replaced(r, w, v)
    BY <1>2, <2>4, MultipliedHas
  <2> HIDE DEF m
  <2>6. ToSet(m) \subseteq F
    BY <2>1, <2>2, <2>3, <2>5
  <2>7. m \in Seq(F)
    BY <2>5, <2>6, SequentialIn
  <2> QED
    BY <1>2, <2>7 DEF WordTurn, m, F
<1> QED
  BY <1>1, <1>2

PutAt(right, r, n, v) == [i \in DOMAIN right |-> IF i = n THEN v ELSE r[i]]

LEMMA ReplacedAt ==
  ASSUME NEW right, Sequential(right), NEW params, ValuesGiven(params),
         NEW n \in 1 .. Len(right), right[n] \in DOMAIN SnakeOf, Given(params, right[n]) \in DOMAIN params,
         NEW r \in Filled(right, params, n - 1), NEW v
  PROVE  Replaced(r, right[n], v) = PutAt(right, r, n, v)
<1> DEFINE w == right[n]
<1>1. Len(right) \in Nat /\ DOMAIN right = 1 .. Len(right) /\ DOMAIN r = DOMAIN right
  BY SequentialDomain DEF Filled
<1>2. r[n] = w
  BY <1>1 DEF Filled
<1>3. ASSUME NEW j \in 1 .. n - 1 PROVE r[j] # w
  <2>1. r[j] \in Word(right, params, j)
    BY <1>1, <1>3 DEF Filled
  <2>2. CASE right[j] \in DOMAIN SnakeOf /\ Given(params, right[j]) \in DOMAIN params
    <3>1. r[j] \in PutFor(params, right[j])
      BY <2>1, <2>2 DEF Word
    <3> QED
      BY <2>2, <3>1, PutIsNoParameter
  <2>3. CASE ~(right[j] \in DOMAIN SnakeOf /\ Given(params, right[j]) \in DOMAIN params)
    BY <2>1, <2>3 DEF Word
  <2> QED
    BY <2>2, <2>3
<1>4. ASSUME NEW i \in DOMAIN right
      PROVE  (r[i] = w /\ \A j \in 1 .. i - 1 : r[j] # w) <=> i = n
  <2>1. CASE i < n
    BY <1>1, <1>3, <2>1
  <2>2. CASE i = n
    BY <1>2, <1>3, <2>2
  <2>3. CASE i > n
    <3>1. n \in 1 .. i - 1
      BY <1>1, <2>3
    <3> QED
      BY <1>2, <2>3, <3>1
  <2> QED
    BY <1>1, <2>1, <2>2, <2>3
<1> HIDE DEF w
<1>5. Replaced(r, w, v) = PutAt(right, r, n, v)
  BY <1>1, <1>4 DEF Replaced, PutAt
<1> QED
  BY <1>5 DEF w

LEMMA WordTurnFills ==
  ASSUME NEW right, Sequential(right), NEW params, ValuesGiven(params),
         NEW n \in 1 .. Len(right), NEW rights, Sequential(rights), ToSet(rights) = Filled(right, params, n - 1)
  PROVE  LET next == WordTurn(rights, right[n], params)
         IN Sequential(next) /\ ToSet(next) = Filled(right, params, n)
<1> DEFINE w == right[n]
           W == Wordings(right, params)
<1>1. Len(right) \in Nat /\ DOMAIN right = 1 .. Len(right)
  BY SequentialDomain
<1>2. \A i \in DOMAIN right : i <= n <=> i <= n - 1 \/ i = n
  BY <1>1
<1>3. \A i \in DOMAIN right : Word(right, params, i) \subseteq W
  BY DEF Wordings
<1>4. CASE w \notin DOMAIN SnakeOf \/ Given(params, w) \notin DOMAIN params
  <2>1. WordTurn(rights, w, params) = rights
    BY <1>4 DEF WordTurn, Multiplied
  <2>2. Word(right, params, n) = {right[n]}
    BY <1>4 DEF Word
  <2>3. Filled(right, params, n) = Filled(right, params, n - 1)
    <3>1. ASSUME NEW f, NEW i \in DOMAIN right
          PROVE  (IF i <= n THEN f[i] \in Word(right, params, i) ELSE f[i] = right[i])
                   <=> (IF i <= n - 1 THEN f[i] \in Word(right, params, i) ELSE f[i] = right[i])
      BY <1>1, <1>2, <2>2
    <3> QED
      BY <3>1 DEF Filled
  <2> QED
    BY <2>1, <2>3
<1>5. CASE w \in DOMAIN SnakeOf /\ Given(params, w) \in DOMAIN params
  <2> DEFINE vs == PutFor(params, w)
             m  == Multiplied(rights, w, params)
  <2>1. vs = Word(right, params, n) /\ vs \subseteq W
    BY <1>1, <1>3, <1>5 DEF Word
  <2>2. /\ Sequential(m)
        /\ \A x : x \in ToSet(m) <=> \E r \in ToSet(rights), v \in vs : x = Replaced(r, w, v)
    BY <1>5, MultipliedHas
  <2> DEFINE put(r, v) == [i \in DOMAIN right |-> IF i = n THEN v ELSE r[i]]
  <2>3. ASSUME NEW r \in Filled(right, params, n - 1), NEW v PROVE Replaced(r, w, v) = put(r, v)
    <3>1. right[n] \in DOMAIN SnakeOf /\ Given(params, right[n]) \in DOMAIN params
      BY <1>5
    <3>2. Replaced(r, right[n], v) = PutAt(right, r, n, v)
      BY <3>1, ReplacedAt
    <3> QED
      BY <3>2 DEF PutAt
  <2>4. ASSUME NEW r \in Filled(right, params, n - 1), NEW v \in vs PROVE put(r, v) \in Filled(right, params, n)
    <3> HIDE DEF vs, W
    <3>1. put(r, v) \in [DOMAIN right -> W]
      BY <2>1 DEF Filled, W
    <3>2. ASSUME NEW i \in DOMAIN right
          PROVE  IF i <= n THEN put(r, v)[i] \in Word(right, params, i) ELSE put(r, v)[i] = right[i]
      BY <1>1, <1>2, <2>1 DEF Filled
    <3> QED
      BY <3>1, <3>2 DEF Filled, W
  <2>5. ASSUME NEW f \in Filled(right, params, n)
        PROVE  \E r \in Filled(right, params, n - 1), v \in vs : f = put(r, v)
    <3> DEFINE r == put(f, right[n])
    <3> HIDE DEF vs, W
    <3>1. f \in [DOMAIN right -> W] /\ f[n] \in vs /\ right[n] \in W
      BY <1>1, <2>1 DEF Filled, W, Wordings, ToSet
    <3>2. r \in [DOMAIN right -> W]
      BY <3>1
    <3>3. ASSUME NEW i \in DOMAIN right
          PROVE  IF i <= n - 1 THEN r[i] \in Word(right, params, i) ELSE r[i] = right[i]
      BY <1>1, <1>2 DEF Filled
    <3>4. r \in Filled(right, params, n - 1)
      BY <3>2, <3>3 DEF Filled, W
    <3>5. f = put(r, f[n])
      BY <3>1
    <3> QED
      BY <3>1, <3>4, <3>5
  <2> HIDE DEF put, m, vs
  <2>6. ToSet(m) = Filled(right, params, n)
    <3>1. ASSUME NEW x \in ToSet(m) PROVE x \in Filled(right, params, n)
      <4>1. PICK r \in ToSet(rights), v \in vs : x = Replaced(r, w, v)
        BY <2>2, <3>1
      <4>2. r \in Filled(right, params, n - 1)
        OBVIOUS
      <4> QED
        BY <2>3, <2>4, <4>1, <4>2
    <3>2. ASSUME NEW x \in Filled(right, params, n) PROVE x \in ToSet(m)
      <4>1. PICK r \in Filled(right, params, n - 1), v \in vs : x = put(r, v)
        BY <2>5, <3>2
      <4>2. x = Replaced(r, w, v) /\ r \in ToSet(rights)
        BY <2>3, <4>1
      <4> QED
        BY <2>2, <4>2
    <3> QED
      BY <3>1, <3>2
  <2> QED
    BY <1>5, <2>2, <2>6 DEF WordTurn, m
<1> QED
  BY <1>4, <1>5

LEMMA ParametrizedTurns ==
  ASSUME NEW right, Sequential(right), NEW params, ValuesGiven(params)
  PROVE  \E g : /\ Parametrized(right, params) = g[Len(right)]
                /\ g = [n \in 0 .. Len(right) |-> IF n = 0 THEN <<right>> ELSE WordTurn(g[n - 1], right[n], params)]
<1> DEFINE N == Len(right)
           X == Seq([DOMAIN right -> Wordings(right, params)])
           F(g) == [n \in 0 .. N |-> IF n = 0 THEN <<right>> ELSE WordTurn(g[n - 1], right[n], params)]
           first == <<right>>
<1>1. N \in Nat /\ first \in X
  <2>1. right \in [DOMAIN right -> Wordings(right, params)]
    <3>1. right \in [DOMAIN right -> ToSet(right)]
      BY DEF Sequential, ToSet
    <3> QED
      BY <3>1 DEF Wordings
  <2> QED
    BY <2>1 DEF Sequential
<1>2. Parametrized(right, params) = (CHOOSE g : g = F(g))[N]
  BY Zenon DEF Parametrized, WordTurn
<1>3. \A n \in 1 .. N : \A x \in X : WordTurn(x, right[n], params) \in X
  BY WordTurnType
<1> HIDE DEF N, X, first
<1>4. \E g : g = F(g)
  <2> DEFINE G == [n \in 1 .. N |-> [x \in X |-> WordTurn(x, right[n], params)]]
  <2>1. G \in Loops(N, X)
    BY <1>3 DEF Loops
  <2>2. PICK f : RunOf(f, N, X, first, G)
    <3> HIDE DEF G
    <3> QED
      BY <1>1, <2>1, Turns
  <2>3. ASSUME NEW n \in 0 .. N PROVE f[n] = IF n = 0 THEN <<right>> ELSE WordTurn(f[n - 1], right[n], params)
    <3>1. CASE n = 0
      BY <2>2, <3>1 DEF RunOf, first
    <3>2. CASE n # 0
      <4>1. n \in 1 .. N /\ n - 1 \in 0 .. N
        BY <1>1, <3>2
      <4>2. f[n - 1] \in X
        BY <2>2, <4>1 DEF RunOf
      <4>3. G[n][f[n - 1]] = WordTurn(f[n - 1], right[n], params)
        BY <4>1, <4>2
      <4> HIDE DEF G
      <4>4. f[n] = G[n][f[n - 1]]
        BY <2>2, <4>1 DEF RunOf
      <4> QED
        BY <3>2, <4>3, <4>4
    <3> QED
      BY <3>1, <3>2
  <2>4. f = F(f)
    BY <2>2, <2>3 DEF RunOf
  <2> QED
    BY <2>4
<1> QED
  BY <1>2, <1>4, Zenon DEF N

(* A permission with its parameters replaced comes in all combinations of  *)
(* what their values are converted to, once each parameter is replaced at  *)
(* its first place (RoutePermissionsHelper.ts:25-53).                      *)
THEOREM ParametrizedInstances ==
  ASSUME NEW right, Sequential(right), NEW params \in Requested
  PROVE  Sequential(Parametrized(right, params)) /\ ToSet(Parametrized(right, params)) = Instances(right, params)
<1> DEFINE N == Len(right)
<1>1. N \in Nat /\ DOMAIN right = 1 .. N /\ ValuesGiven(params)
  BY SequentialDomain, RequestedGives
<1>2. PICK g : /\ Parametrized(right, params) = g[N]
               /\ g = [n \in 0 .. N |-> IF n = 0 THEN <<right>> ELSE WordTurn(g[n - 1], right[n], params)]
  BY <1>1, ParametrizedTurns
<1> DEFINE P == {n \in 0 .. N : Sequential(g[n]) /\ ToSet(g[n]) = Filled(right, params, n)}
<1> HIDE DEF N
<1>3. 0 \in P
  <2>1. g[0] = <<right>>
    BY <1>1, <1>2
  <2>2. <<right>> \in Seq({right}) /\ ToSet(<<right>>) = {right}
    BY DEF ToSet
  <2>3. Sequential(<<right>>)
    BY <2>2, SequentialIs
  <2>4. Filled(right, params, 0) = {right}
    <3>1. right \in [DOMAIN right -> Wordings(right, params)]
      <4>1. right \in [DOMAIN right -> ToSet(right)]
        BY DEF Sequential, ToSet
      <4> QED
        BY <4>1 DEF Wordings
    <3>2. \A i \in DOMAIN right : ~(i <= 0)
      BY <1>1
    <3>3. \A f \in Filled(right, params, 0) : f = right
      BY <3>1, <3>2 DEF Filled
    <3>4. right \in Filled(right, params, 0)
      BY <3>1, <3>2 DEF Filled
    <3> QED
      BY <3>3, <3>4
  <2>5. Sequential(g[0]) /\ ToSet(g[0]) = Filled(right, params, 0)
    BY <2>1, <2>2, <2>3, <2>4, Zenon
  <2>6. 0 \in 0 .. N
    BY <1>1
  <2> QED
    BY <2>5, <2>6
<1>4. ASSUME NEW n \in 1 .. N, n - 1 \in P PROVE n \in P
  <2>1. g[n] = WordTurn(g[n - 1], right[n], params)
    BY <1>1, <1>2
  <2>2. Sequential(g[n - 1]) /\ ToSet(g[n - 1]) = Filled(right, params, n - 1)
    BY <1>4
  <2> DEFINE next == WordTurn(g[n - 1], right[n], params)
  <2>3. Sequential(next) /\ ToSet(next) = Filled(right, params, n)
    BY <1>1, <2>2, WordTurnFills DEF N
  <2> QED
    BY <1>1, <2>1, <2>3
<1> HIDE DEF P
<1>5. \A n \in 0 .. N : n \in P
  BY <1>1, <1>3, <1>4, EveryTurn
<1>6. Sequential(g[N]) /\ ToSet(g[N]) = Filled(right, params, N)
  BY <1>1, <1>5 DEF P
<1>7. Filled(right, params, N) = Instances(right, params)
  <2> DEFINE V == UNION {Word(right, params, i) : i \in DOMAIN right}
  <2>1. Instances(right, params) = {f \in [DOMAIN right -> V] : \A i \in DOMAIN right : f[i] \in Word(right, params, i)}
    BY DEF Instances, Word, PutFor
  <2>2. V \subseteq Wordings(right, params) /\ \A i \in DOMAIN right : Word(right, params, i) \subseteq V
    BY DEF Wordings
  <2>3. \A i \in DOMAIN right : i <= N
    BY <1>1
  <2> HIDE DEF V
  <2>4. ASSUME NEW f \in Filled(right, params, N) PROVE f \in Instances(right, params)
    <3>1. DOMAIN f = DOMAIN right /\ f = [i \in DOMAIN right |-> f[i]] /\ \A i \in DOMAIN right : f[i] \in Word(right, params, i)
      BY <2>3 DEF Filled
    <3>2. f \in [DOMAIN right -> V]
      BY <2>2, <3>1
    <3> QED
      BY <2>1, <3>1, <3>2
  <2>5. ASSUME NEW f \in Instances(right, params) PROVE f \in Filled(right, params, N)
    <3>1. f \in [DOMAIN right -> Wordings(right, params)]
      BY <2>1, <2>2
    <3> QED
      BY <2>1, <2>3, <3>1 DEF Filled
  <2> QED
    BY <2>4, <2>5
<1> QED
  BY <1>2, <1>6, <1>7

-----------------------------------------------------------------------------
(* The permissions of a request.                                           *)

(* The request that an action which is mounted has its path and method     *)
(* from.                                                                   *)
Requesting(m, a) == m \in ToSet(mounts) /\ a \in ToSet(Stack(m))

LEMMA ServingIs ==
  ASSUME RouteInv, Unambiguous, NEW m, NEW a, Requesting(m, a)
  PROVE  Serving(a.type, Path(m, a.route)) = a
<1> DEFINE path == Path(m, a.route)
           S(n) == {b \in Actions : b.type = a.type /\ Path(n, b.route) = path}
           served(n) == Among(Stack(n), S(n))
           ss == [i \in DOMAIN mounts |-> served(mounts[i])]
<1>1. \A n : Sequential(served(n)) /\ \A b : b \in ToSet(served(n)) <=> b \in ToSet(Stack(n)) /\ b \in S(n)
  BY StackHas, AmongSequential
<1>2. \A n \in ToSet(mounts) : \A b : b \in ToSet(Stack(n)) /\ b \in S(n) => b = a
  BY DEF Unambiguous, Requesting
<1>3. a \in Actions /\ a \in S(m)
  BY StackHas DEF Requesting
<1>4. Serving(a.type, path) = Head(FlattenSeq(ss))
  BY DEF Serving
<1> HIDE DEF S, path
<1>5. \A i \in DOMAIN mounts : ss[i] = served(mounts[i])
  OBVIOUS
<1>6. Sequential(ss) /\ DOMAIN ss = DOMAIN mounts
  <2>1. ss = [i \in DOMAIN mounts |-> ss[i]]
    OBVIOUS
  <2> HIDE DEF ss
  <2> QED
    BY <2>1, MountsSequential, SequentialBy
<1> HIDE DEF ss, served
<1>7. /\ Sequential(FlattenSeq(ss))
      /\ \A x : x \in ToSet(FlattenSeq(ss)) <=> \E i \in DOMAIN mounts : x \in ToSet(served(mounts[i]))
  BY <1>1, <1>5, <1>6, FlattenedSequential
<1>8. a \in ToSet(FlattenSeq(ss)) /\ \A x \in ToSet(FlattenSeq(ss)) : x = a
  BY <1>1, <1>2, <1>3, <1>7, MountsSequential DEF Requesting
<1>9. Head(FlattenSeq(ss)) \in ToSet(FlattenSeq(ss))
  BY <1>7, <1>8, HeadOfSome
<1> QED
  BY <1>4, <1>8, <1>9 DEF path

(* The rows of the table for the request that have permissions are those   *)
(* of its action, where this is known under its path.                      *)
LEMMA RowIs ==
  ASSUME RouteInv, preparing = "prepared", Unambiguous, NEW m, NEW a, Requesting(m, a),
         NEW n \in ToSet(mounts), NEW b \in ToSet(Stack(n)), Row(n, b).permissions # Unpermitted,
         Row(n, b).method = a.type, Row(n, b).route = Path(m, a.route)
  PROVE  b = a /\ Row(n, b).permissions = a.permissions /\ Known(a, Path(m, a.route))
<1>1. Recognised(n, b) # {}
  BY DEF Row, BareRow
<1>2. PICK c : c = Resolved(n, b)
  OBVIOUS
<1>3. c \in Actions /\ Published(n, c.route) = Path(n, b.route) /\ c.type = b.type
  BY <1>1, <1>2, ResolvedIs DEF Recognised
<1>4. c = b
  BY <1>3 DEF Unambiguous
<1>5. Row(n, b) = RowOf(n, b)
  BY <1>1, <1>2, <1>4 DEF Row
<1>6. Row(n, b).method = b.type /\ Row(n, b).route = Published(n, b.route) /\ Row(n, b).permissions = b.permissions
  BY <1>5 DEF RowOf
<1>7. Path(n, b.route) = Path(m, a.route) /\ b.type = a.type
  BY <1>3, <1>4, <1>6
<1>8. a = b
  BY <1>7 DEF Unambiguous, Requesting
<1> QED
  BY <1>3, <1>4, <1>6, <1>7, <1>8 DEF Known

LEMMA RowOfKnown ==
  ASSUME RouteInv, preparing = "prepared", Unambiguous, NEW m, NEW a, Requesting(m, a), Known(a, Path(m, a.route))
  PROVE  \E x \in ToSet(table) : x.method = a.type /\ x.route = Path(m, a.route) /\ x.permissions = a.permissions
<1>1. PICK n \in ToSet(mounts) : /\ a \in ToSet(Stack(n))
                                 /\ Path(n, a.route) = Path(m, a.route) /\ Published(n, a.route) = Path(m, a.route)
  BY DEF Known
<1>2. a \in Actions
  BY <1>1, StackHas
<1>3. a \in Recognised(n, a)
  BY <1>1, <1>2 DEF Recognised
<1>4. PICK c : c = Resolved(n, a)
  OBVIOUS
<1>5. c \in Actions /\ Published(n, c.route) = Path(n, a.route) /\ c.type = a.type
  BY <1>3, <1>4, ResolvedIs DEF Recognised
<1>6. c = a
  BY <1>1, <1>5 DEF Unambiguous
<1>7. Row(n, a) = RowOf(n, a)
  BY <1>3, <1>4, <1>6 DEF Row
<1>8. Row(n, a).method = a.type /\ Row(n, a).route = Path(m, a.route) /\ Row(n, a).permissions = a.permissions
  BY <1>1, <1>7 DEF RowOf
<1>9. Row(n, a) \in ToSet(table)
  <2>1. PICK k \in DOMAIN mounts : n = mounts[k]
    BY MountsSequential
  <2>2. n.controllers # {}
    BY <1>1, StackHas
  <2>3. MountedRightly(k)
    BY <2>1 DEF RouteInv
  <2>4. entries[n.entry].type # "static_files"
    BY <2>1, <2>2, <2>3 DEF MountedRightly
  <2>5. table = getRoutes
    BY DEF RouteInv
  <2> QED
    BY <1>1, <2>4, <2>5, RowsHas, RoutesHas
<1> QED
  BY <1>8, <1>9

LEMMA StatedIs ==
  ASSUME RouteInv, preparing = "prepared", Unambiguous, NEW m, NEW a, Requesting(m, a)
  PROVE  /\ Sequential(Stated(a.type, Path(m, a.route)))
         /\ \A right : right \in ToSet(Stated(a.type, Path(m, a.route))) <=>
                         /\ a.permissions # Unpermitted /\ Known(a, Path(m, a.route))
                         /\ right \in ToSet(a.permissions)
<1> DEFINE path  == Path(m, a.route)
           S     == {x \in ToSet(table) : x.method = a.type /\ x.route = path /\ x.permissions # Unpermitted}
           found == Among(table, S)
           ss    == [i \in DOMAIN found |-> found[i].permissions]
           known == a.permissions # Unpermitted /\ Known(a, path)
<1>1. Sequential(table) /\ table = getRoutes
  BY RoutesHas DEF RouteInv
<1>2. Sequential(found) /\ ToSet(found) = {x \in ToSet(table) : x \in S}
  BY <1>1, AmongSequential
<1>3. ASSUME NEW x \in S PROVE x.permissions = a.permissions /\ known
  <2>1. x \in ToSet(table) /\ x.method = a.type /\ x.route = path /\ x.permissions # Unpermitted
    OBVIOUS
  <2>2. PICK n \in ToSet(mounts) : x \in ToSet(RowsOf(n))
    BY <1>1, <2>1, RoutesHas
  <2>3. x # StaticRow(n)
    BY <2>1 DEF StaticRow, BareRow
  <2>4. PICK b \in ToSet(Stack(n)) : x = Row(n, b)
    BY <2>2, <2>3, RowsHas
  <2> QED
    BY <2>1, <2>4, RowIs
<1>4. known => \E x \in S : x.permissions = a.permissions
  BY RowOfKnown
<1>5. a.permissions # Unpermitted => Sequential(a.permissions)
  BY StackHas, ProgramType DEF Requesting
<1>6. Stated(a.type, path) = FlattenSeq(ss)
  BY DEF Stated
<1>7. known => a.permissions # Unpermitted
  OBVIOUS
<1>8. \A x \in S : x \in ToSet(table)
  OBVIOUS
<1> HIDE DEF S, found, known
<1>9. Len(found) \in Nat /\ DOMAIN found = 1 .. Len(found) /\ \A x : x \in ToSet(found) <=> \E i \in DOMAIN found : x = found[i]
  BY <1>2, SequentialDomain
<1>10. \A i \in DOMAIN found : ss[i] = a.permissions /\ known
  BY <1>2, <1>3, <1>9
<1>11. known => DOMAIN found # {}
  BY <1>2, <1>4, <1>8, <1>9
<1>12. Sequential(ss) /\ DOMAIN ss = DOMAIN found
  <2>1. ss = [i \in DOMAIN found |-> ss[i]]
    OBVIOUS
  <2> HIDE DEF ss
  <2> QED
    BY <1>9, <2>1, SequentialBy
<1> HIDE DEF ss
<1>13. Sequential(FlattenSeq(ss)) /\ \A x : x \in ToSet(FlattenSeq(ss)) <=> \E i \in DOMAIN ss : x \in ToSet(ss[i])
  BY <1>5, <1>7, <1>10, <1>12, FlattenedSequential
<1>14. \A right : right \in ToSet(FlattenSeq(ss)) <=> known /\ right \in ToSet(a.permissions)
  BY <1>10, <1>11, <1>12, <1>13
<1> QED
  BY <1>6, <1>13, <1>14 DEF known

(* PermissionsOfHandler: as long as no two actions share a request, the    *)
(* permissions that are found for it are those of the action that serves   *)
(* it, or none where this is not known under its path                      *)
(* (Express.ts:120-191, RoutePermissionsHelper.ts:10-59).                  *)
THEOREM PermissionsOfHandlerCorrect == RouteSpec => []PermissionsOfHandler
<1>1. RouteInv => PermissionsOfHandler
  <2> SUFFICES ASSUME RouteInv, preparing = "prepared", Unambiguous,
                      NEW m \in ToSet(mounts), NEW a \in ToSet(Stack(m)), NEW params \in Requested
               PROVE  LET path == Path(m, a.route)
                          h    == Serving(a.type, path)
                      IN ToSet(getPermissionsForAction(a.type, path, params)) =
                           IF h.permissions = Unpermitted \/ ~Known(h, path) THEN {}
                           ELSE UNION {Instances(right, params) : right \in ToSet(h.permissions)}
    BY DEF PermissionsOfHandler
  <2> DEFINE path == Path(m, a.route)
             all  == Stated(a.type, path)
             P(right) == Parametrized(right, params)
             ss   == [i \in DOMAIN all |-> P(all[i])]
  <2>1. Requesting(m, a)
    BY DEF Requesting
  <2>2. Serving(a.type, path) = a
    BY <2>1, ServingIs
  <2>3. /\ Sequential(all)
        /\ \A right : right \in ToSet(all) <=>
                        a.permissions # Unpermitted /\ Known(a, path) /\ right \in ToSet(a.permissions)
    BY <2>1, StatedIs
  <2>4. \A right \in ToSet(all) : Sequential(P(right)) /\ ToSet(P(right)) = Instances(right, params)
    <3>1. \A right \in ToSet(all) : Sequential(right)
      BY <2>1, <2>3, StackHas, ProgramType DEF Requesting
    <3> QED
      BY <3>1, ParametrizedInstances
  <2>5. getPermissionsForAction(a.type, path, params) = FlattenSeq(ss)
    BY DEF getPermissionsForAction
  <2> HIDE DEF all, P
  <2>6. Len(all) \in Nat /\ DOMAIN all = 1 .. Len(all) /\ \A x : x \in ToSet(all) <=> \E i \in DOMAIN all : x = all[i]
    BY <2>3, SequentialDomain
  <2>7. \A i \in DOMAIN all : ss[i] = P(all[i])
    OBVIOUS
  <2>8. Sequential(ss) /\ DOMAIN ss = DOMAIN all
    <3>1. ss = [i \in DOMAIN all |-> ss[i]]
      OBVIOUS
    <3> HIDE DEF ss
    <3> QED
      BY <2>6, <3>1, SequentialBy
  <2> HIDE DEF ss
  <2>9. \A x : x \in ToSet(FlattenSeq(ss)) <=> \E right \in ToSet(all) : x \in Instances(right, params)
    <3>1. \A i \in DOMAIN ss : Sequential(ss[i])
      BY <2>4, <2>6, <2>7, <2>8
    <3>2. \A x : x \in ToSet(FlattenSeq(ss)) <=> \E i \in DOMAIN ss : x \in ToSet(ss[i])
      BY <2>8, <3>1, FlattenedSequential
    <3> QED
      BY <2>4, <2>6, <2>7, <2>8, <3>2
  <2>10. ToSet(FlattenSeq(ss)) = IF a.permissions = Unpermitted \/ ~Known(a, path) THEN {}
                                 ELSE UNION {Instances(right, params) : right \in ToSet(a.permissions)}
    <3>1. CASE a.permissions = Unpermitted \/ ~Known(a, path)
      BY <2>3, <2>9, <3>1
    <3>2. CASE a.permissions # Unpermitted /\ Known(a, path)
      BY <2>3, <2>9, <3>2
    <3> QED
      BY <3>1, <3>2
  <2> QED
    BY <2>2, <2>5, <2>10
<1> QED
  BY <1>1, RouteInvCorrect, PTL

=============================================================================
