---------------------------- MODULE ConfigViewProofs ----------------------------
(***************************************************************************)
(* Proofs about ConfigView, for any configurations, rules and users.       *)
(***************************************************************************)
EXTENDS ConfigView, TLAPS, FiniteSetTheorems, SequenceTheorems

-----------------------------------------------------------------------------
(* Paths.                                                                  *)

LEMMA SamePath ==
  ASSUME NEW X, NEW s \in Seq(X), NEW t \in Seq(X), Len(s) = Len(t), \A i \in 1 .. Len(s) : s[i] = t[i]
  PROVE  s = t
BY SeqEqual

LEMMA PrefixIs ==
  ASSUME NEW X, NEW s \in Seq(X), NEW t \in Seq(X)
  PROVE  IsPrefix(s, t) <=> Len(s) <= Len(t) /\ \A i \in 1 .. Len(s) : s[i] = t[i]
<1>1. SubSeq(s, 1, Len(s)) = s
  OBVIOUS
<1>2. ASSUME Len(s) <= Len(t)
      PROVE  (SubSeq(t, 1, Len(s)) = s) <=> \A i \in 1 .. Len(s) : s[i] = t[i]
  <2>1. /\ SubSeq(t, 1, Len(s)) \in Seq(X) /\ Len(SubSeq(t, 1, Len(s))) = Len(s)
        /\ \A i \in 1 .. Len(s) : SubSeq(t, 1, Len(s))[i] = t[i]
    BY <1>2
  <2> QED
    BY <2>1, SamePath
<1> QED
  BY <1>1, <1>2 DEF IsPrefix

LEMMA StartIs ==
  ASSUME NEW X, NEW s \in Seq(X), NEW n \in 0 .. Len(s)
  PROVE  /\ SubSeq(s, 1, n) \in Seq(X) /\ Len(SubSeq(s, 1, n)) = n
         /\ \A i \in 1 .. n : SubSeq(s, 1, n)[i] = s[i]
         /\ IsPrefix(SubSeq(s, 1, n), s)
         /\ n = Len(s) => SubSeq(s, 1, n) = s
<1> DEFINE u == SubSeq(s, 1, n)
<1>1. u \in Seq(X) /\ Len(u) = n /\ \A i \in 1 .. n : u[i] = s[i]
  OBVIOUS
<1> HIDE DEF u
<1>2. Len(u) <= Len(s) /\ \A i \in 1 .. Len(u) : u[i] = s[i]
  BY <1>1
<1>3. IsPrefix(u, s)
  BY <1>1, <1>2, PrefixIs
<1>4. n = Len(s) => u = s
  BY <1>1, SamePath
<1> QED
  BY <1>1, <1>3, <1>4 DEF u

LEMMA FrontIs ==
  ASSUME NEW X, NEW s \in Seq(X), s # <<>>
  PROVE  /\ Len(s) \in Nat \ {0} /\ Front(s) \in Seq(X) /\ Len(Front(s)) = Len(s) - 1
         /\ \A i \in 1 .. Len(s) - 1 : Front(s)[i] = s[i]
         /\ Last(s) = s[Len(s)] /\ Last(s) \in X
         /\ s = Append(Front(s), Last(s))
         /\ Front(s) = SubSeq(s, 1, Len(s) - 1)
         /\ IsPrefix(Front(s), s)
<1>1. Len(s) \in Nat \ {0}
  OBVIOUS
<1>2. Len(s) - 1 \in 0 .. Len(s) /\ Front(s) = SubSeq(s, 1, Len(s) - 1)
  BY <1>1 DEF Front
<1>3. /\ Front(s) \in Seq(X) /\ Len(Front(s)) = Len(s) - 1 /\ \A i \in 1 .. Len(s) - 1 : Front(s)[i] = s[i]
      /\ IsPrefix(Front(s), s)
  <2> DEFINE n == Len(s) - 1
  <2>1. n \in 0 .. Len(s) /\ Front(s) = SubSeq(s, 1, n)
    BY <1>2
  <2> HIDE DEF n
  <2>2. /\ Front(s) \in Seq(X) /\ Len(Front(s)) = n /\ \A i \in 1 .. n : Front(s)[i] = s[i]
        /\ IsPrefix(Front(s), s)
    BY <2>1, StartIs
  <2> QED
    BY <2>2 DEF n
<1>4. Last(s) = s[Len(s)] /\ Last(s) \in X
  BY <1>1 DEF Last
<1> DEFINE f == Front(s)
           l == Last(s)
<1> HIDE DEF f, l
<1>5. /\ Append(f, l) \in Seq(X) /\ Len(Append(f, l)) = Len(s)
      /\ \A i \in 1 .. Len(s) : Append(f, l)[i] = s[i]
  BY <1>1, <1>3, <1>4 DEF f, l
<1>6. s = Append(f, l)
  BY <1>5, SamePath
<1> QED
  BY <1>1, <1>2, <1>3, <1>4, <1>6 DEF f, l

LEMMA AppendIs ==
  ASSUME NEW X, NEW s \in Seq(X), NEW x \in X
  PROVE  /\ Append(s, x) \in Seq(X) /\ Append(s, x) # <<>> /\ Len(Append(s, x)) = Len(s) + 1
         /\ Front(Append(s, x)) = s /\ Last(Append(s, x)) = x
         /\ \A n \in 0 .. Len(s) : SubSeq(Append(s, x), 1, n) = SubSeq(s, 1, n)
<1> DEFINE t == Append(s, x)
<1>1. /\ t \in Seq(X) /\ t # <<>> /\ Len(t) = Len(s) + 1 /\ Len(s) \in Nat
      /\ (\A i \in 1 .. Len(s) : t[i] = s[i]) /\ t[Len(t)] = x
  OBVIOUS
<1> HIDE DEF t
<1>2. Front(t) = s
  BY <1>1, FrontIs, SamePath
<1>3. Last(t) = x
  BY <1>1, FrontIs
<1>4. ASSUME NEW n \in 0 .. Len(s) PROVE SubSeq(t, 1, n) = SubSeq(s, 1, n)
  <2>1. n \in 0 .. Len(t)
    BY <1>1
  <2>2. /\ SubSeq(t, 1, n) \in Seq(X) /\ Len(SubSeq(t, 1, n)) = n /\ \A i \in 1 .. n : SubSeq(t, 1, n)[i] = t[i]
        /\ SubSeq(s, 1, n) \in Seq(X) /\ Len(SubSeq(s, 1, n)) = n /\ \A i \in 1 .. n : SubSeq(s, 1, n)[i] = s[i]
    BY <1>1, <2>1, StartIs
  <2>3. \A i \in 1 .. n : SubSeq(t, 1, n)[i] = SubSeq(s, 1, n)[i]
    BY <1>1, <2>2
  <2> QED
    BY <2>2, <2>3, SamePath
<1> QED
  BY <1>1, <1>2, <1>3, <1>4 DEF t

(* What is below two paths has one of them below the other.                *)
LEMMA PrefixesMeet ==
  ASSUME NEW X, NEW s \in Seq(X), NEW t \in Seq(X), NEW u \in Seq(X), IsPrefix(s, u), IsPrefix(t, u)
  PROVE  IsPrefix(s, t) \/ IsPrefix(t, s)
<1>1. /\ Len(s) <= Len(u) /\ \A i \in 1 .. Len(s) : s[i] = u[i]
      /\ Len(t) <= Len(u) /\ \A i \in 1 .. Len(t) : t[i] = u[i]
  BY PrefixIs
<1>2. CASE Len(s) <= Len(t)
  <2>1. \A i \in 1 .. Len(s) : s[i] = t[i]
    BY <1>1, <1>2
  <2> QED
    BY <1>2, <2>1, PrefixIs
<1>3. CASE Len(t) <= Len(s)
  <2>1. \A i \in 1 .. Len(t) : t[i] = s[i]
    BY <1>1, <1>3
  <2> QED
    BY <1>3, <2>1, PrefixIs
<1> QED
  BY <1>2, <1>3

LEMMA PrefixesJoin ==
  ASSUME NEW X, NEW s \in Seq(X), NEW t \in Seq(X), NEW u \in Seq(X), IsPrefix(s, t), IsPrefix(t, u)
  PROVE  IsPrefix(s, u)
<1>1. /\ Len(s) <= Len(t) /\ \A i \in 1 .. Len(s) : s[i] = t[i]
      /\ Len(t) <= Len(u) /\ \A i \in 1 .. Len(t) : t[i] = u[i]
  BY PrefixIs
<1>2. Len(s) <= Len(u) /\ \A i \in 1 .. Len(s) : s[i] = u[i]
  BY <1>1
<1> QED
  BY <1>2, PrefixIs

LEMMA PrefixOfItself ==
  ASSUME NEW X, NEW s \in Seq(X)
  PROVE  IsPrefix(s, s) /\ IsPrefix(<<>>, s)
<1>1. IsPrefix(s, s)
  BY PrefixIs
<1>2. <<>> \in Seq(X) /\ Len(<<>>) = 0 /\ Len(s) \in Nat
  OBVIOUS
<1>3. Len(<<>>) <= Len(s) /\ \A i \in 1 .. Len(<<>>) : <<>>[i] = s[i]
  BY <1>2
<1>4. IsPrefix(<<>>, s)
  BY ONLY <1>2, <1>3, PrefixIs, s \in Seq(X)
<1> QED
  BY <1>1, <1>4

LEMMA PrefixIsStart ==
  ASSUME NEW X, NEW s \in Seq(X), NEW t \in Seq(X), IsPrefix(s, t)
  PROVE  Len(s) \in 0 .. Len(t) /\ s = SubSeq(t, 1, Len(s))
<1>1. Len(s) \in 0 .. Len(t) /\ \A i \in 1 .. Len(s) : s[i] = t[i]
  BY PrefixIs
<1> QED
  BY <1>1, StartIs, SamePath

(* Above a path is what is above its parent, and its parent.               *)
LEMMA PrefixAbove ==
  ASSUME NEW X, NEW s \in Seq(X), NEW t \in Seq(X), t # <<>>, IsPrefix(s, t)
  PROVE  s = t \/ IsPrefix(s, Front(t))
<1>1. Len(s) <= Len(t) /\ \A i \in 1 .. Len(s) : s[i] = t[i]
  BY PrefixIs
<1>2. CASE Len(s) = Len(t)
  BY <1>1, <1>2, SamePath
<1>3. CASE Len(s) # Len(t)
  <2>1. /\ Front(t) \in Seq(X) /\ Len(Front(t)) = Len(t) - 1
        /\ (\A i \in 1 .. Len(t) - 1 : Front(t)[i] = t[i])
    BY FrontIs
  <2>2. Len(s) <= Len(Front(t)) /\ \A i \in 1 .. Len(s) : s[i] = Front(t)[i]
    BY <1>1, <1>3, <2>1
  <2> QED
    BY <2>1, <2>2, PrefixIs
<1> QED
  BY <1>2, <1>3

LEMMA ConcatIs ==
  ASSUME NEW X, NEW k \in Seq(X), NEW u \in Seq(X)
  PROVE  /\ k \o u \in Seq(X) /\ Len(k \o u) = Len(k) + Len(u) /\ Len(k) \in Nat /\ Len(u) \in Nat
         /\ \A i \in 1 .. Len(k) + Len(u) : (k \o u)[i] = IF i <= Len(k) THEN k[i] ELSE u[i - Len(k)]
OBVIOUS

LEMMA JoinedIs ==
  ASSUME NEW X, NEW k \in Seq(X), NEW s \in Seq(X)
  PROVE  /\ k \o s \in Seq(X) /\ Len(k \o s) = Len(k) + Len(s)
         /\ k \o <<>> = k
         /\ \A n \in 0 .. Len(s) : SubSeq(k \o s, 1, Len(k) + n) = k \o SubSeq(s, 1, n)
         /\ \A n \in 0 .. Len(k) : SubSeq(k \o s, 1, n) = SubSeq(k, 1, n)
         /\ s # <<>> => /\ k \o s # <<>> /\ Last(k \o s) = Last(s) /\ Front(k \o s) = k \o Front(s)
<1> DEFINE t == k \o s
<1>1. /\ t \in Seq(X) /\ Len(t) = Len(k) + Len(s) /\ Len(k) \in Nat /\ Len(s) \in Nat
      /\ (\A i \in 1 .. Len(k) : t[i] = k[i]) /\ \A i \in 1 .. Len(s) : t[Len(k) + i] = s[i]
  OBVIOUS
<1> HIDE DEF t
<1>2. ASSUME NEW n \in 0 .. Len(s) PROVE SubSeq(t, 1, Len(k) + n) = k \o SubSeq(s, 1, n)
  <2> DEFINE u == SubSeq(s, 1, n)
             v == SubSeq(t, 1, Len(k) + n)
             w == k \o u
  <2>1. u \in Seq(X) /\ Len(u) = n /\ \A i \in 1 .. n : u[i] = s[i]
    BY StartIs
  <2>2. Len(k) + n \in 0 .. Len(t)
    BY <1>1
  <2>3. v \in Seq(X) /\ Len(v) = Len(k) + n /\ \A i \in 1 .. Len(k) + n : v[i] = t[i]
    BY <1>1, <2>2, StartIs
  <2> HIDE DEF u, v
  <2>4. /\ w \in Seq(X) /\ Len(w) = Len(k) + n
        /\ \A i \in 1 .. Len(k) + n : w[i] = IF i <= Len(k) THEN k[i] ELSE u[i - Len(k)]
    BY ONLY <2>1, ConcatIs, k \in Seq(X)
  <2> HIDE DEF w
  <2>5. ASSUME NEW i \in 1 .. Len(k) + n PROVE v[i] = w[i]
    <3>1. CASE i <= Len(k)
      BY <1>1, <2>3, <2>4, <3>1
    <3>2. CASE i > Len(k)
      <4> DEFINE j == i - Len(k)
      <4>1. j \in 1 .. n /\ i = Len(k) + j
        BY <1>1, <3>2
      <4>2. w[i] = s[j] /\ v[i] = t[Len(k) + j]
        <5>1. w[i] = u[j]
          BY <2>4, <3>2
        <5>2. u[j] = s[j]
          BY <2>1, <4>1
        <5>3. v[i] = t[Len(k) + j]
          BY <2>3, <4>1
        <5> QED
          BY <5>1, <5>2, <5>3
      <4>3. j \in 1 .. Len(s)
        BY <1>1, <4>1
      <4>4. t[Len(k) + j] = s[j]
        BY <1>1, <4>3
      <4> QED
        BY <4>2, <4>4
    <3> QED
      BY <1>1, <3>1, <3>2
  <2>6. v = w
    BY <2>3, <2>4, <2>5, SamePath
  <2> QED
    BY <2>6 DEF u, v, w
<1>3. ASSUME NEW n \in 0 .. Len(k) PROVE SubSeq(t, 1, n) = SubSeq(k, 1, n)
  <2>1. n \in 0 .. Len(t)
    BY <1>1
  <2>2. /\ SubSeq(t, 1, n) \in Seq(X) /\ Len(SubSeq(t, 1, n)) = n /\ \A i \in 1 .. n : SubSeq(t, 1, n)[i] = t[i]
        /\ SubSeq(k, 1, n) \in Seq(X) /\ Len(SubSeq(k, 1, n)) = n /\ \A i \in 1 .. n : SubSeq(k, 1, n)[i] = k[i]
    BY <1>1, <2>1, StartIs
  <2>3. \A i \in 1 .. n : SubSeq(t, 1, n)[i] = SubSeq(k, 1, n)[i]
    BY <1>1, <2>2
  <2> QED
    BY <2>2, <2>3, SamePath
<1>4. ASSUME s # <<>> PROVE t # <<>> /\ Last(t) = Last(s) /\ Front(t) = k \o Front(s)
  <2>1. Len(s) >= 1 /\ t # <<>>
    BY <1>1, <1>4
  <2>2. Last(t) = t[Len(t)] /\ Last(s) = s[Len(s)] /\ Front(t) = SubSeq(t, 1, Len(t) - 1)
        /\ Front(s) = SubSeq(s, 1, Len(s) - 1)
    BY <1>1, <1>4, <2>1, FrontIs
  <2>3. t[Len(t)] = s[Len(s)] /\ Len(t) - 1 = Len(k) + (Len(s) - 1) /\ Len(s) - 1 \in 0 .. Len(s)
    BY <1>1, <2>1
  <2> QED
    BY <1>2, <2>1, <2>2, <2>3
<1>5. k \o <<>> = k
  OBVIOUS
<1> QED
  BY <1>1, <1>2, <1>3, <1>4, <1>5 DEF t

LEMMA JoinedEnds ==
  ASSUME NEW X, NEW k \in Seq(X), NEW s \in Seq(X), s # <<>>
  PROVE  k \o s \in Seq(X) /\ k \o s # <<>> /\ Last(k \o s) = Last(s) /\ Front(k \o s) = k \o Front(s)
BY JoinedIs

(* What is in a finite set has a place in its sequence, and one only.      *)
LEMMA SetToSeqIs ==
  ASSUME NEW S, IsFiniteSet(S)
  PROVE  /\ SetToSeq(S) \in Seq(S) /\ Len(SetToSeq(S)) \in Nat /\ DOMAIN SetToSeq(S) = 1 .. Len(SetToSeq(S))
         /\ \A i, j \in DOMAIN SetToSeq(S) : SetToSeq(S)[i] = SetToSeq(S)[j] => i = j
         /\ \A e \in S : \E i \in DOMAIN SetToSeq(S) : SetToSeq(S)[i] = e
<1> DEFINE n == Cardinality(S)
<1>1. n \in Nat /\ ExistsBijection(1 .. n, S)
  BY FS_CardinalityType
<1>2. PICK g \in Bijection(1 .. n, S) : TRUE
  BY <1>1 DEF ExistsBijection
<1>3. g \in [1 .. n -> S] /\ IsInjective(g)
  BY <1>2 DEF Bijection, Injection
<1>4. SetToSeq(S) \in [1 .. n -> S] /\ IsInjective(SetToSeq(S))
  BY <1>3 DEF SetToSeq
<1> DEFINE f == SetToSeq(S)
<1>5. f \in [1 .. n -> S] /\ \A i, j \in 1 .. n : f[i] = f[j] => i = j
  BY <1>4 DEF IsInjective
<1> HIDE DEF f
<1>6. f \in Seq(S) /\ Len(f) = n /\ DOMAIN f = 1 .. n
  BY <1>1, <1>5
<1>7. IsFiniteSet(1 .. n) /\ Cardinality(1 .. n) = n
  BY <1>1, FS_Interval
<1> DEFINE R == {f[i] : i \in 1 .. n}
<1>8. IsFiniteSet(R) /\ Cardinality(R) = n
  <2>1. f \in [1 .. n -> R] /\ IsInjective(f)
    BY <1>4, <1>5 DEF f
  <2>2. f \in Injection(1 .. n, R) /\ f \in Surjection(1 .. n, R)
    BY <2>1 DEF Injection, Surjection
  <2> HIDE DEF R
  <2> QED
    BY <1>7, <2>2, FS_Surjection
<1>9. R = S
  <2>1. R \in SUBSET S /\ Cardinality(R) = Cardinality(S)
    BY <1>5, <1>8
  <2> HIDE DEF R
  <2> QED
    BY <2>1, FS_Subset
<1>10. \A e \in S : \E i \in 1 .. n : f[i] = e
  BY <1>9
<1> QED
  BY <1>1, <1>5, <1>6, <1>10 DEF f

-----------------------------------------------------------------------------
(* What was asked for.                                                     *)

Asked == settings \in Settings /\ wanted \in Asking

Whole == Part(settings.config, wanted.key)

Full(p) == wanted.key \o p

(* The part is what the configuration has under the key.                   *)
LEMMA WholeIs ==
  ASSUME Asked
  PROVE  /\ settings.config \in Configs /\ wanted.key \in Seq(Keys)
         /\ IsFiniteSet(DOMAIN Whole) /\ Whole = [p \in DOMAIN Whole |-> Whole[p]]
         /\ \A p : p \in DOMAIN Whole <=> p \in Seq(Keys) /\ Full(p) \in DOMAIN settings.config
         /\ \A p \in DOMAIN Whole : /\ Whole[p] \in {"map", "list", "leaf", "class"}
                                    /\ (p = <<>> => Whole[p] # "class")
                                    /\ Whole[p] = settings.config[Full(p)] \/ (p = <<>> /\ Whole[p] = "map")
<1> DEFINE c == settings.config
           k == wanted.key
<1>1. c \in Configs /\ k \in ConfigKeys
  BY DEF Asked, Settings, Asking
<1> HIDE DEF c, k
<1>2. /\ k \in Seq(Keys) /\ IsFiniteSet(DOMAIN c)
      /\ \A q \in DOMAIN c : q \in Seq(Keys) /\ c[q] \in Shapes \ {"name"}
  BY <1>1, ConfigAssumption
<1> DEFINE P == {q \in DOMAIN c : IsPrefix(k, q)}
           cut(q) == SubSeq(q, Len(k) + 1, Len(q))
           D == {cut(q) : q \in P}
<1>3. ASSUME NEW q \in P PROVE cut(q) \in Seq(Keys) /\ q = k \o cut(q)
  <2>1. q \in Seq(Keys) /\ IsPrefix(k, q) /\ q \in DOMAIN c
    BY <1>2
  <2>2. Len(k) <= Len(q) /\ \A i \in 1 .. Len(k) : k[i] = q[i]
    BY <1>2, <2>1, PrefixIs
  <2>3. /\ cut(q) \in Seq(Keys) /\ Len(cut(q)) = Len(q) - Len(k)
        /\ \A i \in 1 .. Len(q) - Len(k) : cut(q)[i] = q[Len(k) + i]
    BY <1>2, <2>1, <2>2
  <2> DEFINE u == cut(q)
  <2> HIDE DEF u
  <2>4. u \in Seq(Keys) /\ Len(u) = Len(q) - Len(k) /\ \A i \in 1 .. Len(q) - Len(k) : u[i] = q[Len(k) + i]
    BY <2>3 DEF u
  <2>5. /\ k \o u \in Seq(Keys) /\ Len(k \o u) = Len(k) + Len(u) /\ Len(k) \in Nat /\ Len(u) \in Nat
        /\ \A i \in 1 .. Len(k) + Len(u) : (k \o u)[i] = IF i <= Len(k) THEN k[i] ELSE u[i - Len(k)]
    BY <1>2, <2>4, ConcatIs
  <2>6. Len(q) = Len(k) + Len(u) /\ Len(q) \in Nat
    BY <2>1, <2>4, <2>5
  <2>7. ASSUME NEW i \in 1 .. Len(q) PROVE q[i] = (k \o u)[i]
    <3>1. CASE i <= Len(k)
      BY <2>2, <2>5, <2>6, <3>1
    <3>2. CASE i > Len(k)
      <4>1. i - Len(k) \in 1 .. Len(q) - Len(k) /\ Len(k) + (i - Len(k)) = i
        BY <2>5, <2>6, <3>2
      <4>2. u[i - Len(k)] = q[i]
        BY <2>4, <4>1
      <4> QED
        BY <2>5, <2>6, <3>2, <4>2
    <3> QED
      BY <2>5, <2>6, <3>1, <3>2
  <2>8. q = k \o u
    BY <2>1, <2>5, <2>6, <2>7, SamePath
  <2> QED
    BY <2>3, <2>8 DEF u
<1>4. ASSUME NEW p \in Seq(Keys), k \o p \in DOMAIN c PROVE k \o p \in P /\ cut(k \o p) = p
  <2> DEFINE t == k \o p
  <2>1. /\ t \in Seq(Keys) /\ Len(t) = Len(k) + Len(p) /\ Len(k) \in Nat /\ Len(p) \in Nat
        /\ \A i \in 1 .. Len(k) + Len(p) : t[i] = IF i <= Len(k) THEN k[i] ELSE p[i - Len(k)]
    BY <1>2, ConcatIs
  <2> HIDE DEF t
  <2>2. Len(k) <= Len(t) /\ \A i \in 1 .. Len(k) : k[i] = t[i]
    BY <2>1
  <2>3. IsPrefix(k, t)
    BY <1>2, <2>1, <2>2, PrefixIs
  <2>4. /\ cut(t) \in Seq(Keys) /\ Len(cut(t)) = Len(p) /\ \A i \in 1 .. Len(p) : cut(t)[i] = t[Len(k) + i]
    BY <1>2, <2>1
  <2>5. \A i \in 1 .. Len(p) : t[Len(k) + i] = p[i]
    BY <2>1
  <2>6. cut(t) = p
    BY <2>4, <2>5, SamePath
  <2> QED
    BY <1>4, <2>3, <2>6 DEF t
<1>5. Whole = [p \in D |-> IF p = <<>> /\ c[k] = "class" THEN "map" ELSE c[k \o p]]
  BY DEF Whole, Part, c, k
<1>6. DOMAIN Whole = D /\ Whole = [p \in DOMAIN Whole |-> Whole[p]]
  BY <1>5
<1>7. \A p : p \in D <=> p \in Seq(Keys) /\ k \o p \in DOMAIN c
  BY <1>3, <1>4
<1>8. IsFiniteSet(D)
  <2> DEFINE f == [q \in P |-> cut(q)]
  <2>1. IsFiniteSet(P)
    BY <1>2, FS_Subset
  <2>2. f \in Surjection(P, D)
    BY DEF Surjection
  <2> QED
    BY <2>1, <2>2, FS_Surjection
<1>9. ASSUME NEW p \in D
      PROVE  /\ Whole[p] \in {"map", "list", "leaf", "class"}
             /\ (p = <<>> => Whole[p] # "class")
             /\ Whole[p] = c[k \o p] \/ (p = <<>> /\ Whole[p] = "map")
  <2> DEFINE t == k \o p
  <2> HIDE DEF D
  <2>1. Whole[p] = IF p = <<>> /\ c[k] = "class" THEN "map" ELSE c[t]
    BY <1>5
  <2>2. t \in DOMAIN c /\ c[t] \in {"map", "list", "leaf", "class"}
    BY <1>2, <1>7 DEF Shapes
  <2>3. p = <<>> => t = k
    BY <1>2
  <2> HIDE DEF t
  <2>4. (p = <<>> => Whole[p] # "class") /\ Whole[p] \in {"map", "list", "leaf", "class"}
    BY <2>1, <2>2, <2>3
  <2>5. Whole[p] = c[t] \/ (p = <<>> /\ Whole[p] = "map")
    BY <2>1
  <2> QED
    BY <2>4, <2>5 DEF t
<1> HIDE DEF D
<1> QED
  BY <1>1, <1>2, <1>6, <1>7, <1>8, <1>9 DEF c, k, Full

(* Where a key of the part is in the configuration.                        *)
LEMMA FullIs ==
  ASSUME Asked, NEW X, Keys \subseteq X, NEW p \in Seq(X)
  PROVE  /\ Full(p) \in Seq(X)
         /\ p # <<>> => Full(p) # <<>> /\ Last(Full(p)) = Last(p) /\ Front(Full(p)) = Full(Front(p))
         /\ \A x \in X : Full(Append(p, x)) = Append(Full(p), x)
<1> DEFINE k == wanted.key
           XX == Seq(X)
<1>1. k \in XX
  <2>1. k \in Seq(Keys)
    BY WholeIs
  <2> QED
    BY <2>1
<1> HIDE DEF k
<1>2. /\ k \o p \in XX
      /\ p # <<>> => k \o p # <<>> /\ Last(k \o p) = Last(p) /\ Front(k \o p) = k \o Front(p)
  BY <1>1, JoinedIs
<1>3. ASSUME NEW x \in X PROVE k \o Append(p, x) = Append(k \o p, x)
  <2> DEFINE a == Append(p, x)
             t == k \o a
  <2>1. a \in XX /\ a # <<>> /\ Front(a) = p /\ Last(a) = x
    BY AppendIs
  <2> HIDE DEF a
  <2>2. t \in XX /\ t # <<>> /\ Last(t) = Last(a) /\ Front(t) = k \o Front(a)
    <3>1. k \in Seq(X) /\ a \in Seq(X)
      BY <1>1, <2>1
    <3> QED
      BY ONLY <2>1, <3>1, JoinedEnds
  <2> HIDE DEF t
  <2>3. t = Append(Front(t), Last(t))
    BY <2>2, FrontIs
  <2>4. t = Append(k \o p, x)
    BY <2>1, <2>2, <2>3
  <2> QED
    BY <2>4 DEF t, a
<1> QED
  BY <1>2, <1>3 DEF Full, k

(* Above everything in the part there is a map or a list, down to its root.*)
LEMMA AboveIs ==
  ASSUME Asked, NEW p \in DOMAIN Whole
  PROVE  /\ p \in Seq(Keys) /\ <<>> \in DOMAIN Whole
         /\ \A n \in 0 .. Len(p) : SubSeq(p, 1, n) \in DOMAIN Whole
         /\ p # <<>> => /\ Front(p) \in DOMAIN Whole /\ Whole[Front(p)] \in {"map", "list"}
                        /\ settings.config[Front(Full(p))] = Whole[Front(p)]
<1> DEFINE c == settings.config
           k == wanted.key
           S == Seq(Keys)
<1>1. c \in Configs /\ k \in S /\ p \in S /\ Full(p) \in DOMAIN c
  BY WholeIs
<1>2. \A q \in DOMAIN c : \A n \in 0 .. Len(q) - 1 : SubSeq(q, 1, n) \in DOMAIN c /\ c[SubSeq(q, 1, n)] \in {"map", "list"}
  BY <1>1, ConfigAssumption
<1> HIDE DEF c, k, S
<1>3. ASSUME NEW n \in 0 .. Len(p)
      PROVE  /\ SubSeq(p, 1, n) \in S /\ Full(SubSeq(p, 1, n)) \in DOMAIN c
             /\ n < Len(p) => c[Full(SubSeq(p, 1, n))] \in {"map", "list"}
  <2> DEFINE m == Len(k) + n
             u == SubSeq(p, 1, n)
  <2>1. /\ Full(p) = k \o p /\ k \o p \in S /\ Len(k \o p) = Len(k) + Len(p) /\ Len(k) \in Nat /\ Len(p) \in Nat
        /\ u \in S /\ SubSeq(k \o p, 1, m) = k \o u /\ Full(u) = k \o u
    <3>1. u \in Seq(Keys)
      BY <1>1, StartIs DEF S
    <3>2. k \in Seq(Keys) /\ p \in Seq(Keys)
      BY <1>1 DEF S
    <3>3. SubSeq(k \o p, 1, m) = k \o u
      BY ONLY <3>2, n \in 0 .. Len(p), JoinedIs
    <3>4. k \o p \in Seq(Keys) /\ Len(k \o p) = Len(k) + Len(p) /\ Len(k) \in Nat /\ Len(p) \in Nat
      BY ONLY <3>2, ConcatIs
    <3>5. Full(p) = k \o p /\ Full(u) = k \o u
      BY DEF Full, k
    <3> QED
      BY <3>1, <3>3, <3>4, <3>5 DEF S
  <2>2. m \in 0 .. Len(k \o p) /\ (n < Len(p) => m \in 0 .. Len(k \o p) - 1)
    BY <2>1
  <2> HIDE DEF m
  <2>3. CASE m \in 0 .. Len(k \o p) - 1
    BY <1>1, <1>2, <2>1, <2>3 DEF u
  <2>4. CASE m = Len(k \o p)
    <3>1. SubSeq(k \o p, 1, m) = k \o p
      BY <2>1, <2>2, <2>4, StartIs DEF S
    <3>2. ~(n < Len(p))
      BY <2>1, <2>2, <2>4
    <3> QED
      BY <1>1, <2>1, <3>1, <3>2 DEF u
  <2>5. Len(k \o p) \in Nat
    BY <2>1
  <2> QED
    BY <2>2, <2>3, <2>4, <2>5
<1>4. \A n \in 0 .. Len(p) : SubSeq(p, 1, n) \in DOMAIN Whole
  BY <1>3, WholeIs DEF c, S
<1>5. <<>> \in DOMAIN Whole
  <2>1. Len(p) \in Nat /\ SubSeq(p, 1, 0) = <<>>
    BY <1>1 DEF S
  <2>2. 0 \in 0 .. Len(p)
    BY <2>1
  <2> QED
    BY <1>4, <2>1, <2>2
<1>6. ASSUME p # <<>>
      PROVE  /\ Front(p) \in DOMAIN Whole /\ Whole[Front(p)] \in {"map", "list"}
             /\ c[Front(Full(p))] = Whole[Front(p)]
  <2>1. Len(p) \in Nat \ {0} /\ Front(p) = SubSeq(p, 1, Len(p) - 1) /\ Front(Full(p)) = Full(Front(p))
    BY <1>1, <1>6, FrontIs, FullIs DEF S
  <2>2. Len(p) - 1 \in 0 .. Len(p) /\ Len(p) - 1 < Len(p)
    BY <2>1
  <2>3. Front(p) \in DOMAIN Whole
    BY <1>4, <2>1, <2>2
  <2>4. c[Full(Front(p))] \in {"map", "list"}
    BY <1>3, <2>1, <2>2
  <2>5. Whole[Front(p)] = c[Full(Front(p))]
    <3>1. Whole[Front(p)] = c[Full(Front(p))] \/ (Front(p) = <<>> /\ Whole[Front(p)] = "map")
      BY <2>3, WholeIs DEF c
    <3>2. ASSUME Front(p) = <<>> PROVE Whole[Front(p)] = c[Full(Front(p))]
      <4>1. Full(Front(p)) = k
        BY <1>1, <3>2 DEF Full, k, S
      <4>2. Whole[Front(p)] = IF c[k] = "class" THEN "map" ELSE c[k \o Front(p)]
        BY <2>3, <3>2, Zenon DEF Whole, Part, c, k
      <4> QED
        BY <2>4, <4>1, <4>2 DEF Full, k
    <3> QED
      BY <3>1, <3>2
  <2> QED
    BY <2>1, <2>3, <2>4, <2>5
<1> QED
  BY <1>1, <1>4, <1>5, <1>6 DEF c, S

-----------------------------------------------------------------------------
(* What the rules say, and what a location tells of them.                  *)

Locs == Keys \cup {AnObject}

Tells(p, l) == l = p \/ (InList(Full(p)) /\ InList(Full(l)))

Shown(p) == \A n \in 1 .. Len(p) : ~Withheld(Full(SubSeq(p, 1, n)))

LEMMA InListBelow ==
  ASSUME Asked, NEW w \in Seq(Locs), NEW x \in Locs, InList(Full(w))
  PROVE  InList(Full(Append(w, x)))
<1> DEFINE u == Full(w)
           t == Append(u, x)
<1>1. Keys \subseteq Locs
  BY DEF Locs
<1>2. u \in Seq(Locs) /\ Full(Append(w, x)) = t
  BY <1>1, FullIs
<1> HIDE DEF u
<1>3. Len(u) \in Nat /\ Len(t) = Len(u) + 1 /\ \A n \in 0 .. Len(u) : SubSeq(t, 1, n) = SubSeq(u, 1, n)
  BY <1>2, AppendIs
<1> HIDE DEF t
<1>4. PICK n \in 0 .. Len(u) - 1 : SubSeq(u, 1, n) \in DOMAIN settings.config /\ settings.config[SubSeq(u, 1, n)] = "list"
  BY DEF InList, u
<1>5. n \in 0 .. Len(t) - 1 /\ SubSeq(t, 1, n) = SubSeq(u, 1, n)
  BY <1>3, <1>4
<1>6. InList(t)
  BY <1>4, <1>5 DEF InList
<1> QED
  BY <1>2, <1>6

LEMMA InListUnder ==
  ASSUME Asked, NEW p \in DOMAIN Whole, NEW x \in Locs, Whole[p] = "list"
  PROVE  InList(Full(Append(p, x)))
<1> DEFINE u == Full(p)
           t == Append(u, x)
<1>1. Keys \subseteq Locs
  BY DEF Locs
<1>2. p \in Seq(Keys) /\ u \in DOMAIN settings.config /\ settings.config[u] = "list"
  BY WholeIs
<1>3. p \in Seq(Locs)
  BY <1>1, <1>2
<1>4. u \in Seq(Locs) /\ Full(Append(p, x)) = t
  BY <1>1, <1>3, FullIs
<1> HIDE DEF u
<1>5. Len(u) \in Nat /\ Len(t) = Len(u) + 1 /\ \A n \in 0 .. Len(u) : SubSeq(t, 1, n) = SubSeq(u, 1, n)
  BY <1>4, AppendIs
<1>6. Len(u) \in 0 .. Len(t) - 1 /\ SubSeq(t, 1, Len(u)) = u
  <2>1. Len(u) \in 0 .. Len(u) /\ Len(u) \in 0 .. Len(t) - 1
    BY <1>5
  <2>2. SubSeq(u, 1, Len(u)) = u
    BY <1>4
  <2> QED
    BY <1>5, <2>1, <2>2
<1> HIDE DEF t
<1>7. InList(t)
  BY <1>2, <1>6 DEF InList
<1> QED
  BY <1>4, <1>7

(* If no rule is for something in a list, nothing in a list is withheld.   *)
LEMMA NoRuleInList ==
  ASSUME RulesAboveLists, NEW u, InList(u)
  PROVE  u \notin settings.filterKeys /\ Permitted(u)
BY DEF RulesAboveLists, Permitted

LEMMA ShownIs ==
  ASSUME Asked, NEW p \in DOMAIN Whole
  PROVE  /\ p = <<>> => Shown(p)
         /\ p # <<>> => (Shown(p) <=> Shown(Front(p)) /\ ~Withheld(Full(p)))
         /\ \A q \in Seq(Keys) : Shown(p) /\ IsPrefix(q, p) => Shown(q)
<1>1. p \in Seq(Keys) /\ Len(p) \in Nat
  BY WholeIs
<1>2. p = <<>> => Shown(p)
  <2>1. Len(<<>>) = 0 /\ 1 .. 0 = {}
    OBVIOUS
  <2> QED
    BY <2>1 DEF Shown
<1>3. ASSUME p # <<>> PROVE Shown(p) <=> Shown(Front(p)) /\ ~Withheld(Full(p))
  <2> DEFINE f == Front(p)
             m == Len(p) - 1
  <2>1. /\ Len(p) \in Nat \ {0} /\ f \in Seq(Keys) /\ Len(f) = m /\ f = SubSeq(p, 1, m)
        /\ p = Append(f, Last(p)) /\ Last(p) \in Keys
    BY <1>1, <1>3, FrontIs
  <2> HIDE DEF f
  <2>2. \A n \in 0 .. Len(f) : SubSeq(p, 1, n) = SubSeq(f, 1, n)
    BY <2>1, AppendIs
  <2>3. SubSeq(p, 1, Len(p)) = p
    BY <1>1
  <2>4. /\ 1 .. Len(p) = 1 .. Len(f) \cup {Len(p)} /\ \A n \in 1 .. Len(f) : n \in 0 .. Len(f)
    BY <2>1
  <2> HIDE DEF m
  <2>5. Shown(p) <=> (\A n \in 1 .. Len(f) : ~Withheld(Full(SubSeq(f, 1, n)))) /\ ~Withheld(Full(p))
    BY <2>2, <2>3, <2>4 DEF Shown
  <2> QED
    BY <2>5 DEF Shown, f
<1>4. ASSUME NEW q \in Seq(Keys), Shown(p), IsPrefix(q, p) PROVE Shown(q)
  <2>1. Len(q) \in 0 .. Len(p) /\ q = SubSeq(p, 1, Len(q)) /\ Len(q) \in Nat
    BY <1>1, <1>4, PrefixIsStart
  <2>2. ASSUME NEW n \in 1 .. Len(q) PROVE SubSeq(q, 1, n) = SubSeq(p, 1, n) /\ n \in 1 .. Len(p)
    <3>1. n \in 0 .. Len(q) /\ n \in 0 .. Len(p) /\ n \in 1 .. Len(p)
      BY <1>1, <2>1
    <3>2. /\ SubSeq(q, 1, n) \in Seq(Keys) /\ Len(SubSeq(q, 1, n)) = n /\ \A i \in 1 .. n : SubSeq(q, 1, n)[i] = q[i]
          /\ SubSeq(p, 1, n) \in Seq(Keys) /\ Len(SubSeq(p, 1, n)) = n /\ \A i \in 1 .. n : SubSeq(p, 1, n)[i] = p[i]
      BY <1>1, <3>1, StartIs
    <3>3. \A i \in 1 .. Len(q) : q[i] = p[i]
      BY <1>1, <1>4, PrefixIs
    <3>4. \A i \in 1 .. n : SubSeq(q, 1, n)[i] = SubSeq(p, 1, n)[i]
      BY <2>1, <3>2, <3>3
    <3> QED
      BY <3>1, <3>2, <3>4, SamePath
  <2> QED
    BY <1>4, <2>2 DEF Shown
<1> QED
  BY <1>2, <1>3, <1>4

-----------------------------------------------------------------------------
(* The callbacks to come.                                                  *)

Calls == [node : Seq(Keys), parent : {"map", "list"}, key : Locs \cup {NoKey}, location : Seq(Locs),
          below : [key : Locs \cup {NoKey}, location : Seq(Locs)]]

(* A key for a list is no filtered one, or the list would not be walked.   *)
KeyFits(kind, key) == kind = "list" => key \in {NoKey, AnObject} \/ <<key>> \notin settings.filterKeys

CallRight(v) ==
  /\ v \in Calls
  /\ v.node \in DOMAIN Whole /\ v.node # <<>>
  /\ v.parent = Whole[Front(v.node)]
  /\ v.parent = "map" => v.key = Last(v.node) /\ v.below.key = v.key
  /\ v.parent = "list" => v.below.key = AnObject
  /\ KeyFits(v.parent, v.key)
  /\ Tells(v.node, v.location) /\ Tells(v.node, v.below.location)
  /\ RulesAboveLists => Shown(Front(v.node))

(* A copy holds what the part has, with names for some of its classes.     *)
CopyOf(c) ==
  /\ c = [p \in DOMAIN c |-> c[p]] /\ DOMAIN c \subseteq DOMAIN Whole
  /\ \A p \in DOMAIN c : c[p] = Whole[p] \/ (Whole[p] = "class" /\ c[p] = "name")

(* The children of p that a call of walk for p visits, and their order.    *)
LEMMA BelowIs ==
  ASSUME Asked, NEW c, CopyOf(c), NEW p
  PROVE  LET S == {q \in DOMAIN c : q # <<>> /\ Front(q) = p}
         IN  /\ Below(c, p) \in Seq(S) /\ Len(Below(c, p)) \in Nat /\ DOMAIN Below(c, p) = 1 .. Len(Below(c, p))
             /\ \A i, j \in DOMAIN Below(c, p) : Below(c, p)[i] = Below(c, p)[j] => i = j
             /\ \A e \in S : \E i \in DOMAIN Below(c, p) : Below(c, p)[i] = e
<1> DEFINE S == {q \in DOMAIN c : q # <<>> /\ Front(q) = p}
<1>1. S \in SUBSET DOMAIN Whole /\ IsFiniteSet(DOMAIN Whole)
  BY WholeIs DEF CopyOf
<1>2. IsFiniteSet(S)
  BY <1>1, FS_Subset
<1> HIDE DEF S
<1>3. /\ SetToSeq(S) \in Seq(S) /\ Len(SetToSeq(S)) \in Nat /\ DOMAIN SetToSeq(S) = 1 .. Len(SetToSeq(S))
      /\ \A i, j \in DOMAIN SetToSeq(S) : SetToSeq(S)[i] = SetToSeq(S)[j] => i = j
      /\ \A e \in S : \E i \in DOMAIN SetToSeq(S) : SetToSeq(S)[i] = e
  BY <1>2, SetToSeqIs
<1>4. Below(c, p) = SetToSeq(S)
  BY DEF Below, S
<1> QED
  BY <1>3, <1>4 DEF S

(* What a location tells of a path it tells of what is below the path.     *)
LEMMA TellsBelow ==
  ASSUME Asked, NEW q \in DOMAIN Whole, q # <<>>, NEW l \in Seq(Locs), Tells(Front(q), l)
  PROVE  /\ Append(l, Last(q)) \in Seq(Locs) /\ Tells(q, Append(l, Last(q)))
         /\ Whole[Front(q)] = "list" =>
              \A key \in Locs : /\ Append(Append(l, key), Last(q)) \in Seq(Locs)
                                /\ Tells(q, Append(Append(l, key), Last(q)))
<1> DEFINE f == Front(q)
           x == Last(q)
           W == Seq(Locs)
<1>1. /\ q \in Seq(Keys) /\ f \in Seq(Keys) /\ x \in Keys /\ q = Append(f, x) /\ f \in DOMAIN Whole
  BY FrontIs, AboveIs
<1>2. x \in Locs /\ f \in W /\ l \in W
  BY <1>1 DEF Locs
<1>3. \A w \in W : \A k \in Locs : Append(w, k) \in W
  OBVIOUS
<1> HIDE DEF f, x, W
<1>4. Append(l, x) \in W
  BY <1>2, <1>3
<1>5. \A w \in W : \A k \in Locs : InList(Full(w)) => InList(Full(Append(w, k)))
  BY InListBelow DEF W
<1>6. Tells(q, Append(l, x))
  <2>1. CASE l = f
    BY <1>1, <2>1 DEF Tells
  <2>2. CASE InList(Full(f)) /\ InList(Full(l))
    BY <1>1, <1>2, <1>5, <2>2 DEF Tells
  <2> QED
    BY <2>1, <2>2 DEF Tells, f
<1>7. ASSUME Whole[f] = "list", NEW key \in Locs
      PROVE  Append(Append(l, key), x) \in W /\ Tells(q, Append(Append(l, key), x))
  <2>1. Append(l, key) \in W /\ Append(Append(l, key), x) \in W
    BY <1>2, <1>3
  <2>2. InList(Full(q))
    BY <1>1, <1>2, <1>7, InListUnder
  <2>3. InList(Full(Append(l, key)))
    <3>1. CASE l = f
      BY <1>1, <1>7, <3>1, InListUnder
    <3>2. CASE InList(Full(l))
      BY <1>2, <1>5, <3>2
    <3> QED
      BY <3>1, <3>2 DEF Tells, f
  <2>4. InList(Full(Append(Append(l, key), x)))
    BY <1>2, <1>5, <2>1, <2>3
  <2> QED
    BY <2>1, <2>2, <2>4 DEF Tells
<1> QED
  BY <1>4, <1>6, <1>7 DEF f, x, W

(* A call of walk visits everything right below p, and nothing else.       *)
Visits(r, c, p) ==
  /\ r \in Seq(Calls)
  /\ \A i \in DOMAIN r : CallRight(r[i]) /\ r[i].node \in DOMAIN c /\ Front(r[i].node) = p
  /\ \A i, j \in DOMAIN r : r[i].node = r[j].node => i = j
  /\ \A q \in DOMAIN c : q # <<>> /\ Front(q) = p => \E i \in DOMAIN r : r[i].node = q

LEMMA WalkIs ==
  ASSUME Asked, NEW c, CopyOf(c), NEW p \in DOMAIN c, NEW key \in Locs \cup {NoKey}, NEW l \in Seq(Locs),
         Tells(p, l), KeyFits(Whole[p], key), RulesAboveLists => Shown(p)
  PROVE  Visits(walk(c, p, key, l), c, p)
<1> DEFINE B == Below(c, p)
           S == {q \in DOMAIN c : q # <<>> /\ Front(q) = p}
           r == walk(c, p, key, l)
<1>1. /\ B \in Seq(S) /\ Len(B) \in Nat /\ DOMAIN B = 1 .. Len(B) /\ (\A i, j \in DOMAIN B : B[i] = B[j] => i = j)
      /\ \A e \in S : \E i \in DOMAIN B : B[i] = e
  BY BelowIs
<1>2. \A q \in S : q \in DOMAIN c /\ q \in DOMAIN Whole /\ q # <<>> /\ Front(q) = p
  BY DEF CopyOf
<1> HIDE DEF B, S
<1>3. \A i \in DOMAIN B : B[i] \in S
  BY <1>1
<1>4. p \in DOMAIN Whole /\ (c[p] = Whole[p] \/ (Whole[p] = "class" /\ c[p] = "name"))
  BY DEF CopyOf
<1>5. CASE c[p] = "map"
  <2> DEFINE e(q) == [node |-> q, parent |-> "map", key |-> Last(q), location |-> Append(l, Last(q)),
                      below |-> [key |-> Last(q), location |-> Append(l, Last(q))]]
  <2>1. r = [i \in DOMAIN B |-> e(B[i])]
    BY <1>5 DEF walk, WalkMap, B
  <2>2. ASSUME NEW q \in S PROVE CallRight(e(q)) /\ e(q).node = q
    <3>1. /\ q \in Seq(Keys) /\ Last(q) \in Keys /\ Append(l, Last(q)) \in Seq(Locs) /\ Tells(q, Append(l, Last(q)))
      BY <1>2, FrontIs, AboveIs, TellsBelow
    <3>2. e(q) \in Calls
      BY <3>1 DEF Calls, Locs
    <3>3. Whole[p] = "map"
      BY <1>4, <1>5
    <3> QED
      BY <1>2, <3>1, <3>2, <3>3 DEF CallRight, KeyFits
  <2> HIDE DEF e
  <2>3. \A i \in DOMAIN B : r[i] = e(B[i]) /\ r[i].node = B[i] /\ CallRight(r[i]) /\ r[i] \in Calls
    BY <1>3, <2>1, <2>2 DEF CallRight
  <2>4. r \in Seq(Calls) /\ DOMAIN r = DOMAIN B
    BY <1>1, <2>1, <2>3
  <2> HIDE DEF r
  <2>5. Visits(r, c, p)
    <3>1. \A i \in DOMAIN r : CallRight(r[i]) /\ r[i].node \in DOMAIN c /\ Front(r[i].node) = p
      BY <1>2, <1>3, <2>3, <2>4
    <3>2. \A i, j \in DOMAIN r : r[i].node = r[j].node => i = j
      BY <1>1, <2>3, <2>4
    <3>3. \A q \in DOMAIN c : q # <<>> /\ Front(q) = p => \E i \in DOMAIN r : r[i].node = q
      BY <1>1, <2>3, <2>4 DEF S
    <3> QED
      BY <2>4, <3>1, <3>2, <3>3 DEF Visits
  <2> QED
    BY <2>5 DEF r
<1>6. CASE c[p] = "list"
  <2> DEFINE d == IF key = NoKey THEN l ELSE Append(l, key)
             e(q) == [node |-> q, parent |-> "list", key |-> key, location |-> Append(l, Last(q)),
                      below |-> [key |-> AnObject, location |-> Append(d, Last(q))]]
  <2>1. r = [i \in DOMAIN B |-> e(B[i])]
    BY <1>6 DEF walk, WalkList, B
  <2>2. ASSUME NEW q \in S PROVE CallRight(e(q)) /\ e(q).node = q
    <3>1. Whole[p] = "list"
      BY <1>4, <1>6
    <3>2. /\ q \in Seq(Keys) /\ Last(q) \in Keys /\ Append(l, Last(q)) \in Seq(Locs) /\ Tells(q, Append(l, Last(q)))
      BY <1>2, FrontIs, AboveIs, TellsBelow
    <3>3. Append(d, Last(q)) \in Seq(Locs) /\ Tells(q, Append(d, Last(q)))
      <4>1. CASE key = NoKey
        BY <3>2, <4>1
      <4>2. CASE key # NoKey
        <5>1. key \in Locs /\ d = Append(l, key)
          BY <4>2
        <5>2. Append(Append(l, key), Last(q)) \in Seq(Locs) /\ Tells(q, Append(Append(l, key), Last(q)))
          BY <1>2, <3>1, <5>1, TellsBelow
        <5> QED
          BY <5>1, <5>2
      <4> QED
        BY <4>1, <4>2
    <3> HIDE DEF d
    <3>4. e(q) \in Calls
      BY <3>2, <3>3 DEF Calls, Locs
    <3> QED
      BY <1>2, <3>1, <3>2, <3>3, <3>4 DEF CallRight, KeyFits
  <2> HIDE DEF e
  <2>3. \A i \in DOMAIN B : r[i] = e(B[i]) /\ r[i].node = B[i] /\ CallRight(r[i]) /\ r[i] \in Calls
    BY <1>3, <2>1, <2>2 DEF CallRight
  <2>4. r \in Seq(Calls) /\ DOMAIN r = DOMAIN B
    BY <1>1, <2>1, <2>3
  <2> HIDE DEF r
  <2>5. Visits(r, c, p)
    <3>1. \A i \in DOMAIN r : CallRight(r[i]) /\ r[i].node \in DOMAIN c /\ Front(r[i].node) = p
      BY <1>2, <1>3, <2>3, <2>4
    <3>2. \A i, j \in DOMAIN r : r[i].node = r[j].node => i = j
      BY <1>1, <2>3, <2>4
    <3>3. \A q \in DOMAIN c : q # <<>> /\ Front(q) = p => \E i \in DOMAIN r : r[i].node = q
      BY <1>1, <2>3, <2>4 DEF S
    <3> QED
      BY <2>4, <3>1, <3>2, <3>3 DEF Visits
  <2> QED
    BY <2>5 DEF r
<1>7. CASE c[p] \notin {"map", "list"}
  <2>1. r = <<>>
    BY <1>7 DEF walk
  <2>2. Whole[p] \notin {"map", "list"}
    BY <1>4, <1>7
  <2>3. \A q \in DOMAIN c : ~(q # <<>> /\ Front(q) = p)
    BY <2>2, AboveIs DEF CopyOf
  <2>4. Visits(<<>>, c, p)
    <3>1. <<>> \in Seq(Calls) /\ DOMAIN <<>> = {}
      OBVIOUS
    <3> QED
      BY <2>3, <3>1 DEF Visits
  <2> QED
    BY <2>1, <2>4
<1> QED
  BY <1>5, <1>6, <1>7

-----------------------------------------------------------------------------
(* The copy while it is walked.                                            *)

Coming(calls, p) == \E i \in DOMAIN calls : IsPrefix(calls[i].node, p)

(* The calls to come are for separate parts of the copy, which are as they *)
(* were; everywhere else the callback has been.                            *)
Copied(c, calls) ==
  /\ CopyOf(c)
  /\ \A p \in DOMAIN c : \A n \in 0 .. Len(p) : SubSeq(p, 1, n) \in DOMAIN c
  /\ calls \in Seq(Calls)
  /\ \A i \in DOMAIN calls : CallRight(calls[i])
  /\ \A i, j \in DOMAIN calls : i # j => ~IsPrefix(calls[i].node, calls[j].node)
  /\ \A p \in DOMAIN c \ {<<>>} :
       ~Coming(calls, p) => ~KeyFiltered(Full(p)) /\ (RulesAboveLists => Shown(p) /\ c[p] # "class")
  /\ \A q \in DOMAIN Whole : Coming(calls, q) => q \in DOMAIN c /\ c[q] = Whole[q]
  /\ RulesAboveLists => \A q \in DOMAIN Whole : Shown(q) => q \in DOMAIN c

(* The calls for what is below a path are for separate parts.              *)
LEMMA VisitsApart ==
  ASSUME Asked, NEW r, NEW c, CopyOf(c), NEW p \in Seq(Keys), Visits(r, c, p)
  PROVE  /\ \A i, j \in DOMAIN r : i # j => ~IsPrefix(r[i].node, r[j].node)
         /\ \A i \in DOMAIN r : IsPrefix(p, r[i].node) /\ ~IsPrefix(r[i].node, p) /\ r[i].node # p
<1>1. ASSUME NEW i \in DOMAIN r
      PROVE  /\ r[i].node \in Seq(Keys) /\ Len(r[i].node) = Len(p) + 1 /\ IsPrefix(p, r[i].node)
  <2> DEFINE q == r[i].node
  <2>1. q \in Seq(Keys) /\ q # <<>> /\ Front(q) = p
    BY WholeIs DEF Visits, CallRight
  <2> HIDE DEF q
  <2>2. Len(q) \in Nat \ {0} /\ Len(p) = Len(q) - 1 /\ IsPrefix(p, q)
    BY <2>1, FrontIs
  <2>3. Len(q) = Len(p) + 1
    BY <2>2
  <2> QED
    BY <2>1, <2>2, <2>3 DEF q
<1>2. ASSUME NEW i \in DOMAIN r, NEW j \in DOMAIN r, i # j PROVE ~IsPrefix(r[i].node, r[j].node)
  <2> DEFINE a == r[i].node
             b == r[j].node
  <2>1. a \in Seq(Keys) /\ b \in Seq(Keys) /\ Len(a) = Len(b)
    BY <1>1
  <2>2. a # b
    BY <1>2 DEF Visits
  <2> HIDE DEF a, b
  <2>3. ASSUME IsPrefix(a, b) PROVE FALSE
    <3>1. \A n \in 1 .. Len(a) : a[n] = b[n]
      BY <2>1, <2>3, PrefixIs
    <3> QED
      BY <2>1, <2>2, <3>1, SamePath
  <2> QED
    BY <2>3 DEF a, b
<1>3. ASSUME NEW i \in DOMAIN r PROVE ~IsPrefix(r[i].node, p) /\ r[i].node # p
  <2> DEFINE a == r[i].node
  <2>1. a \in Seq(Keys) /\ Len(a) = Len(p) + 1 /\ Len(p) \in Nat
    BY <1>1
  <2> HIDE DEF a
  <2>2. ~IsPrefix(a, p) /\ a # p
    BY <2>1, PrefixIs
  <2> QED
    BY <2>2 DEF a
<1> QED
  BY <1>1, <1>2, <1>3

(* A path below p is below one that is right below p.                      *)
LEMMA VisitsReach ==
  ASSUME Asked, NEW r, NEW c, CopyOf(c), NEW p \in Seq(Keys), Visits(r, c, p), NEW q \in DOMAIN c, q # p, IsPrefix(p, q),
         \A n \in 0 .. Len(q) : SubSeq(q, 1, n) \in DOMAIN c
  PROVE  Coming(r, q)
<1> DEFINE n == Len(p) + 1
           t == SubSeq(q, 1, n)
<1>1. q \in Seq(Keys) /\ Len(q) \in Nat /\ Len(p) \in Nat
  BY WholeIs DEF CopyOf
<1>2. Len(p) <= Len(q) /\ \A i \in 1 .. Len(p) : p[i] = q[i]
  BY <1>1, PrefixIs
<1>3. Len(p) # Len(q)
  BY <1>1, <1>2, SamePath
<1>4. n \in 0 .. Len(q) /\ n # 0
  BY <1>1, <1>2, <1>3
<1>5. t \in Seq(Keys) /\ Len(t) = n /\ (\A i \in 1 .. n : t[i] = q[i]) /\ IsPrefix(t, q) /\ t \in DOMAIN c
  BY <1>1, <1>4, StartIs
<1> HIDE DEF t
<1>6. t # <<>>
  BY <1>4, <1>5
<1>7. Front(t) \in Seq(Keys) /\ Len(Front(t)) = Len(p) /\ \A i \in 1 .. Len(p) : Front(t)[i] = p[i]
  <2>1. /\ Front(t) \in Seq(Keys) /\ Len(Front(t)) = Len(t) - 1 /\ \A i \in 1 .. Len(t) - 1 : Front(t)[i] = t[i]
    BY <1>5, <1>6, FrontIs
  <2> QED
    BY <1>1, <1>2, <1>5, <2>1
<1>8. Front(t) = p
  BY <1>7, SamePath
<1> QED
  BY <1>5, <1>6, <1>8 DEF Visits, Coming

(* The callback takes out what is withheld; without rules for what is in   *)
(* lists nothing else.                                                     *)
LEMMA HiddenIs ==
  ASSUME Asked, NEW v, CallRight(v)
  PROVE  /\ ~Hidden(v) \/ v.parent = "list" => ~KeyFiltered(Full(v.node))
         /\ RulesAboveLists => (Hidden(v) <=> Withheld(Full(v.node)))
         /\ RulesAboveLists => ~(v.parent = "list" /\ Hidden(v))
<1> DEFINE p == v.node
           u == Full(p)
           w == Full(v.location)
           k == v.key
<1>1. /\ p \in DOMAIN Whole /\ p # <<>> /\ p \in Seq(Keys) /\ v.parent = Whole[Front(p)]
      /\ v.parent \in {"map", "list"} /\ KeyFits(v.parent, k) /\ Tells(p, v.location)
      /\ (v.parent = "map" => k = Last(p))
  BY WholeIs DEF CallRight, Calls
<1>2. /\ Last(u) = Last(p) /\ settings.config[Front(u)] = v.parent /\ Last(p) \in Keys
      /\ p = Append(Front(p), Last(p)) /\ Front(p) \in DOMAIN Whole
  BY <1>1, FullIs, AboveIs, FrontIs
<1>3. KeyFiltered(u) <=> v.parent = "map" /\ <<Last(p)>> \in settings.filterKeys
  BY <1>2 DEF KeyFiltered
<1>4. Hidden(v) <=> /\ k \notin {NoKey, AnObject}
                    /\ <<k>> \in settings.filterKeys \/ w \in settings.filterKeys \/ ~Permitted(w)
  BY DEF Hidden, Full
<1>5. v.parent = "map" => k \notin {NoKey, AnObject}
  BY <1>1, <1>2, ConfigAssumption
<1>6. ~Hidden(v) \/ v.parent = "list" => ~KeyFiltered(u)
  BY <1>1, <1>3, <1>4, <1>5
<1>7. ASSUME RulesAboveLists
      PROVE  (Hidden(v) <=> Withheld(u)) /\ ~(v.parent = "list" /\ Hidden(v))
  <2>1. Withheld(u) <=> KeyFiltered(u) \/ u \in settings.filterKeys \/ ~Permitted(u)
    BY DEF Withheld
  <2>2. ASSUME v.location # p
        PROVE  /\ w \notin settings.filterKeys /\ Permitted(w)
               /\ u \notin settings.filterKeys /\ Permitted(u)
    <3>1. InList(u) /\ InList(w)
      BY <1>1, <2>2 DEF Tells
    <3> QED
      BY <1>7, <3>1, NoRuleInList
  <2>3. CASE v.parent = "map"
    BY <1>1, <1>3, <1>4, <1>5, <2>1, <2>2, <2>3
  <2>4. CASE v.parent = "list"
    <3>1. Last(p) \in Locs
      BY <1>2 DEF Locs
    <3>2. InList(u)
      BY <1>1, <1>2, <2>4, <3>1, InListUnder
    <3>3. u \notin settings.filterKeys /\ Permitted(u)
      BY <1>7, <3>2, NoRuleInList
    <3> HIDE DEF u, w
    <3>4. w \notin settings.filterKeys /\ Permitted(w)
      BY <2>2, <3>3 DEF u, w
    <3> QED
      BY <1>1, <1>3, <1>4, <2>1, <2>4, <3>3, <3>4 DEF KeyFits
  <2> QED
    BY <1>1, <2>3, <2>4
<1> QED
  BY <1>6, <1>7

(* To begin with the copy is the part, and all that is right below the     *)
(* root of it is to come.                                                  *)
LEMMA ViewMakes ==
  ASSUME Asked, NEW calls, calls = walk(Whole, <<>>, NoKey, <<>>)
  PROVE  Copied(Whole, calls)
<1>1. CopyOf(Whole)
  BY WholeIs DEF CopyOf
<1>2. <<>> \in Seq(Keys) /\ <<>> \in Seq(Locs) /\ NoKey \in Locs \cup {NoKey}
  OBVIOUS
<1>3. \A p \in DOMAIN Whole : \A n \in 0 .. Len(p) : SubSeq(p, 1, n) \in DOMAIN Whole
  BY AboveIs
<1>4. CASE <<>> \in DOMAIN Whole
  <2>1. Tells(<<>>, <<>>) /\ KeyFits(Whole[<<>>], NoKey)
    BY DEF Tells, KeyFits
  <2>2. Shown(<<>>)
    BY <1>4, ShownIs
  <2>3. Visits(calls, Whole, <<>>)
    BY <1>1, <1>2, <1>4, <2>1, <2>2, WalkIs
  <2>4. \A i, j \in DOMAIN calls : i # j => ~IsPrefix(calls[i].node, calls[j].node)
    BY <1>1, <1>2, <2>3, VisitsApart
  <2>5. ASSUME NEW p \in DOMAIN Whole \ {<<>>} PROVE Coming(calls, p)
    <3>1. p \in Seq(Keys) /\ IsPrefix(<<>>, p)
      BY WholeIs, PrefixOfItself
    <3> QED
      BY <1>1, <1>2, <1>3, <2>3, <2>5, <3>1, VisitsReach
  <2> QED
    BY <1>1, <1>3, <2>3, <2>4, <2>5 DEF Copied, Visits
<1>5. CASE <<>> \notin DOMAIN Whole
  <2>1. DOMAIN Whole = {}
    BY <1>5, AboveIs
  <2>2. calls = <<>>
    BY <1>5 DEF walk
  <2>3. calls \in Seq(Calls) /\ DOMAIN calls = {}
    <3>1. <<>> \in Seq(Calls) /\ DOMAIN <<>> = {}
      OBVIOUS
    <3> QED
      BY <2>2, <3>1
  <2> QED
    BY <1>1, <2>1, <2>3 DEF Copied
<1> QED
  BY <1>4, <1>5

(* The callback and the walk for what is there after it.                   *)
LEMMA VisitKeeps ==
  ASSUME Asked, Copied(cfg, todo), todo # <<>>, NEW d, NEW calls,
         d = IF Hidden(Head(todo)) THEN Taken(Head(todo)) ELSE Named(Head(todo)),
         calls = walk(d, Head(todo).node, Head(todo).below.key, Head(todo).below.location) \o Tail(todo)
  PROVE  Copied(d, calls)
<1> DEFINE v == Head(todo)
           T == Tail(todo)
           p == v.node
           r == walk(d, p, v.below.key, v.below.location)
<1>1. /\ todo \in Seq(Calls) /\ v = todo[1] /\ 1 \in DOMAIN todo /\ T \in Seq(Calls) /\ Len(T) = Len(todo) - 1
      /\ Len(todo) \in Nat /\ DOMAIN todo = 1 .. Len(todo) /\ DOMAIN T = 1 .. Len(T)
      /\ \A i \in DOMAIN T : T[i] = todo[i + 1] /\ i + 1 \in DOMAIN todo
  <2>1. todo \in Seq(Calls)
    BY DEF Copied
  <2> QED
    BY <2>1
<1>2. /\ CallRight(v) /\ p \in DOMAIN Whole /\ p \in Seq(Keys) /\ p # <<>> /\ v \in Calls
      /\ \A i \in DOMAIN T : CallRight(T[i])
  BY <1>1, WholeIs DEF Copied, CallRight
<1> HIDE DEF v, T
<1>3. \A q : Coming(todo, q) <=> IsPrefix(p, q) \/ Coming(T, q)
  <2>1. ASSUME NEW q, Coming(todo, q) PROVE IsPrefix(p, q) \/ Coming(T, q)
    <3>1. PICK i \in DOMAIN todo : IsPrefix(todo[i].node, q)
      BY <2>1 DEF Coming
    <3>2. CASE i = 1
      BY <1>1, <3>1, <3>2
    <3>3. CASE i # 1
      <4>1. i - 1 \in DOMAIN T /\ (i - 1) + 1 = i
        BY <1>1, <3>3
      <4>2. T[i - 1] = todo[i]
        BY <1>1, <4>1
      <4> QED
        BY <3>1, <4>1, <4>2 DEF Coming
    <3> QED
      BY <3>2, <3>3
  <2>2. ASSUME NEW q, IsPrefix(p, q) PROVE Coming(todo, q)
    BY <1>1, <2>2 DEF Coming
  <2>3. ASSUME NEW q, Coming(T, q) PROVE Coming(todo, q)
    BY <1>1, <2>3 DEF Coming
  <2> QED
    BY <2>1, <2>2, <2>3
<1>4. /\ \A i \in DOMAIN T : ~IsPrefix(p, T[i].node) /\ ~IsPrefix(T[i].node, p)
      /\ \A i, j \in DOMAIN T : i # j => ~IsPrefix(T[i].node, T[j].node)
  <2>1. \A i, j \in DOMAIN todo : i # j => ~IsPrefix(todo[i].node, todo[j].node)
    BY DEF Copied
  <2>2. \A i \in DOMAIN T : i + 1 # 1
    BY <1>1
  <2>3. \A i, j \in DOMAIN T : i # j => i + 1 # j + 1
    BY <1>1
  <2> QED
    BY <1>1, <2>1, <2>2, <2>3
<1>5. \A i \in DOMAIN T : T[i].node \in Seq(Keys)
  BY <1>2, WholeIs DEF CallRight
<1>6. ASSUME NEW q \in Seq(Keys), IsPrefix(p, q) PROVE ~Coming(T, q)
  BY <1>2, <1>4, <1>5, <1>6, PrefixesMeet DEF Coming
<1>7. p \in DOMAIN cfg /\ cfg[p] = Whole[p] /\ IsPrefix(p, p)
  BY <1>2, <1>3, PrefixOfItself DEF Copied
<1>8. CopyOf(cfg) /\ \A q \in DOMAIN cfg : q \in Seq(Keys) /\ Len(q) \in Nat /\ q \in DOMAIN Whole
  BY WholeIs DEF Copied, CopyOf
<1>9. CASE Hidden(v) /\ v.parent # "list"
  <2> DEFINE D == {q \in DOMAIN cfg : ~IsPrefix(p, q)}
  <2>1. d = [q \in D |-> cfg[q]]
    BY <1>9 DEF Taken, v
  <2>2. DOMAIN d = D /\ \A q \in D : d[q] = cfg[q]
    BY <2>1
  <2>3. p \notin D
    BY <1>7
  <2>4. calls = T
    <3>1. r = <<>>
      BY <2>2, <2>3 DEF walk
    <3> HIDE DEF r
    <3>2. calls = r \o T
      BY DEF r, v, T
    <3> QED
      BY <1>1, <3>1, <3>2
  <2>5. CopyOf(d)
    BY <1>8, <2>2, <2>1 DEF CopyOf
  <2>6. ASSUME NEW q \in DOMAIN d, NEW n \in 0 .. Len(q) PROVE SubSeq(q, 1, n) \in DOMAIN d
    <3>1. q \in DOMAIN cfg /\ ~IsPrefix(p, q) /\ q \in Seq(Keys)
      BY <1>8, <2>2
    <3>2. SubSeq(q, 1, n) \in DOMAIN cfg
      BY <3>1 DEF Copied
    <3>3. SubSeq(q, 1, n) \in Seq(Keys) /\ IsPrefix(SubSeq(q, 1, n), q)
      BY <3>1, StartIs
    <3>4. ~IsPrefix(p, SubSeq(q, 1, n))
      BY <1>2, <3>1, <3>3, PrefixesJoin
    <3> QED
      BY <2>2, <3>2, <3>4
  <2>7. ASSUME NEW q \in DOMAIN d \ {<<>>}, ~Coming(T, q)
        PROVE  ~KeyFiltered(Full(q)) /\ (RulesAboveLists => Shown(q) /\ d[q] # "class")
    <3>1. q \in DOMAIN cfg \ {<<>>} /\ ~Coming(todo, q) /\ d[q] = cfg[q]
      BY <1>3, <2>2, <2>7
    <3> QED
      BY <3>1 DEF Copied
  <2>8. ASSUME NEW q \in DOMAIN Whole, Coming(T, q) PROVE q \in DOMAIN d /\ d[q] = Whole[q]
    <3>1. q \in Seq(Keys) /\ ~IsPrefix(p, q) /\ Coming(todo, q)
      BY <1>3, <1>6, <2>8, WholeIs
    <3>2. q \in DOMAIN cfg /\ cfg[q] = Whole[q]
      BY <3>1 DEF Copied
    <3> QED
      BY <2>2, <3>1, <3>2
  <2>9. ASSUME RulesAboveLists, NEW q \in DOMAIN Whole, Shown(q) PROVE q \in DOMAIN d
    <3>1. q \in DOMAIN cfg
      BY <2>9 DEF Copied
    <3>2. ~Shown(p)
      BY <1>2, <1>9, <2>9, HiddenIs, ShownIs
    <3>3. ~IsPrefix(p, q)
      BY <1>2, <2>9, <3>2, ShownIs
    <3> QED
      BY <2>2, <3>1, <3>3
  <2> QED
    BY <1>1, <1>2, <1>4, <2>4, <2>5, <2>6, <2>7, <2>8, <2>9 DEF Copied
<1>10. CASE ~(Hidden(v) /\ v.parent # "list")
  <2>1. /\ DOMAIN d = DOMAIN cfg /\ d = [q \in DOMAIN d |-> d[q]]
        /\ \A q \in DOMAIN cfg : q # p => d[q] = cfg[q]
        /\ d[p] = cfg[p] \/ (cfg[p] = "class" /\ d[p] = "name")
        /\ ~Hidden(v) => d[p] # "class"
    <3>1. cfg = [q \in DOMAIN cfg |-> cfg[q]]
      BY <1>8 DEF CopyOf
    <3>2. CASE Hidden(v)
      <4>1. d = cfg
        BY <1>10, <3>2 DEF Taken, v
      <4> QED
        BY <3>1, <3>2, <4>1
    <3>3. CASE ~Hidden(v)
      <4>1. d = IF cfg[p] = "class" THEN [cfg EXCEPT ![p] = "name"] ELSE cfg
        BY <3>3 DEF Named, v
      <4>2. CASE cfg[p] = "class"
        <5>1. d = [cfg EXCEPT ![p] = "name"]
          BY <4>1, <4>2
        <5> HIDE DEF p
        <5>2. /\ DOMAIN d = DOMAIN cfg /\ d = [q \in DOMAIN d |-> d[q]]
              /\ (\A q \in DOMAIN cfg : q # p => d[q] = cfg[q]) /\ d[p] = "name"
          BY <1>7, <3>1, <5>1
        <5> QED
          BY <4>2, <5>2
      <4>3. CASE cfg[p] # "class"
        BY <3>1, <4>1, <4>3
      <4> QED
        BY <4>2, <4>3
    <3> QED
      BY <3>2, <3>3
  <2>2. CopyOf(d)
    BY <1>7, <1>8, <2>1 DEF CopyOf
  <2>3. Visits(r, d, p)
    <3>1. v.below.key \in Locs \cup {NoKey} /\ v.below.location \in Seq(Locs) /\ v.key \in Locs \cup {NoKey}
      BY <1>2 DEF Calls
    <3>2. Tells(p, v.below.location)
      BY <1>2 DEF CallRight
    <3>3. KeyFits(Whole[p], v.below.key)
      <4>1. CASE v.parent = "list"
        BY <1>2, <4>1 DEF CallRight, KeyFits
      <4>2. CASE v.parent = "map"
        <5>1. ~Hidden(v)
          BY <1>10, <4>2
        <5> QED
          BY <1>2, <4>2, <5>1 DEF CallRight, KeyFits, Hidden
      <4>3. v.parent \in {"map", "list"}
        BY <1>2 DEF Calls
      <4> QED
        BY <4>1, <4>2, <4>3
    <3>4. RulesAboveLists => Shown(p)
      BY <1>2, <1>10, HiddenIs, ShownIs DEF CallRight
    <3>5. p \in DOMAIN d
      BY <1>7, <2>1
    <3> QED
      BY <2>2, <3>1, <3>2, <3>3, <3>4, <3>5, WalkIs
  <2> HIDE DEF r
  <2>4. r \in Seq(Calls) /\ \A i \in DOMAIN r : CallRight(r[i]) /\ IsPrefix(p, r[i].node) /\ r[i].node \in Seq(Keys)
    <3>1. r \in Seq(Calls) /\ \A i \in DOMAIN r : CallRight(r[i])
      BY <2>3 DEF Visits
    <3>2. \A i \in DOMAIN r : IsPrefix(p, r[i].node)
      BY <1>2, <2>2, <2>3, VisitsApart
    <3>3. \A i \in DOMAIN r : r[i].node \in Seq(Keys)
      BY <3>1, WholeIs DEF CallRight
    <3> QED
      BY <3>1, <3>2, <3>3
  <2>5. /\ calls \in Seq(Calls) /\ Len(r) \in Nat /\ DOMAIN r = 1 .. Len(r) /\ DOMAIN calls = 1 .. Len(r) + Len(T)
        /\ \A i \in DOMAIN calls : calls[i] = IF i <= Len(r) THEN r[i] ELSE T[i - Len(r)]
    <3>1. calls = r \o T
      BY DEF r, v, T
    <3>2. Len(r) \in Nat /\ DOMAIN r = 1 .. Len(r)
      BY <2>4
    <3>3. r \o T \in Seq(Calls) /\ DOMAIN (r \o T) = 1 .. Len(r \o T)
      <4>1. r \o T \in Seq(Calls)
        BY <1>1, <2>4, ConcatIs
      <4> DEFINE t == r \o T
      <4> HIDE DEF t
      <4>2. DOMAIN t = 1 .. Len(t)
        BY <4>1 DEF t
      <4> QED
        BY <4>1, <4>2 DEF t
    <3>4. /\ Len(r \o T) = Len(r) + Len(T)
          /\ \A i \in 1 .. Len(r) + Len(T) : (r \o T)[i] = IF i <= Len(r) THEN r[i] ELSE T[i - Len(r)]
      BY <1>1, <2>4, ConcatIs
    <3> QED
      BY <3>1, <3>2, <3>3, <3>4
  <2>6. ASSUME NEW i \in DOMAIN calls
        PROVE  \/ i \in DOMAIN r /\ calls[i] = r[i]
               \/ i > Len(r) /\ i - Len(r) \in DOMAIN T /\ calls[i] = T[i - Len(r)]
    <3>1. CASE i <= Len(r)
      <4>1. calls[i] = r[i]
        BY <2>5, <3>1
      <4>2. i \in 1 .. Len(r)
        BY <1>1, <2>5, <3>1
      <4> QED
        BY <2>5, <4>1, <4>2
    <3>2. CASE ~(i <= Len(r))
      <4>1. calls[i] = T[i - Len(r)]
        BY <2>5, <3>2
      <4>2. i > Len(r) /\ i - Len(r) \in 1 .. Len(T)
        BY <1>1, <2>5, <3>2
      <4> QED
        BY <1>1, <4>1, <4>2
    <3> QED
      BY <3>1, <3>2
  <2>7. \A q : Coming(calls, q) <=> Coming(r, q) \/ Coming(T, q)
    <3>1. ASSUME NEW q, Coming(r, q) PROVE Coming(calls, q)
      <4>1. PICK i \in DOMAIN r : IsPrefix(r[i].node, q)
        BY <3>1 DEF Coming
      <4>2. i \in DOMAIN calls /\ calls[i] = r[i]
        BY <1>1, <2>5
      <4> QED
        BY <4>1, <4>2 DEF Coming
    <3>2. ASSUME NEW q, Coming(T, q) PROVE Coming(calls, q)
      <4>1. PICK i \in DOMAIN T : IsPrefix(T[i].node, q)
        BY <3>2 DEF Coming
      <4>2. i + Len(r) \in DOMAIN calls /\ ~(i + Len(r) <= Len(r)) /\ (i + Len(r)) - Len(r) = i
        BY <1>1, <2>5
      <4>3. calls[i + Len(r)] = T[i]
        BY <2>5, <4>2
      <4> QED
        BY <4>1, <4>2, <4>3 DEF Coming
    <3>3. ASSUME NEW q, Coming(calls, q) PROVE Coming(r, q) \/ Coming(T, q)
      BY <2>6, <3>3 DEF Coming
    <3> QED
      BY <3>1, <3>2, <3>3
  <2>8. \A i \in DOMAIN calls : CallRight(calls[i])
    BY <1>2, <2>4, <2>6
  <2>9. ASSUME NEW i \in DOMAIN calls, NEW j \in DOMAIN calls, i # j PROVE ~IsPrefix(calls[i].node, calls[j].node)
    <3>1. \A m, n \in DOMAIN r : m # n => ~IsPrefix(r[m].node, r[n].node)
      BY <1>2, <2>2, <2>3, VisitsApart
    <3>2. ASSUME NEW m \in DOMAIN r, NEW n \in DOMAIN T
          PROVE  ~IsPrefix(r[m].node, T[n].node) /\ ~IsPrefix(T[n].node, r[m].node)
      <4> DEFINE a == r[m].node
                 b == T[n].node
      <4>1. a \in Seq(Keys) /\ b \in Seq(Keys) /\ IsPrefix(p, a) /\ ~IsPrefix(p, b) /\ ~IsPrefix(b, p)
        BY <1>4, <1>5, <2>4
      <4> HIDE DEF a, b
      <4>2. ~IsPrefix(a, b)
        BY <1>2, <4>1, PrefixesJoin
      <4>3. ~IsPrefix(b, a)
        BY <1>2, <4>1, PrefixesMeet
      <4> QED
        BY <4>2, <4>3 DEF a, b
    <3>3. CASE i > Len(r) /\ j > Len(r)
      <4>1. i - Len(r) \in DOMAIN T /\ j - Len(r) \in DOMAIN T /\ i - Len(r) # j - Len(r)
        BY <1>1, <2>5, <2>9, <3>3
      <4>2. calls[i] = T[i - Len(r)] /\ calls[j] = T[j - Len(r)]
        <5>1. ~(i <= Len(r)) /\ ~(j <= Len(r))
          BY <1>1, <2>5, <3>3
        <5> QED
          BY <2>5, <5>1
      <4> QED
        BY <1>4, <4>1, <4>2
    <3>4. CASE i \in DOMAIN r \/ j \in DOMAIN r
      <4>1. ~(i \in DOMAIN r /\ i > Len(r)) /\ ~(j \in DOMAIN r /\ j > Len(r))
        BY <2>5
      <4> QED
        BY <2>6, <2>9, <3>1, <3>2, <3>4, <4>1
    <3> QED
      BY <2>6, <2>9, <3>3, <3>4
  <2>10. ASSUME NEW q \in DOMAIN d \ {<<>>}, ~Coming(calls, q)
         PROVE  ~KeyFiltered(Full(q)) /\ (RulesAboveLists => Shown(q) /\ d[q] # "class")
    <3>1. q \in DOMAIN cfg \ {<<>>} /\ q \in Seq(Keys) /\ q \in DOMAIN Whole
      BY <1>8, <2>1
    <3>2. CASE q = p
      <4>1. ~KeyFiltered(Full(q))
        BY <1>2, <1>10, <3>2, HiddenIs
      <4>2. RulesAboveLists => Shown(q) /\ d[q] # "class"
        BY <1>2, <1>10, <2>1, <3>2, HiddenIs, ShownIs DEF CallRight
      <4> QED
        BY <4>1, <4>2
    <3>3. CASE q # p
      <4>1. ~IsPrefix(p, q)
        <5>1. \A n \in 0 .. Len(q) : SubSeq(q, 1, n) \in DOMAIN d
          BY <2>1, <3>1 DEF Copied
        <5>2. IsPrefix(p, q) => Coming(r, q)
          BY <1>2, <2>2, <2>3, <3>3, <5>1, VisitsReach
        <5> QED
          BY <2>7, <2>10, <5>2
      <4>2. ~Coming(todo, q)
        BY <1>3, <2>7, <2>10, <4>1
      <4>3. d[q] = cfg[q]
        BY <2>1, <3>1, <3>3
      <4> QED
        BY <3>1, <4>2, <4>3 DEF Copied
    <3> QED
      BY <3>2, <3>3
  <2>11. ASSUME NEW q \in DOMAIN Whole, Coming(calls, q) PROVE q \in DOMAIN d /\ d[q] = Whole[q]
    <3>1. q \in Seq(Keys)
      BY WholeIs
    <3>2. Coming(todo, q) /\ q # p
      <4>1. CASE Coming(T, q)
        BY <1>2, <1>3, <1>6, <1>7, <4>1
      <4>2. CASE Coming(r, q)
        <5>1. PICK i \in DOMAIN r : IsPrefix(r[i].node, q)
          BY <4>2 DEF Coming
        <5>2. r[i].node \in Seq(Keys) /\ IsPrefix(p, r[i].node) /\ ~IsPrefix(r[i].node, p)
          BY <1>2, <2>2, <2>3, <2>4, VisitsApart
        <5>3. IsPrefix(p, q)
          BY <1>2, <3>1, <5>1, <5>2, PrefixesJoin
        <5> QED
          BY <1>3, <5>1, <5>2, <5>3
      <4> QED
        BY <2>7, <2>11, <4>1, <4>2
    <3>3. q \in DOMAIN cfg /\ cfg[q] = Whole[q]
      BY <3>2 DEF Copied
    <3> QED
      BY <2>1, <3>2, <3>3
  <2>12. RulesAboveLists => \A q \in DOMAIN Whole : Shown(q) => q \in DOMAIN d
    BY <2>1 DEF Copied
  <2>13. \A q \in DOMAIN d : \A n \in 0 .. Len(q) : SubSeq(q, 1, n) \in DOMAIN d
    BY <2>1 DEF Copied
  <2> QED
    BY <2>2, <2>5, <2>8, <2>9, <2>10, <2>11, <2>12, <2>13 DEF Copied
<1> QED
  BY <1>9, <1>10

-----------------------------------------------------------------------------
(* The request.                                                            *)

(* The inductive invariant: what ConfigTypeOK says, and while the copy is  *)
(* walked what the callback has done and what is left to it.               *)
ConfigInv ==
  /\ Asked
  /\ walking \in {"asked", "walking", "answered", "forbidden"}
  /\ walking \in {"asked", "forbidden"} => cfg = <<>> /\ todo = <<>>
  /\ walking \in {"walking", "answered"} => Copied(cfg, todo)
  /\ walking = "answered" => todo = <<>>

LEMMA SameRules ==
  ASSUME settings' = settings, wanted' = wanted, NEW CONSTANT c, NEW CONSTANT calls, Copied(c, calls)
  PROVE  Copied(c, calls)'
<1>1. Whole' = Whole /\ \A p : Full(p)' = Full(p)
  BY DEF Whole, Full
<1>2. \A p : InList(p)' <=> InList(p)
  BY DEF InList
<1>3. \A p : (KeyFiltered(p)' <=> KeyFiltered(p)) /\ (Permitted(p)' <=> Permitted(p))
  BY DEF KeyFiltered, Permitted
<1>4. RulesAboveLists' <=> RulesAboveLists
  BY <1>2 DEF RulesAboveLists
<1>5. \A p : Withheld(p)' <=> Withheld(p)
  BY <1>3 DEF Withheld
<1>6. \A p : Shown(p)' <=> Shown(p)
  BY <1>1, <1>5 DEF Shown
<1>7. \A p, l : Tells(p, l)' <=> Tells(p, l)
  BY <1>1, <1>2 DEF Tells
<1>8. \A kind, key : KeyFits(kind, key)' <=> KeyFits(kind, key)
  BY DEF KeyFits
<1>9. \A v : CallRight(v)' <=> CallRight(v)
  BY <1>1, <1>4, <1>6, <1>7, <1>8 DEF CallRight
<1>10. CopyOf(c)' <=> CopyOf(c)
  BY <1>1 DEF CopyOf
<1> QED
  BY <1>1, <1>3, <1>4, <1>6, <1>9, <1>10 DEF Copied

LEMMA ConfigInitInv == ConfigInit => ConfigInv
BY DEF ConfigInit, Unviewed, ConfigInv, Asked

LEMMA ConfigStepInv == ConfigInv /\ [ConfigNext]_configVars => ConfigInv'
<1> SUFFICES ASSUME ConfigInv, [ConfigNext]_configVars PROVE ConfigInv'
  OBVIOUS
<1>1. Asked
  BY DEF ConfigInv
<1>2. CASE ViewConfig
  <2>1. walking' = "walking" /\ settings' = settings /\ wanted' = wanted
    BY <1>2 DEF ViewConfig
  <2>2. Asked'
    BY <1>1, <2>1 DEF Asked
  <2>3. \E c, calls : c = cfg' /\ calls = todo'
    OBVIOUS
  <2>4. PICK c, calls : c = cfg' /\ calls = todo'
    BY <2>3
  <2>5. c = Whole /\ calls = walk(c, <<>>, NoKey, <<>>)
    BY <1>2, <2>4 DEF ViewConfig, Whole
  <2>6. Copied(c, calls)
    BY <1>1, <2>5, ViewMakes
  <2>7. Copied(c, calls)'
    BY <2>1, <2>6, SameRules
  <2>8. Copied(cfg, todo)'
    BY <2>4, <2>7
  <2> QED
    BY <2>1, <2>2, <2>8 DEF ConfigInv
<1>3. CASE Forbid
  BY <1>1, <1>3 DEF Forbid, ConfigInv, Asked
<1>4. CASE Visit
  <2>1. /\ walking = "walking" /\ walking' = "walking" /\ settings' = settings /\ wanted' = wanted /\ todo # <<>>
    BY <1>4 DEF Visit
  <2>2. Asked'
    BY <1>1, <2>1 DEF Asked
  <2>3. \E c, calls : c = cfg' /\ calls = todo'
    OBVIOUS
  <2>4. PICK c, calls : c = cfg' /\ calls = todo'
    BY <2>3
  <2>5. /\ c = IF Hidden(Head(todo)) THEN Taken(Head(todo)) ELSE Named(Head(todo))
        /\ calls = walk(c, Head(todo).node, Head(todo).below.key, Head(todo).below.location) \o Tail(todo)
    BY <1>4, <2>4 DEF Visit
  <2>6. Copied(cfg, todo)
    BY <2>1 DEF ConfigInv
  <2>7. Copied(c, calls)
    BY <1>1, <2>1, <2>5, <2>6, VisitKeeps
  <2>8. Copied(c, calls)'
    BY <2>1, <2>7, SameRules
  <2>9. Copied(cfg, todo)'
    BY <2>4, <2>8
  <2> QED
    BY <2>1, <2>2, <2>9 DEF ConfigInv
<1>5. ASSUME settings' = settings, wanted' = wanted, cfg' = cfg, todo' = todo, walking \in {"walking", "answered"}
      PROVE  Asked' /\ Copied(cfg, todo)'
  <2>1. Asked'
    BY <1>1, <1>5 DEF Asked
  <2>2. \E c, calls : c = cfg /\ calls = todo
    OBVIOUS
  <2>3. PICK c, calls : c = cfg /\ calls = todo
    BY <2>2
  <2>4. Copied(cfg, todo)
    BY <1>5 DEF ConfigInv
  <2>5. Copied(c, calls)
    BY <2>3, <2>4
  <2>6. Copied(c, calls)'
    BY <1>5, <2>5, SameRules
  <2>7. Copied(cfg, todo)'
    <3>1. c = cfg' /\ calls = todo'
      BY <1>5, <2>3
    <3> QED
      BY <2>6, <3>1
  <2> QED
    BY <2>1, <2>7
<1>6. CASE ShowConfig
  <2>1. /\ walking = "walking" /\ walking' = "answered" /\ todo = <<>> /\ settings' = settings /\ wanted' = wanted
        /\ cfg' = cfg /\ todo' = todo
    BY <1>6 DEF ShowConfig
  <2>2. Asked' /\ Copied(cfg, todo)'
    BY <1>5, <2>1
  <2> QED
    BY <2>1, <2>2 DEF ConfigInv
<1>7. CASE UNCHANGED configVars
  <2>1. walking' = walking /\ settings' = settings /\ wanted' = wanted /\ cfg' = cfg /\ todo' = todo
    BY <1>7 DEF configVars
  <2>2. CASE walking \in {"walking", "answered"}
    <3>1. Asked' /\ Copied(cfg, todo)'
      BY <1>5, <2>1, <2>2
    <3> QED
      BY <2>1, <3>1 DEF ConfigInv
  <2>3. CASE walking \notin {"walking", "answered"}
    <3>1. Asked'
      BY <1>1, <2>1 DEF Asked
    <3> QED
      BY <2>1, <2>3, <3>1 DEF ConfigInv
  <2> QED
    BY <2>2, <2>3
<1> QED
  BY <1>2, <1>3, <1>4, <1>6, <1>7 DEF ConfigNext

LEMMA ConfigInvariant == ConfigSpec => []ConfigInv
BY ConfigInitInv, ConfigStepInv, PTL DEF ConfigSpec

(* A request walks over a copy that has what is still to be visited, in    *)
(* separate parts (ServerStatusAPIController.getConfig, Helper.walk).      *)
THEOREM ConfigTypeCorrect == ConfigSpec => []ConfigTypeOK
<1>1. ConfigInv => ConfigTypeOK
  <2> SUFFICES ASSUME ConfigInv PROVE ConfigTypeOK
    OBVIOUS
  <2>1. settings \in Settings /\ wanted \in Asking /\ walking \in {"asked", "walking", "answered", "forbidden"}
    BY DEF ConfigInv, Asked
  <2>2. CASE walking \in {"asked", "forbidden"}
    <3>1. cfg = <<>> /\ todo = <<>> /\ DOMAIN <<>> = {}
      BY <2>2 DEF ConfigInv
    <3> QED
      BY <2>1, <3>1 DEF ConfigTypeOK
  <2>3. CASE walking \in {"walking", "answered"}
    <3>1. Copied(cfg, todo) /\ (walking = "answered" => todo = <<>>)
      BY <2>3 DEF ConfigInv
    <3>2. \A p \in DOMAIN cfg : cfg[p] \in Shapes
      BY <3>1, WholeIs DEF Copied, CopyOf, Shapes, ConfigInv
    <3>3. \A i, j \in DOMAIN todo : i # j => ~IsPrefix(todo[i].node, todo[j].node)
      BY <3>1 DEF Copied
    <3>4. ASSUME NEW i \in DOMAIN todo PROVE todo[i].node \in DOMAIN cfg
      <4>1. CallRight(todo[i])
        BY <3>1 DEF Copied
      <4>2. todo[i].node \in DOMAIN Whole
        BY <4>1 DEF CallRight
      <4>3. IsPrefix(todo[i].node, todo[i].node)
        BY <4>2, WholeIs, PrefixOfItself DEF ConfigInv
      <4>4. Coming(todo, todo[i].node)
        BY <4>3 DEF Coming
      <4> QED
        BY <3>1, <4>2, <4>4 DEF Copied
    <3> QED
      BY <2>1, <2>3, <3>1, <3>2, <3>3, <3>4 DEF ConfigTypeOK
  <2> QED
    BY <2>1, <2>2, <2>3
<1> QED
  BY <1>1, ConfigInvariant, PTL

(* Below the key that was asked for, an answer has nothing at a filtered   *)
(* key, and if no rule is for something in a list it has all that is there,*)
(* less what is withheld and what is below that, with names for classes.   *)
(* Of the key itself nothing is claimed.                                   *)
THEOREM AllowedBelowKeyCorrect == ConfigSpec => []AllowedBelowKey
<1>1. ConfigInv => AllowedBelowKey
  <2> SUFFICES ASSUME ConfigInv, walking = "answered"
               PROVE  /\ \A p \in DOMAIN cfg \ {<<>>} : ~KeyFiltered(Full(p))
                      /\ RulesAboveLists =>
                           cfg = [p \in {q \in DOMAIN Whole : Shown(q)} |->
                                    IF Whole[p] = "class" THEN "name" ELSE Whole[p]]
    BY DEF AllowedBelowKey, Shown, Full, Whole
  <2>1. Asked /\ Copied(cfg, todo) /\ todo = <<>>
    BY DEF ConfigInv
  <2>2. \A p : ~Coming(todo, p)
    <3>1. DOMAIN <<>> = {}
      OBVIOUS
    <3> QED
      BY <2>1, <3>1 DEF Coming
  <2>3. \A p \in DOMAIN cfg \ {<<>>} : ~KeyFiltered(Full(p)) /\ (RulesAboveLists => Shown(p) /\ cfg[p] # "class")
    BY <2>1, <2>2 DEF Copied
  <2>4. ASSUME RulesAboveLists
        PROVE  cfg = [p \in {q \in DOMAIN Whole : Shown(q)} |-> IF Whole[p] = "class" THEN "name" ELSE Whole[p]]
    <3> DEFINE D == {q \in DOMAIN Whole : Shown(q)}
    <3>1. ASSUME NEW p \in DOMAIN cfg PROVE p \in D /\ cfg[p] = IF Whole[p] = "class" THEN "name" ELSE Whole[p]
      <4>1. p \in DOMAIN Whole /\ (cfg[p] = Whole[p] \/ (Whole[p] = "class" /\ cfg[p] = "name"))
        BY <2>1 DEF Copied, CopyOf
      <4>2. CASE p = <<>>
        <5>1. Whole[p] # "class" /\ Shown(p)
          BY <2>1, <4>1, <4>2, WholeIs, ShownIs
        <5> QED
          BY <4>1, <5>1
      <4>3. CASE p # <<>>
        BY <2>3, <2>4, <4>1, <4>3
      <4> QED
        BY <4>2, <4>3
    <3>2. ASSUME NEW p \in D PROVE p \in DOMAIN cfg
      BY <2>1, <2>4 DEF Copied
    <3>3. DOMAIN cfg = D
      BY <3>1, <3>2
    <3>4. cfg = [p \in DOMAIN cfg |-> cfg[p]]
      BY <2>1 DEF Copied, CopyOf
    <3> HIDE DEF D
    <3>5. cfg = [p \in D |-> IF Whole[p] = "class" THEN "name" ELSE Whole[p]]
      BY <3>1, <3>3, <3>4
    <3> QED
      BY <3>5 DEF D
  <2> QED
    BY <2>3, <2>4
<1> QED
  BY <1>1, ConfigInvariant, PTL
=============================================================================
