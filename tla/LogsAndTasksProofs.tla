--------------------------- MODULE LogsAndTasksProofs ---------------------------
(***************************************************************************)
(* What tail and less answer is selected of what the file held at stat,    *)
(* for files and questions of any size and however much the file grows;    *)
(* and proofs about TasksApi, for any nodes and tasks.                     *)
(***************************************************************************)
EXTENDS LogsAndTasks, FiniteSetTheorems, SequenceTheorems, TLAPS

-----------------------------------------------------------------------------
(* Counting line ends.                                                     *)

LineEnds(s, i, j) == {k \in i .. j : s[k] \in NewLines}

LEMMA EndsFinite ==
  ASSUME NEW s, NEW i \in Int, NEW j \in Int
  PROVE  /\ IsFiniteSet(LineEnds(s, i, j)) /\ Ends(s, i, j) = Cardinality(LineEnds(s, i, j))
         /\ Ends(s, i, j) \in Nat
         /\ j < i => Ends(s, i, j) = 0
<1>1. LineEnds(s, i, j) \in SUBSET (i .. j)
  BY DEF LineEnds
<1>2. IsFiniteSet(LineEnds(s, i, j))
  BY <1>1, FS_Interval, FS_Subset
<1>3. j < i => LineEnds(s, i, j) = {}
  BY DEF LineEnds
<1> QED
  BY <1>2, <1>3, FS_CardinalityType, FS_EmptySet DEF Ends, LineEnds

LEMMA EndsMonotonic ==
  ASSUME NEW s, NEW i \in Int, NEW j \in Int, NEW k \in Int, NEW l \in Int, i <= k, l <= j
  PROVE  Ends(s, k, l) <= Ends(s, i, j)
<1>1. LineEnds(s, k, l) \in SUBSET LineEnds(s, i, j)
  BY DEF LineEnds
<1> QED
  BY <1>1, EndsFinite, FS_Subset

(* One byte more, before the others or after them.                         *)
LEMMA EndsLeft ==
  ASSUME NEW s, NEW i \in Int, NEW j \in Int, i <= j
  PROVE  Ends(s, i, j) = IF s[i] \in NewLines THEN Ends(s, i + 1, j) + 1 ELSE Ends(s, i + 1, j)
<1>1. i \notin LineEnds(s, i + 1, j) /\ IsFiniteSet(LineEnds(s, i + 1, j))
  <2>1. i \notin LineEnds(s, i + 1, j)
    BY DEF LineEnds
  <2>2. i + 1 \in Int
    OBVIOUS
  <2> QED
    BY <2>1, <2>2, EndsFinite
<1>2. CASE s[i] \in NewLines
  <2>1. LineEnds(s, i, j) = LineEnds(s, i + 1, j) \cup {i}
    BY <1>2 DEF LineEnds
  <2>2. Cardinality(LineEnds(s, i + 1, j) \cup {i}) = Cardinality(LineEnds(s, i + 1, j)) + 1
    BY <1>1, FS_AddElement
  <2> QED
    BY <1>2, <2>1, <2>2 DEF Ends, LineEnds
<1>3. CASE s[i] \notin NewLines
  <2>1. LineEnds(s, i, j) = LineEnds(s, i + 1, j)
    BY <1>3 DEF LineEnds
  <2> QED
    BY <1>3, <2>1 DEF Ends, LineEnds
<1> QED
  BY <1>2, <1>3

LEMMA EndsRight ==
  ASSUME NEW s, NEW i \in Int, NEW j \in Int, i <= j
  PROVE  Ends(s, i, j) = IF s[j] \in NewLines THEN Ends(s, i, j - 1) + 1 ELSE Ends(s, i, j - 1)
<1>1. j \notin LineEnds(s, i, j - 1) /\ IsFiniteSet(LineEnds(s, i, j - 1))
  <2>1. j \notin LineEnds(s, i, j - 1)
    BY DEF LineEnds
  <2>2. j - 1 \in Int
    OBVIOUS
  <2> QED
    BY <2>1, <2>2, EndsFinite
<1>2. CASE s[j] \in NewLines
  <2>1. LineEnds(s, i, j) = LineEnds(s, i, j - 1) \cup {j}
    BY <1>2 DEF LineEnds
  <2>2. Cardinality(LineEnds(s, i, j - 1) \cup {j}) = Cardinality(LineEnds(s, i, j - 1)) + 1
    BY <1>1, FS_AddElement
  <2> QED
    BY <1>2, <2>1, <2>2 DEF Ends, LineEnds
<1>3. CASE s[j] \notin NewLines
  <2>1. LineEnds(s, i, j) = LineEnds(s, i, j - 1)
    BY <1>3 DEF LineEnds
  <2> QED
    BY <1>3, <2>1 DEF Ends, LineEnds
<1> QED
  BY <1>2, <1>3

-----------------------------------------------------------------------------
(* Pieces of a file.                                                       *)

LEMMA PieceOfInterval ==
  ASSUME NEW s, NEW a \in Int, NEW z \in Int
  PROVE  Piece(s, a .. z) = IF a <= z THEN SubSeq(s, a, z) ELSE <<>>
<1>1. CASE a > z
  <2>1. a .. z = {}
    BY <1>1
  <2> QED
    BY <1>1, <2>1 DEF Piece
<1>2. CASE a <= z
  <2>1. a .. z # {}
    BY <1>2
  <2> DEFINE first == CHOOSE i \in a .. z : \A j \in a .. z : i <= j
             last  == CHOOSE i \in a .. z : \A j \in a .. z : i >= j
  <2>2. first = a
    BY <1>2
  <2>3. last = z
    BY <1>2
  <2>4. Piece(s, a .. z) = SubSeq(s, first, last)
    BY <2>1 DEF Piece
  <2> HIDE DEF first, last
  <2> QED
    BY <1>2, <2>2, <2>3, <2>4
<1> QED
  BY <1>1, <1>2

LEMMA ShownIsText ==
  ASSUME NEW b \in Bytes
  PROVE  Shown(b) \in Text /\ (Shown(b) \in NewLines <=> b \in NewLines)
<1>1. CASE b \in Wide
  <2>1. b \notin NewLines /\ Garbled \notin NewLines
    BY <1>1, LogAssumption
  <2> QED
    BY <1>1, <2>1 DEF Shown, Text
<1>2. CASE b \notin Wide
  BY <1>2 DEF Shown, Text, Bytes
<1> QED
  BY <1>1, <1>2

(* t is what is shown of the bytes of s from a on.                         *)
ShownFrom(t, s, a) ==
  /\ t \in Seq(Text)
  /\ \A i \in 1 .. Len(t) : t[i] = Shown(s[a + i - 1])

LEMMA ShownPiece ==
  ASSUME NEW s \in Seq(Bytes), NEW t, NEW a \in Nat, NEW z \in Nat, a > 0, z <= Len(s),
         Len(t) = IF a <= z THEN z - a + 1 ELSE 0, ShownFrom(t, s, a)
  PROVE  t = Decoded(IF a <= z THEN SubSeq(s, a, z) ELSE <<>>)
<1> DEFINE p == IF a <= z THEN SubSeq(s, a, z) ELSE <<>>
<1>1. /\ p \in Seq(Bytes) /\ Len(p) = Len(t)
      /\ \A i \in 1 .. Len(t) : p[i] = s[a + i - 1]
  <2>1. \A i \in a .. z : s[i] \in Bytes
    OBVIOUS
  <2> QED
    BY <2>1, SubSeqProperties
<1>2. /\ Decoded(p) \in Seq(Text) /\ Len(Decoded(p)) = Len(t)
      /\ \A i \in 1 .. Len(t) : Decoded(p)[i] = Shown(s[a + i - 1])
  <2> HIDE DEF p
  <2>1. \A i \in 1 .. Len(p) : p[i] \in Bytes /\ Shown(p[i]) \in Text
    BY <1>1, ShownIsText
  <2>2. Decoded(p) = [i \in 1 .. Len(p) |-> Shown(p[i])]
    BY <1>1 DEF Decoded
  <2> QED
    BY <1>1, <2>1, <2>2
<1> QED
  BY <1>2, SeqEqual DEF ShownFrom

LEMMA DecodedSubSeq ==
  ASSUME NEW p \in Seq(Bytes)
  PROVE  Decoded(SubSeq(p, 1, Len(p) - 1)) = SubSeq(Decoded(p), 1, Len(p) - 1)
<1> DEFINE d == SubSeq(p, 1, Len(p) - 1)
           t == SubSeq(Decoded(p), 1, Len(p) - 1)
<1>1. /\ Decoded(p) \in Seq(Text) /\ Len(Decoded(p)) = Len(p)
      /\ \A i \in 1 .. Len(p) : Decoded(p)[i] = Shown(p[i]) /\ Shown(p[i]) \in Text
  <2>1. \A i \in 1 .. Len(p) : p[i] \in Bytes /\ Shown(p[i]) \in Text
    BY ShownIsText
  <2>2. Decoded(p) = [i \in 1 .. Len(p) |-> Shown(p[i])]
    BY DEF Decoded
  <2> QED
    BY <2>1, <2>2
<1>2. /\ t \in Seq(Text) /\ Len(t) = IF 1 <= Len(p) - 1 THEN Len(p) - 1 ELSE 0
      /\ \A i \in 1 .. Len(p) - 1 : t[i] = Shown(p[i])
  <2>1. Len(p) - 1 \in Int /\ \A i \in 1 .. Len(p) - 1 : Decoded(p)[i] \in Text
    BY <1>1
  <2> QED
    BY <1>1, <2>1, SubSeqProperties
<1>3. ShownFrom(t, p, 1)
  BY <1>2 DEF ShownFrom
<1>4. CASE Len(p) - 1 >= 1
  <2>1. Len(p) - 1 \in Nat /\ Len(p) - 1 <= Len(p) /\ Len(t) = IF 1 <= Len(p) - 1 THEN (Len(p) - 1) - 1 + 1 ELSE 0
    BY <1>2, <1>4
  <2> HIDE DEF t
  <2>2. t = Decoded(IF 1 <= Len(p) - 1 THEN SubSeq(p, 1, Len(p) - 1) ELSE <<>>)
    BY <1>3, <2>1, ShownPiece
  <2> QED
    BY <1>4, <2>2 DEF t
<1>5. CASE Len(p) - 1 < 1
  <2>1. d = <<>> /\ t = <<>>
    BY <1>5, SubSeqEmpty
  <2> QED
    BY <2>1 DEF Decoded
<1> QED
  BY <1>4, <1>5

-----------------------------------------------------------------------------
(* tail.                                                                   *)

(* The bytes that tail selects of the first m.                             *)
Latest(s, m, n) == {i \in 1 .. m : n <= 0 \/ Ends(s, i, m - 1) <= n - 2}

(* When tail has read enough: c bytes of m, the first of them at a.        *)
ReadsEnough(s, m, n, c, a) ==
  /\ m \in Nat /\ n \in Int /\ c \in 0 .. m /\ a = m - c + 1
  /\ n > 0 /\ c > 0 => Ends(s, a + 1, m - 1) <= n - 2
  /\ c = m \/ (n > 0 /\ Ends(s, a, m - 1) >= n - 1)

(* That is from a line end on, or the whole file.                          *)
LEMMA WhereItEnds ==
  ASSUME NEW s, NEW m, NEW n, NEW c, NEW a, ReadsEnough(s, m, n, c, a)
  PROVE  \/ Latest(s, m, n) = (a + 1) .. m /\ (c > 0 => a < m /\ s[a] \in NewLines)
         \/ c = m /\ a = 1 /\ Latest(s, m, n) = 1 .. m
<1>0. m \in Nat /\ n \in Int /\ c \in 0 .. m /\ a = m - c + 1 /\ a \in Int
  BY DEF ReadsEnough
<1> USE <1>0 DEF ReadsEnough
<1>1. m - 1 \in Int /\ a + 1 \in Int
  OBVIOUS
<1>2. \A i, k \in Int : i <= k => Ends(s, k, m - 1) <= Ends(s, i, m - 1)
  BY <1>1, EndsMonotonic
<1>3. \A i \in Int : Ends(s, i, m - 1) \in Nat /\ (m - 1 < i => Ends(s, i, m - 1) = 0)
  BY <1>1, EndsFinite
<1>4. CASE n > 0 /\ Ends(s, a, m - 1) >= n - 1
  <2>1. \A i \in 1 .. m : i <= a => ~(Ends(s, i, m - 1) <= n - 2)
    BY <1>2, <1>3, <1>4
  <2>2. \A i \in 1 .. m : i > a => Ends(s, i, m - 1) <= n - 2
    BY <1>2, <1>3, <1>1, <1>4
  <2>3. Latest(s, m, n) = (a + 1) .. m
    BY <1>4, <2>1, <2>2 DEF Latest
  <2>4. ASSUME c > 0 PROVE a < m /\ s[a] \in NewLines
    <3>1. Ends(s, a + 1, m - 1) <= n - 2 /\ Ends(s, a + 1, m - 1) \in Nat
      BY <1>3, <1>1, <1>4, <2>4
    <3>2. a <= m - 1
      BY <1>3, <1>4, <3>1
    <3>3. Ends(s, a, m - 1) = IF s[a] \in NewLines THEN Ends(s, a + 1, m - 1) + 1 ELSE Ends(s, a + 1, m - 1)
      BY <1>1, <3>2, EndsLeft
    <3> QED
      BY <1>3, <1>4, <3>1, <3>2, <3>3
  <2> QED
    BY <2>3, <2>4
<1>5. CASE ~(n > 0 /\ Ends(s, a, m - 1) >= n - 1)
  <2>1. c = m /\ a = 1
    BY <1>5
  <2>2. \A i \in 1 .. m : n <= 0 \/ Ends(s, i, m - 1) <= n - 2
    BY <1>2, <1>3, <1>5, <2>1
  <2> QED
    BY <2>1, <2>2 DEF Latest
<1> QED
  BY <1>4, <1>5

(* The first of what is shown, and the rest.                               *)
LEMMA RestShown ==
  ASSUME NEW s \in Seq(Bytes), NEW t, NEW a \in Nat, a > 0, a <= Len(s), ShownFrom(t, s, a), t # <<>>
  PROVE  /\ Head(t) \in NewLines <=> s[a] \in NewLines
         /\ ShownFrom(Tail(t), s, a + 1) /\ Len(Tail(t)) = Len(t) - 1
<1>1. t \in Seq(Text) /\ Len(t) >= 1 /\ Head(t) = Shown(s[a])
  BY DEF ShownFrom
<1>2. /\ Tail(t) \in Seq(Text) /\ Len(Tail(t)) = Len(t) - 1
      /\ \A i \in 1 .. Len(Tail(t)) : Tail(t)[i] = t[i + 1]
  BY <1>1, HeadTailProperties
<1>3. \A i \in 1 .. Len(Tail(t)) : t[i + 1] = Shown(s[(a + 1) + i - 1])
  BY <1>1, <1>2 DEF ShownFrom
<1>4. s[a] \in Bytes
  OBVIOUS
<1> QED
  BY <1>1, <1>2, <1>3, <1>4, ShownIsText DEF ShownFrom

LEMMA LastLinesAre ==
  ASSUME NEW s \in Seq(Bytes), NEW m, NEW n, NEW c, NEW a, ReadsEnough(s, m, n, c, a),
         NEW t, Len(s) = m, Len(t) = c, ShownFrom(t, s, a)
  PROVE  (IF t # <<>> /\ Head(t) \in NewLines THEN Tail(t) ELSE t) = Decoded(LastLines(s, n))
<1> DEFINE I == Latest(s, m, n)
           J == IF 1 \in I /\ s[1] \in NewLines THEN I \ {1} ELSE I
<1>0. m \in Nat /\ n \in Int /\ c \in 0 .. m /\ a = m - c + 1 /\ a \in Int
  BY DEF ReadsEnough
<1> USE <1>0
<1>1. LastLines(s, n) = Piece(s, J)
  <2>1. DOMAIN s = 1 .. m
    OBVIOUS
  <2> QED
    BY <2>1 DEF LastLines, Latest
<1>2. \/ I = (a + 1) .. m /\ (c > 0 => a < m /\ s[a] \in NewLines)
      \/ c = m /\ a = 1 /\ I = 1 .. m
  BY WhereItEnds
<1> HIDE DEF I, J
<1>3. t \in Seq(Text) /\ (t = <<>> <=> c = 0)
  BY DEF ShownFrom
<1>4. ASSUME NEW b \in Nat, b > 0, J = b .. m, NEW u, ShownFrom(u, s, b), Len(u) = IF b <= m THEN m - b + 1 ELSE 0
      PROVE  u = Decoded(LastLines(s, n))
  <2>1. m <= Len(s)
    OBVIOUS
  <2>2. u = Decoded(IF b <= m THEN SubSeq(s, b, m) ELSE <<>>)
    BY <1>4, <2>1, ShownPiece
  <2>3. Piece(s, b .. m) = IF b <= m THEN SubSeq(s, b, m) ELSE <<>>
    BY PieceOfInterval
  <2> QED
    BY <1>1, <1>4, <2>2, <2>3
<1>5. CASE I = (a + 1) .. m /\ (c > 0 => a < m /\ s[a] \in NewLines)
  <2>1. J = (a + 1) .. m /\ a + 1 \in Nat /\ a > 0
    BY <1>5 DEF J
  <2>2. CASE c = 0
    <3>1. ShownFrom(t, s, a + 1) /\ Len(t) = IF a + 1 <= m THEN m - (a + 1) + 1 ELSE 0
      BY <1>3, <2>2 DEF ShownFrom
    <3> QED
      BY <1>3, <1>4, <2>1, <2>2, <3>1
  <2>3. CASE c > 0
    <3>1. Head(t) \in NewLines /\ ShownFrom(Tail(t), s, a + 1) /\ Len(Tail(t)) = c - 1
      BY <1>3, <1>5, <2>1, <2>3, RestShown
    <3>2. a + 1 > 0 /\ Len(Tail(t)) = IF a + 1 <= m THEN m - (a + 1) + 1 ELSE 0
      BY <1>5, <2>1, <2>3, <3>1
    <3>3. Tail(t) = Decoded(LastLines(s, n))
      BY <1>4, <2>1, <3>1, <3>2
    <3> QED
      BY <1>3, <2>3, <3>1, <3>3
  <2> QED
    BY <2>2, <2>3
<1>6. CASE c = m /\ a = 1 /\ I = 1 .. m
  <2>1. CASE m > 0 /\ s[1] \in NewLines
    <3>1. J = 2 .. m
      <4>1. J = (1 .. m) \ {1}
        BY <1>6, <2>1 DEF J
      <4> QED
        BY <4>1
    <3>2. Head(t) \in NewLines /\ ShownFrom(Tail(t), s, 2) /\ Len(Tail(t)) = m - 1
      BY <1>3, <1>6, <2>1, RestShown
    <3>3. 2 \in Nat /\ 2 > 0 /\ Len(Tail(t)) = IF 2 <= m THEN m - 2 + 1 ELSE 0
      BY <2>1, <3>2
    <3>4. Tail(t) = Decoded(LastLines(s, n))
      BY <1>4, <3>1, <3>2, <3>3
    <3> QED
      BY <1>3, <1>6, <2>1, <3>2, <3>4
  <2>2. CASE ~(m > 0 /\ s[1] \in NewLines)
    <3>1. J = 1 .. m
      BY <1>6, <2>2 DEF J
    <3>2. ~(t # <<>> /\ Head(t) \in NewLines)
      BY <1>3, <1>6, <2>2, RestShown
    <3> QED
      BY <1>4, <1>6, <3>1, <3>2
  <2> QED
    BY <2>1, <2>2
<1> QED
  BY <1>2, <1>5, <1>6

-----------------------------------------------------------------------------
(* less.                                                                   *)

IsSelected(s, from, n, k) == Ends(s, 1, k - 1) >= from /\ Ends(s, 1, k - 1) < from + Limit(n)

(* t is shown of what is selected, which ends at e.                        *)
ShowsSelected(s, from, n, e, t) ==
  /\ s \in Seq(Bytes) /\ from \in Nat /\ n \in Int /\ e \in 0 .. Len(s)
  /\ Len(t) <= e /\ ShownFrom(t, s, e - Len(t) + 1)
  /\ \A k \in 1 .. Len(s) : IsSelected(s, from, n, k) <=> k \in (e - Len(t) + 1) .. e

LEMMA SomeLinesAre ==
  ASSUME NEW s, NEW from, NEW n, NEW e, NEW t, ShowsSelected(s, from, n, e, t)
  PROVE  SubSeq(t, 1, Len(t) - 1) = Decoded(SomeLines(s, from, n))
<1> DEFINE a == e - Len(t) + 1
           I == {i \in DOMAIN s : Ends(s, 1, i - 1) >= from /\ Ends(s, 1, i - 1) < from + Limit(n)}
           p == IF a <= e THEN SubSeq(s, a, e) ELSE <<>>
<1> USE DEF ShowsSelected
<1>1. t \in Seq(Text) /\ a \in Nat /\ a > 0
  BY DEF ShownFrom
<1>2. I = a .. e
  BY <1>1 DEF IsSelected
<1>3. t = Decoded(p)
  BY <1>1, ShownPiece
<1>4. p \in Seq(Bytes) /\ Len(p) = Len(t)
  <2>1. \A i \in a .. e : s[i] \in Bytes
    BY <1>1
  <2> QED
    BY <1>1, <2>1, SubSeqProperties
<1>5. SomeLines(s, from, n) = SubSeq(Piece(s, I), 1, Len(Piece(s, I)) - 1)
  BY DEF SomeLines
<1> HIDE DEF I
<1>6. Piece(s, I) = p
  <2>1. Piece(s, a .. e) = p
    BY <1>1, PieceOfInterval
  <2> QED
    BY <1>2, <2>1
<1> HIDE DEF p
<1> QED
  BY <1>3, <1>4, <1>5, <1>6, DecodedSubSeq

-----------------------------------------------------------------------------
(* What has been read so far.                                              *)

(* The file still begins with what it was.                                 *)
StillThere ==
  /\ file # NoFile /\ Len(seen) <= Len(file)
  /\ \A i \in 1 .. Len(seen) : file[i] = seen[i]

Fresh == chars = 0 /\ lines = <<>> /\ lineCount = 0 /\ selected = 0 /\ started = FALSE

(* tail has the last bytes, and has passed fewer line ends before the last *)
(* of them than it was to.                                                 *)
TailSoFar ==
  /\ Len(lines) = chars /\ ShownFrom(lines, seen, Len(seen) - chars + 1)
  /\ lineCount = Ends(seen, Len(seen) - chars + 1, Len(seen) - 1)
  /\ question.maxlines > 0 /\ chars > 0 => Ends(seen, Len(seen) - chars + 2, Len(seen) - 1) <= question.maxlines - 2

(* less has the selected bytes, which end at the last one or before it.    *)
LastWanted == IF started \/ lines = <<>> THEN chars ELSE chars - 1

Wants(k) == IsSelected(seen, question.from, question.maxlines, k)

LessSoFar ==
  /\ lineCount = Ends(seen, 1, chars)
  /\ lineCount <= question.from => selected = 0
  /\ lineCount > question.from =>
       /\ selected <= lineCount - question.from
       /\ selected = lineCount - question.from \/ selected >= Limit(question.maxlines)
  /\ started => lines # <<>>
  /\ Len(lines) <= LastWanted /\ ShownFrom(lines, seen, LastWanted - Len(lines) + 1)
  /\ \A k \in 1 .. chars : Wants(k) <=> k \in (LastWanted - Len(lines) + 1) .. LastWanted

LogInv ==
  /\ TypeOK
  /\ at # "idle" => question \in Questions /\ file # NoFile
  /\ at \in {"opening", "reading"} => StillThere
  /\ at = "opening" => Fresh
  /\ at = "reading" /\ question.op = "tail" => TailSoFar
  /\ at = "reading" /\ question.op = "less" => LessSoFar
  /\ AnswersOneMoment

LEMMA QuestionFields ==
  ASSUME NEW q \in Questions
  PROVE  q.op \in {"tail", "less"} /\ q.from \in Nat /\ q.maxlines \in Int /\ Limit(q.maxlines) \in Int
<1>1. q.op \in {"tail", "less"} /\ q.from \in Nat /\ q.maxlines \in Int
  BY LogAssumption DEF Questions
<1> QED
  BY <1>1, LogAssumption DEF Limit

LEMMA FileIsBytes ==
  ASSUME TypeOK
  PROVE  file # NoFile <=> file \in Seq(Bytes)
BY LogAssumption DEF TypeOK, Bytes

(* One byte more for tail.                                                 *)
LEMMA TailReads ==
  ASSUME LogInv, TailRead
  PROVE  LogInv'
<1> DEFINE m == Len(seen)
           p == m - chars
           b == file[p]
<1>1. /\ TypeOK /\ question \in Questions /\ at = "reading" /\ question.op = "tail"
      /\ StillThere /\ TailSoFar
  BY DEF LogInv, TailRead
<1>2. /\ chars < m /\ m \in Nat /\ chars \in Nat /\ p \in 1 .. m
      /\ (question.maxlines > 0 => lineCount < question.maxlines - 1)
      /\ question.maxlines \in Int /\ lineCount \in Nat
  BY <1>1, QuestionFields DEF TailRead, TailDone, Enough, TailSoFar, TypeOK
<1>3. /\ b = seen[p] /\ b \in Bytes /\ lines' = <<Shown(b)>> \o lines /\ chars' = chars + 1
      /\ lineCount' = IF b \in NewLines /\ Len(lines) > 0 THEN lineCount + 1 ELSE lineCount
      /\ UNCHANGED <<file, at, question, seen, selected, started, answer>>
  BY <1>1, <1>2 DEF TailRead, Before, StillThere, TypeOK
<1> HIDE DEF b
<1>4. /\ lines' \in Seq(Text) /\ Len(lines') = chars + 1
      /\ \A i \in 1 .. chars + 1 : lines'[i] = IF i = 1 THEN Shown(b) ELSE lines[i - 1]
  <2>1. <<Shown(b)>> \in Seq(Text) /\ Len(<<Shown(b)>>) = 1 /\ <<Shown(b)>>[1] = Shown(b)
    BY <1>3, ShownIsText
  <2>2. lines \in Seq(Text) /\ Len(lines) = chars
    BY <1>1 DEF TypeOK, TailSoFar
  <2> QED
    BY <1>2, <1>3, <2>1, <2>2, ConcatProperties
<1>5. ShownFrom(lines', seen, p)
  <2>1. \A i \in 1 .. chars : lines[i] = Shown(seen[p + (i + 1) - 1])
    BY <1>1, <1>2 DEF ShownFrom, TailSoFar
  <2>2. ASSUME NEW i \in 1 .. chars + 1 PROVE lines'[i] = Shown(seen[p + i - 1])
    <3>1. CASE i = 1
      BY <1>2, <1>3, <1>4, <3>1
    <3>2. CASE i > 1
      <4>1. PICK j \in 1 .. chars : j = i - 1
        BY <1>2, <3>2
      <4>2. lines'[i] = lines[j] /\ j + 1 = i
        BY <1>4, <3>2, <4>1
      <4> QED
        BY <2>1, <4>2
    <3> QED
      BY <1>2, <3>1, <3>2
  <2> QED
    BY <1>4, <2>2 DEF ShownFrom
<1>6. lineCount' = Ends(seen, p, m - 1)
  <2>1. p \in Int /\ m - 1 \in Int /\ lineCount = Ends(seen, p + 1, m - 1)
    BY <1>1, <1>2 DEF TailSoFar
  <2>2. CASE chars = 0
    <3>1. Ends(seen, p, m - 1) = 0 /\ Ends(seen, p + 1, m - 1) = 0 /\ Len(lines) = 0
      BY <1>1, <1>2, <2>1, <2>2, EndsFinite DEF TailSoFar
    <3> QED
      BY <1>3, <2>1, <3>1
  <2>3. CASE chars > 0
    <3>1. Ends(seen, p, m - 1) = IF seen[p] \in NewLines THEN Ends(seen, p + 1, m - 1) + 1 ELSE Ends(seen, p + 1, m - 1)
      BY <1>2, <2>1, <2>3, EndsLeft
    <3> QED
      BY <1>1, <1>3, <2>1, <2>3, <3>1 DEF TailSoFar
  <2> QED
    BY <1>2, <2>2, <2>3
<1>7. question.maxlines > 0 => Ends(seen, p + 1, m - 1) <= question.maxlines - 2
  <2>1. lineCount = Ends(seen, p + 1, m - 1)
    BY <1>1, <1>2 DEF TailSoFar
  <2> QED
    BY <1>2, <2>1
<1>8. TailSoFar'
  <2>1. Len(seen') - chars' + 1 = p /\ Len(seen') - chars' + 2 = p + 1 /\ Len(seen') - 1 = m - 1
    BY <1>2, <1>3
  <2> QED
    BY <1>3, <1>4, <1>5, <1>6, <1>7, <2>1 DEF TailSoFar
<1>9. TypeOK'
  BY <1>1, <1>2, <1>3, <1>4 DEF TypeOK
<1> QED
  BY <1>1, <1>3, <1>8, <1>9 DEF LogInv, StillThere, AnswersOneMoment

(* One byte more for less.                                                 *)
LEMMA LessReads ==
  ASSUME LogInv, LessRead
  PROVE  LogInv'
<1> DEFINE k == chars + 1
           b == file[k]
           L == Limit(question.maxlines)
           f == question.from
           wanted == lineCount >= f /\ selected < L
<1>1. /\ TypeOK /\ question \in Questions /\ at = "reading" /\ question.op = "less"
      /\ StillThere /\ LessSoFar
  BY DEF LogInv, LessRead
<1>2. /\ chars < Len(seen) /\ chars \in Nat /\ k \in 1 .. Len(seen) /\ (started \/ lines = <<>>)
      /\ f \in Nat /\ L \in Int /\ lineCount \in 0 .. chars /\ selected \in 0 .. lineCount
  BY <1>1, QuestionFields DEF LessRead, LessDone, TypeOK
<1>3. /\ b = seen[k] /\ b \in Bytes /\ chars' = k /\ started' = wanted
      /\ lineCount' = IF b \in NewLines THEN lineCount + 1 ELSE lineCount
      /\ selected' = IF b \in NewLines /\ wanted THEN selected + 1 ELSE selected
      /\ lines' = IF wanted THEN Append(lines, Shown(b)) ELSE lines
      /\ UNCHANGED <<file, at, question, seen, answer>>
  BY <1>1, <1>2 DEF LessRead, StillThere, TypeOK
<1>14. /\ wanted => started' = TRUE
       /\ ~wanted => started' = FALSE
  <2>1. started' = wanted
    BY <1>3
  <2>2. wanted \in BOOLEAN
    OBVIOUS
  <2> HIDE DEF wanted
  <2> QED
    BY <2>1, <2>2
<1> HIDE DEF b, L, f
<1>4. lineCount = Ends(seen, 1, chars)
  BY <1>1 DEF LessSoFar
<1>5. lineCount' = Ends(seen, 1, k)
  <2>1. k \in Int /\ 1 <= k /\ k - 1 = chars
    BY <1>2
  <2>2. Ends(seen, 1, k) = IF seen[k] \in NewLines THEN Ends(seen, 1, k - 1) + 1 ELSE Ends(seen, 1, k - 1)
    BY <2>1, EndsRight
  <2> QED
    BY <1>3, <1>4, <2>1, <2>2
<1>6. /\ lineCount <= f => selected = 0
      /\ lineCount > f => selected <= lineCount - f /\ (selected = lineCount - f \/ selected >= L)
  BY <1>1 DEF LessSoFar, f, L
<1>7. wanted <=> Wants(k)
  <2>1. k - 1 = chars
    BY <1>2
  <2>2. Wants(k) <=> lineCount >= f /\ lineCount < f + L
    BY <1>4, <2>1 DEF Wants, IsSelected, f, L
  <2> QED
    BY <1>2, <1>6, <2>2
<1>8. /\ lineCount' <= f => selected' = 0
      /\ lineCount' > f => selected' <= lineCount' - f /\ (selected' = lineCount' - f \/ selected' >= L)
  BY <1>2, <1>3, <1>6
<1>9. /\ LastWanted = chars /\ lines \in Seq(Text) /\ Len(lines) \in Nat /\ Len(lines) <= chars
      /\ ShownFrom(lines, seen, chars - Len(lines) + 1)
      /\ \A j \in 1 .. chars : Wants(j) <=> j \in (chars - Len(lines) + 1) .. chars
      /\ (started => lines # <<>>)
  BY <1>1, <1>2 DEF LessSoFar, LastWanted, ShownFrom
<1>10. \A j : Wants(j)' <=> Wants(j)
  BY <1>3 DEF Wants, IsSelected
<1>11. /\ lines' \in Seq(Text) /\ started' \in BOOLEAN /\ (started' => lines' # <<>>)
       /\ Len(lines') <= LastWanted' /\ ShownFrom(lines', seen, LastWanted' - Len(lines') + 1)
       /\ \A j \in 1 .. k : Wants(j) <=> j \in (LastWanted' - Len(lines') + 1) .. LastWanted'
  <2>1. CASE wanted
    <3>1. /\ lines' \in Seq(Text) /\ lines' # <<>> /\ Len(lines') = Len(lines) + 1
          /\ \A i \in 1 .. Len(lines) : lines'[i] = lines[i]
          /\ lines'[Len(lines) + 1] = Shown(b)
      BY <1>3, <1>9, <2>1, ShownIsText, AppendProperties
    <3>2. LastWanted' = k /\ k - Len(lines') + 1 = chars - Len(lines) + 1
      BY <1>2, <1>3, <1>9, <1>14, <2>1, <3>1 DEF LastWanted
    <3>3. ShownFrom(lines', seen, chars - Len(lines) + 1)
      BY <1>2, <1>3, <1>9, <3>1 DEF ShownFrom
    <3>4. \A j \in 1 .. k : Wants(j) <=> j \in (chars - Len(lines) + 1) .. k
      BY <1>2, <1>7, <1>9, <2>1
    <3> QED
      BY <1>2, <1>3, <1>9, <1>14, <2>1, <3>1, <3>2, <3>3, <3>4
  <2>2. CASE ~wanted /\ lines # <<>>
    <3>1. LastWanted' = chars /\ lines' = lines
      BY <1>2, <1>3, <1>14, <2>2 DEF LastWanted
    <3>2. \A j \in 1 .. k : Wants(j) <=> j \in (chars - Len(lines) + 1) .. chars
      BY <1>2, <1>7, <1>9, <2>2
    <3> QED
      BY <1>3, <1>9, <1>14, <2>2, <3>1, <3>2
  <2>3. CASE ~wanted /\ lines = <<>>
    <3>1. LastWanted' = k /\ lines' = <<>> /\ Len(lines') = 0
      BY <1>3, <2>3 DEF LastWanted
    <3>2. \A j \in 1 .. k : ~Wants(j)
      BY <1>2, <1>7, <1>9, <2>3
    <3>3. lines' \in Seq(Text) /\ ShownFrom(lines', seen, k - Len(lines') + 1)
      BY <1>9, <2>3, <3>1 DEF ShownFrom
    <3>4. \A j \in 1 .. k : j \notin (k - Len(lines') + 1) .. k
      BY <1>2, <3>1
    <3>5. started' = FALSE /\ Len(lines') <= k
      BY <1>2, <1>14, <2>3, <3>1
    <3> HIDE DEF k
    <3> QED
      BY <3>1, <3>2, <3>3, <3>4, <3>5
  <2> QED
    BY <2>1, <2>2, <2>3
<1>12. LessSoFar'
  BY <1>3, <1>5, <1>8, <1>10, <1>11 DEF LessSoFar, f, L
<1>13. TypeOK'
  <2>1. Len(lines') <= k
    BY <1>2, <1>3, <1>9, AppendProperties, <1>11
  <2> QED
    BY <1>1, <1>2, <1>3, <1>11, <2>1 DEF TypeOK
<1> QED
  BY <1>1, <1>3, <1>12, <1>13 DEF LogInv, StillThere, AnswersOneMoment

(* The answers.                                                            *)
LEMMA TailAnswers ==
  ASSUME LogInv, TailEnds
  PROVE  LogInv'
<1> DEFINE m == Len(seen)
           n == question.maxlines
           a == m - chars + 1
<1>1. /\ TypeOK /\ question \in Questions /\ question.op = "tail" /\ TailSoFar
      /\ at' = "idle" /\ answer' = IF lines # <<>> /\ Head(lines) \in NewLines THEN Tail(lines) ELSE lines
      /\ UNCHANGED <<file, question, seen, reading>>
  BY DEF LogInv, TailEnds, Replies
<1>2. /\ m \in Nat /\ n \in Int /\ chars \in 0 .. m /\ a \in Int
      /\ seen \in Seq(Bytes) /\ Len(lines) = chars /\ ShownFrom(lines, seen, a) /\ Len(seen) = m
  BY <1>1, QuestionFields DEF TypeOK, TailSoFar
<1>3. ReadsEnough(seen, m, n, chars, a)
  <2>1. chars >= m \/ (n > 0 /\ Ends(seen, a, m - 1) >= n - 1)
    BY <1>1, <1>2 DEF TailEnds, TailDone, Enough, TailSoFar
  <2>2. n > 0 /\ chars > 0 => Ends(seen, a + 1, m - 1) <= n - 2
    BY <1>1, <1>2 DEF TailSoFar
  <2> QED
    BY <1>2, <2>1, <2>2 DEF ReadsEnough
<1> HIDE DEF m, n, a
<1>4. answer' = Decoded(LastLines(seen, n))
  BY <1>1, <1>2, <1>3, LastLinesAre
<1>5. answer' \in Seq(Text)
  BY <1>1 DEF TypeOK
<1>6. TypeOK'
  BY <1>1, <1>5 DEF TypeOK, reading
<1> QED
  BY <1>1, <1>4, <1>6 DEF LogInv, AnswersOneMoment, n

LEMMA LessAnswers ==
  ASSUME LogInv, LessEnds
  PROVE  LogInv'
<1> DEFINE f == question.from
           n == question.maxlines
           e == LastWanted
<1>1. /\ TypeOK /\ question \in Questions /\ question.op = "less" /\ LessSoFar
      /\ at' = "idle" /\ answer' = SubSeq(lines, 1, Len(lines) - 1)
      /\ UNCHANGED <<file, question, seen, reading>>
  BY DEF LogInv, LessEnds, Replies
<1>2. /\ f \in Nat /\ n \in Int /\ Limit(n) \in Int /\ seen \in Seq(Bytes) /\ Len(seen) \in Nat
      /\ chars \in 0 .. Len(seen) /\ lines \in Seq(Text) /\ Len(lines) \in Nat /\ (lines = <<>> <=> Len(lines) = 0)
      /\ e \in 0 .. Len(seen) /\ Len(lines) <= e /\ ShownFrom(lines, seen, e - Len(lines) + 1)
  BY <1>1, QuestionFields DEF TypeOK, LessSoFar, LastWanted
<1>3. \A k \in 1 .. Len(seen) : IsSelected(seen, f, n, k) <=> k \in (e - Len(lines) + 1) .. e
  <2>1. \A k \in 1 .. chars : Wants(k) <=> k \in (e - Len(lines) + 1) .. e
    BY <1>1 DEF LessSoFar
  <2>2. ASSUME NEW k \in 1 .. Len(seen), k > chars PROVE ~Wants(k) /\ k > e
    <3>1. ~started /\ lines # <<>> /\ e = chars - 1
      BY <1>1, <1>2, <2>2 DEF LessEnds, LessDone, LastWanted
    <3>2. e \in 1 .. chars /\ chars \in 1 .. chars /\ Wants(e) /\ ~Wants(chars)
      BY <1>2, <2>1, <3>1
    <3>3. e - 1 \in Int /\ chars - 1 \in Int /\ k - 1 \in Int /\ e - 1 <= chars - 1 /\ chars - 1 <= k - 1
      BY <1>2, <2>2, <3>1
    <3>4. /\ Ends(seen, 1, e - 1) <= Ends(seen, 1, chars - 1) /\ Ends(seen, 1, chars - 1) <= Ends(seen, 1, k - 1)
          /\ Ends(seen, 1, e - 1) \in Nat /\ Ends(seen, 1, chars - 1) \in Nat /\ Ends(seen, 1, k - 1) \in Nat
      BY <3>3, EndsMonotonic, EndsFinite
    <3> QED
      BY <1>2, <2>2, <3>1, <3>2, <3>4 DEF Wants, IsSelected
  <2> QED
    BY <1>2, <2>1, <2>2 DEF Wants
<1>4. answer' = Decoded(SomeLines(seen, f, n))
  <2>1. ShowsSelected(seen, f, n, e, lines)
    BY <1>2, <1>3 DEF ShowsSelected
  <2> HIDE DEF f, n, e
  <2> QED
    BY <1>1, <2>1, SomeLinesAre
<1>5. answer' \in Seq(Text)
  BY <1>1 DEF TypeOK
<1>6. TypeOK'
  BY <1>1, <1>5 DEF TypeOK, reading
<1> QED
  BY <1>1, <1>4, <1>6 DEF LogInv, AnswersOneMoment

-----------------------------------------------------------------------------
LEMMA LogInvCorrect == Spec => []LogInv
<1>1. Init => LogInv
  <2> SUFFICES ASSUME Init PROVE LogInv
    OBVIOUS
  <2>1. <<>> \in Seq(Bytes) /\ <<>> \in Seq(Text) /\ Len(<<>>) = 0
    OBVIOUS
  <2>2. /\ seen \in Seq(Bytes) /\ lines \in Seq(Text) /\ Len(seen) = 0 /\ Len(lines) = 0
        /\ file \in {NoFile} \cup Seq(Bytes)
    BY <2>1 DEF Init
  <2>3. TypeOK
    <3>1. at \in {"idle", "sizing", "opening", "reading"} /\ question \in Questions \cup {NoQuestion}
      BY DEF Init
    <3>2. /\ chars \in 0 .. Len(seen) /\ Len(lines) <= chars
          /\ lineCount \in 0 .. chars /\ selected \in 0 .. lineCount
      BY <2>2 DEF Init
    <3>3. started \in BOOLEAN /\ answer \in {Nothing} \cup Seq(Text)
      BY DEF Init
    <3> QED
      BY <2>2, <3>1, <3>2, <3>3 DEF TypeOK
  <2> QED
    BY <2>3 DEF Init, LogInv, AnswersOneMoment
<1>2. LogInv /\ [Next]_vars => LogInv'
  <2> SUFFICES ASSUME LogInv, [Next]_vars PROVE LogInv'
    OBVIOUS
  <2>1. ASSUME NEW b \in Bytes, Grow(b) PROVE LogInv'
    <3>1. /\ file' = IF file = NoFile THEN <<b>> ELSE Append(file, b)
          /\ UNCHANGED <<at, question, seen, chars, lines, lineCount, selected, started, answer>>
      BY <2>1 DEF Grow, reading
    <3>2. file' \in Seq(Bytes)
      BY <2>1, <3>1 DEF LogInv, TypeOK
    <3>3. TypeOK'
      BY <3>1, <3>2 DEF LogInv, TypeOK
    <3>4. file' # NoFile
      BY <3>2, LogAssumption DEF Bytes
    <3>5. StillThere => StillThere'
      <4>1. SUFFICES ASSUME StillThere PROVE StillThere'
        OBVIOUS
      <4>2. file \in Seq(Bytes) /\ file' = Append(file, b)
        BY <3>1, <4>1, FileIsBytes DEF StillThere, LogInv
      <4>3. /\ Len(file') = Len(file) + 1
            /\ \A i \in 1 .. Len(file) : file'[i] = file[i]
        BY <4>2, <2>1, AppendProperties
      <4> QED
        BY <3>1, <3>4, <4>1, <4>2, <4>3 DEF StillThere, LogInv, TypeOK
    <3>6. /\ Fresh' = Fresh /\ TailSoFar' = TailSoFar /\ AnswersOneMoment' = AnswersOneMoment
      BY <3>1 DEF Fresh, TailSoFar, AnswersOneMoment
    <3>7. LessSoFar' = LessSoFar
      BY <3>1 DEF LessSoFar, LastWanted, Wants
    <3> QED
      BY <3>1, <3>3, <3>4, <3>5, <3>6, <3>7 DEF LogInv
  <2>2. ASSUME NEW q \in Questions, Ask(q) PROVE LogInv'
    BY <2>2 DEF Ask, reading, LogInv, TypeOK, AnswersOneMoment
  <2>3. CASE AskForNothing
    BY <2>3 DEF AskForNothing, reading, LogInv, TypeOK, AnswersOneMoment
  <2>4. CASE Stat
    <3>1. file \in Seq(Bytes) /\ seen' = file /\ file' = file /\ at' = "opening" /\ question' = question
      BY <2>4, FileIsBytes DEF Stat, LogInv
    <3>2. TypeOK'
      <4>1. chars' = 0 /\ lineCount' = 0 /\ selected' = 0 /\ started' = FALSE /\ answer' = answer
        BY <2>4 DEF Stat
      <4>2. lines' \in Seq(Text) /\ Len(lines') = 0 /\ Len(seen') \in Nat
        BY <2>4, <3>1 DEF Stat
      <4>3. question \in Questions /\ answer \in {Nothing} \cup Seq(Text)
        BY <2>4 DEF Stat, LogInv, TypeOK
      <4>4. /\ chars' \in 0 .. Len(seen') /\ Len(lines') <= chars'
            /\ lineCount' \in 0 .. chars' /\ selected' \in 0 .. lineCount'
        BY <4>1, <4>2
      <4>5. started' \in BOOLEAN
        BY <4>1
      <4> QED
        BY <3>1, <4>1, <4>2, <4>3, <4>4, <4>5 DEF TypeOK
    <3> QED
      BY <2>4, <3>1, <3>2 DEF Stat, LogInv, StillThere, Fresh, AnswersOneMoment, TypeOK
  <2>5. CASE Open
    <3>1. Fresh /\ question \in Questions /\ TypeOK /\ StillThere
      BY <2>5 DEF Open, LogInv
    <3>2. at' = "reading" /\ UNCHANGED <<file, question, seen, chars, lines, lineCount, selected, started, answer>>
      BY <2>5 DEF Open, reading
    <3>3. question.op = "tail" => TailSoFar'
      <4>1. Len(seen) \in Nat /\ Len(seen) - chars + 1 = Len(seen) + 1 /\ Len(seen) - 1 \in Int /\ Len(seen) + 1 \in Int
        BY <3>1 DEF Fresh, TypeOK
      <4>2. Ends(seen, Len(seen) + 1, Len(seen) - 1) = 0
        BY <4>1, EndsFinite
      <4> QED
        BY <3>1, <3>2, <4>1, <4>2 DEF TailSoFar, Fresh, ShownFrom
    <3>4. question.op = "less" => LessSoFar'
      <4>1. Ends(seen, 1, 0) = 0 /\ question.from \in Nat
        BY <3>1, EndsFinite, QuestionFields
      <4> QED
        BY <3>1, <3>2, <4>1 DEF LessSoFar, LastWanted, Fresh, ShownFrom
    <3>5. TypeOK' /\ StillThere' /\ AnswersOneMoment'
      BY <3>1, <3>2 DEF TypeOK, StillThere, AnswersOneMoment
    <3> QED
      BY <3>1, <3>2, <3>3, <3>4, <3>5 DEF LogInv, StillThere
  <2>6. CASE Fails
    BY <2>6 DEF Fails, reading, LogInv, TypeOK, AnswersOneMoment
  <2>7. CASE UNCHANGED vars
    <3>1. UNCHANGED <<file, at, question, seen, chars, lines, lineCount, selected, started, answer>>
      BY <2>7 DEF vars, reading
    <3> QED
      BY <3>1 DEF LogInv, TypeOK, StillThere, Fresh, TailSoFar, LessSoFar, LastWanted, Wants, AnswersOneMoment
  <2> QED
    BY <2>1, <2>2, <2>3, <2>4, <2>5, <2>6, <2>7, TailReads, TailAnswers, LessReads, LessAnswers DEF Next
<1> QED
  BY <1>1, <1>2, PTL DEF Spec

(* TypeOK holds throughout: no byte is counted that was not read, and no   *)
(* line twice (Helper.ts:65-67, 128-131).                                  *)
THEOREM TypeCorrect == Spec => []TypeOK
<1>1. LogInv => TypeOK
  BY DEF LogInv
<1> QED
  BY <1>1, LogInvCorrect, PTL

(* AnswersOneMoment: what tail and less answer is what their question      *)
(* selects of the file as it was at stat (Helper.ts:40-98, 101-167).       *)
THEOREM AnswersOneMomentCorrect == Spec => []AnswersOneMoment
<1>1. LogInv => AnswersOneMoment
  BY DEF LogInv
<1> QED
  BY <1>1, LogInvCorrect, PTL

-----------------------------------------------------------------------------
(* What a node has answered was so at some moment since the request came,  *)
(* and what it has listed includes all that ran at every such moment.      *)
AnswerIsTrue(n) ==
  answers[n] # Fault =>
    /\ demand.op \in Listings =>
         /\ answers[n] \subseteq Runs
         /\ \A t \in Runs : since[n][t] = {"running"} => t \in answers[n]
         /\ \A t \in Runs : t \in answers[n] => "running" \in since[n][t]
    /\ demand.op = "status" => answers[n] \in since[n][demand.run]
    /\ demand.op = "exec" => /\ answers[n] \in since[n][demand.run]
                             /\ answers[n] \in IF demand.wait THEN {"ended", "broken"} ELSE {"running"}

TasksInv ==
  /\ TasksTypeOK
  /\ since \in [Members -> [Runs -> SUBSET States]]
  /\ demand = NoDemand => executing = {} /\ DOMAIN answers = {}
  /\ executing # {} => demand.op = "exec" /\ demand.wait
  /\ demand # NoDemand /\ demand.op = "runningByNode" /\ demand.options.targetIds = Unset => asked = {demand.node}
  /\ \A n \in DOMAIN answers : AnswerIsTrue(n)

TasksPromises == ListsWhatRuns /\ StatusWasTrue /\ ExecutedOrThrown

-----------------------------------------------------------------------------
(* The fields of a request.                                                *)

LEMMA DemandFields ==
  ASSUME NEW d \in Demands
  PROVE  /\ d.op \in Listings \cup {"status", "log", "exec"}
         /\ d.op \in {"status", "log", "exec"} => d.run \in Runs
         /\ d.op \in {"runningByNode", "log"} => d.node \in Members
         /\ d.op # "exec" => /\ d.options.filterErrors \in {Unset} \cup BOOLEAN
                             /\ d.options.targetIds \in {Unset} \cup ((SUBSET Members) \ {{}})
         /\ d.op = "exec" => d.targetIds \subseteq Members
BY DEF Demands, Listings, Options

LEMMA AddressedType ==
  ASSUME NEW d \in Demands, NEW N \in Addressed(d)
  PROVE  /\ N \subseteq Members
         /\ d.op = "runningByNode" /\ d.options.targetIds = Unset => N = {d.node}
BY DemandFields DEF Addressed, Default, Listings

(* While a request waits, the states since then include the present ones.  *)
LEMMA BecomesGrows ==
  ASSUME TasksInv, Waiting, NEW n \in Members, NEW t \in Runs, NEW s \in States, Becomes(n, t, s)
  PROVE  /\ tasks' \in [Members -> [Runs -> States]]
         /\ since' \in [Members -> [Runs -> SUBSET States]]
         /\ s \in since'[n][t]
         /\ \A m \in Members, u \in Runs : /\ since[m][u] # {} /\ since[m][u] \subseteq since'[m][u]
                                           /\ tasks'[m][u] \in since'[m][u]
<1>1. /\ tasks \in [Members -> [Runs -> States]] /\ since \in [Members -> [Runs -> SUBSET States]]
      /\ \A m \in Members, u \in Runs : tasks[m][u] \in since[m][u]
  BY DEF TasksInv, TasksTypeOK
<1>2. /\ tasks' = [tasks EXCEPT ![n] = [tasks[n] EXCEPT ![t] = s]]
      /\ since' = [since EXCEPT ![n] = [since[n] EXCEPT ![t] = since[n][t] \cup {s}]]
  BY DEF Becomes
<1>3. /\ [tasks[n] EXCEPT ![t] = s] \in [Runs -> States]
      /\ [since[n] EXCEPT ![t] = since[n][t] \cup {s}] \in [Runs -> SUBSET States]
  BY <1>1
<1>4. \A m \in Members, u \in Runs :
        /\ tasks'[m][u] = IF m = n /\ u = t THEN s ELSE tasks[m][u]
        /\ since'[m][u] = IF m = n /\ u = t THEN since[n][t] \cup {s} ELSE since[m][u]
  BY <1>1, <1>2
<1>5. tasks' \in [Members -> [Runs -> States]] /\ since' \in [Members -> [Runs -> SUBSET States]]
  BY <1>1, <1>2, <1>3
<1> QED
  BY <1>1, <1>4, <1>5

(* More states since the request came do not make an answer untrue.        *)
LEMMA StaysTrue ==
  ASSUME TasksInv, Waiting, demand' = demand, NEW n \in Members, AnswerIsTrue(n), answers'[n] = answers[n],
         \A u \in Runs : since[n][u] # {} /\ since[n][u] \subseteq since'[n][u]
  PROVE  AnswerIsTrue(n)'
<1>1. demand \in Demands
  BY DEF TasksInv, TasksTypeOK, Waiting
<1> QED
  BY <1>1, DemandFields DEF AnswerIsTrue

LEMMA Heards ==
  ASSUME NEW n, NEW a, Heard(n, a)
  PROVE  /\ DOMAIN answers' = DOMAIN answers \cup {n} /\ answers'[n] = a
         /\ \A m \in DOMAIN answers \ {n} : answers'[m] = answers[m]
BY DEF Heard

-----------------------------------------------------------------------------
(* The steps.                                                              *)

(* Before there is a reply there is nothing to promise.                    *)
LEMMA NoReplyYet ==
  ASSUME response' = Unset
  PROVE  TasksPromises'
BY DEF TasksPromises, ListsWhatRuns, StatusWasTrue, ExecutedOrThrown, Listed

LEMMA DemandStep ==
  ASSUME TasksInv, NEW d \in Demands, Demand(d)
  PROVE  TasksInv' /\ TasksPromises'
<1>1. /\ demand = NoDemand /\ demand' = d /\ since' = [n \in Members |-> [t \in Runs |-> {tasks[n][t]}]]
      /\ UNCHANGED <<tasks, executing, answers, response>>
  BY DEF Demand
<1>2. PICK N \in Addressed(d) : asked' = N /\ pending' = N
  BY DEF Demand
<1>3. response = Unset /\ executing = {} /\ DOMAIN answers = {}
  BY <1>1 DEF TasksInv, TasksTypeOK
<1>4. N \subseteq Members /\ (d.op = "runningByNode" /\ d.options.targetIds = Unset => N = {d.node})
  BY AddressedType
<1>5. since' \in [Members -> [Runs -> SUBSET States]] /\ \A n \in Members, t \in Runs : tasks[n][t] \in since'[n][t]
  BY <1>1 DEF TasksInv, TasksTypeOK
<1>6. TasksTypeOK'
  BY <1>1, <1>2, <1>3, <1>4, <1>5 DEF TasksInv, TasksTypeOK
<1> QED
  BY <1>1, <1>2, <1>3, <1>4, <1>5, <1>6, NoReplyYet DEF TasksInv

(* A step that only hears of one more node, truly.                         *)
LEMMA HearsStep ==
  ASSUME TasksInv, Waiting, NEW n \in asked, NEW a, Heard(n, a), UNCHANGED <<exchange, response>>,
         tasks' \in [Members -> [Runs -> States]], since' \in [Members -> [Runs -> SUBSET States]],
         \A m \in Members, u \in Runs : /\ since[m][u] # {} /\ since[m][u] \subseteq since'[m][u]
                                        /\ tasks'[m][u] \in since'[m][u],
         pending' \subseteq pending \ {n}, executing' \subseteq executing \ {n},
         AnswerIsTrue(n)'
  PROVE  TasksInv' /\ TasksPromises'
<1>1. /\ DOMAIN answers' = DOMAIN answers \cup {n} /\ \A m \in DOMAIN answers \ {n} : answers'[m] = answers[m]
      /\ demand' = demand /\ asked' = asked /\ response' = response
  BY Heards DEF exchange
<1>2. \A m \in DOMAIN answers' : AnswerIsTrue(m)'
  <2>1. TAKE m \in DOMAIN answers'
  <2>2. CASE m = n
    BY <2>2
  <2>3. CASE m # n
    <3>1. m \in DOMAIN answers /\ m \in Members /\ AnswerIsTrue(m) /\ answers'[m] = answers[m]
      BY <1>1, <2>3 DEF TasksInv, TasksTypeOK
    <3> QED
      BY <1>1, <3>1, StaysTrue
  <2> QED
    BY <2>2, <2>3
<1>3. TasksTypeOK'
  BY <1>1 DEF TasksInv, TasksTypeOK, Waiting
<1>4. TasksPromises'
  BY <1>1, NoReplyYet DEF Waiting
<1>5. demand # NoDemand
  BY DEF Waiting
<1> QED
  BY <1>1, <1>2, <1>3, <1>4, <1>5 DEF TasksInv

(* A step of a node that is not heard of.                                  *)
LEMMA QuietStep ==
  ASSUME TasksInv, Waiting, UNCHANGED <<exchange, answers, response>>,
         tasks' \in [Members -> [Runs -> States]], since' \in [Members -> [Runs -> SUBSET States]],
         \A m \in Members, u \in Runs : /\ since[m][u] # {} /\ since[m][u] \subseteq since'[m][u]
                                        /\ tasks'[m][u] \in since'[m][u],
         pending' \subseteq pending, executing' \subseteq (executing \cup pending) \ pending',
         executing' # {} => demand.op = "exec" /\ demand.wait
  PROVE  TasksInv' /\ TasksPromises'
<1>1. demand' = demand /\ asked' = asked /\ response' = response /\ answers' = answers
  BY DEF exchange
<1>2. \A m \in DOMAIN answers' : AnswerIsTrue(m)'
  <2>1. TAKE m \in DOMAIN answers'
  <2>2. m \in Members /\ AnswerIsTrue(m) /\ answers'[m] = answers[m]
    BY <1>1 DEF TasksInv, TasksTypeOK
  <2> QED
    BY <1>1, <2>2, StaysTrue
<1>3. TasksPromises'
  BY <1>1, NoReplyYet DEF Waiting
<1>4. demand # NoDemand
  BY DEF Waiting
<1> QED
  BY <1>1, <1>2, <1>3, <1>4 DEF TasksInv, TasksTypeOK, Waiting

LEMMA RunSteps ==
  ASSUME TasksInv, NEW n \in Members, NEW t \in Runs,
         Begins(n, t) \/ \E s \in States : EndsRun(n, t, s)
  PROVE  TasksInv' /\ TasksPromises'
<1>1. Waiting /\ demand \in Demands
  BY DEF Begins, EndsRun, Concerns, TasksInv, TasksTypeOK, Waiting
<1>2. CASE Begins(n, t)
  <2>1. Becomes(n, t, "running") /\ UNCHANGED <<exchange, pending, executing, answers, response>>
    BY <1>2 DEF Begins
  <2> QED
    BY <1>1, <2>1, BecomesGrows, QuietStep DEF States, TasksInv, TasksTypeOK
<1>3. ASSUME NEW s \in States, EndsRun(n, t, s) PROVE TasksInv' /\ TasksPromises'
  <2>1. /\ Becomes(n, t, s) /\ UNCHANGED <<exchange, pending, response>>
        /\ s \in IF demand.op = "exec" THEN {"ended", "broken"} ELSE {"ended"}
    BY <1>3 DEF EndsRun
  <2>2. CASE n \in executing /\ t = demand.run
    <3>1. executing' = executing \ {n} /\ Heard(n, s)
      BY <1>3, <2>2 DEF EndsRun
    <3>2. demand.op = "exec" /\ demand.wait /\ n \in asked /\ n \notin pending
      BY <2>2 DEF TasksInv, TasksTypeOK
    <3>3. s \in since'[n][t] /\ answers'[n] = s /\ demand' = demand
      BY <1>1, <2>1, <3>1, BecomesGrows, Heards DEF exchange
    <3>4. AnswerIsTrue(n)'
      BY <2>1, <2>2, <3>2, <3>3 DEF AnswerIsTrue, Listings
    <3> QED
      BY <1>1, <2>1, <3>1, <3>2, <3>4, BecomesGrows, HearsStep
  <2>3. CASE ~(n \in executing /\ t = demand.run)
    <3>1. UNCHANGED <<executing, answers>>
      BY <1>3, <2>3 DEF EndsRun
    <3> QED
      BY <1>1, <2>1, <3>1, BecomesGrows, QuietStep DEF TasksInv, TasksTypeOK
  <2> QED
    BY <2>2, <2>3
<1> QED
  BY <1>2, <1>3

(* Nothing happens to the tasks when a node answers.                       *)
LEMMA StillTasks ==
  ASSUME TasksInv, Waiting, UNCHANGED <<tasks, since>>
  PROVE  /\ tasks' \in [Members -> [Runs -> States]] /\ since' \in [Members -> [Runs -> SUBSET States]]
         /\ \A m \in Members, u \in Runs : /\ since[m][u] # {} /\ since[m][u] \subseteq since'[m][u]
                                           /\ tasks'[m][u] \in since'[m][u]
BY DEF TasksInv, TasksTypeOK

LEMMA NodeSteps ==
  ASSUME TasksInv, NEW n \in Members, Answers(n) \/ Executes(n) \/ Faults(n)
  PROVE  TasksInv' /\ TasksPromises'
<1>1. Waiting /\ demand \in Demands /\ n \in pending /\ n \in asked /\ n \notin executing
  BY DEF Answers, Executes, Faults, TasksInv, TasksTypeOK, Waiting
<1>2. CASE Answers(n)
  <2>1. /\ demand.op # "exec" /\ pending' = pending \ {n} /\ Heard(n, Known(n))
        /\ UNCHANGED <<tasks, exchange, executing, since, response>>
    BY <1>2 DEF Answers
  <2>2. answers'[n] = Known(n) /\ demand' = demand
    BY <2>1, Heards DEF exchange
  <2>3. AnswerIsTrue(n)'
    <3>1. \A t \in Runs : tasks[n][t] \in since[n][t]
      BY <1>1 DEF TasksInv, TasksTypeOK
    <3>2. demand.op = "status" => demand.run \in Runs
      BY <1>1, DemandFields
    <3>3. "status" \notin Listings
      BY DEF Listings
    <3> QED
      BY <1>1, <2>1, <2>2, <3>1, <3>2, <3>3 DEF AnswerIsTrue, Known
  <2> QED
    BY <1>1, <2>1, <2>3, StillTasks, HearsStep
<1>3. CASE Executes(n)
  <2>1. /\ demand.op = "exec" /\ Becomes(n, demand.run, "running") /\ pending' = pending \ {n}
        /\ UNCHANGED <<exchange, response>> /\ demand.run \in Runs
    BY <1>1, <1>3, DemandFields DEF Executes
  <2>2. CASE demand.wait
    <3>1. executing' = executing \cup {n} /\ UNCHANGED answers
      BY <1>3, <2>2 DEF Executes
    <3>2. executing' \subseteq (executing \cup pending) \ pending'
      BY <1>1, <2>1, <3>1 DEF TasksInv, TasksTypeOK
    <3> QED
      BY <1>1, <2>1, <2>2, <3>1, <3>2, BecomesGrows, QuietStep DEF States
  <2>3. CASE ~demand.wait
    <3>1. UNCHANGED executing /\ Heard(n, "running")
      BY <1>3, <2>3 DEF Executes
    <3>2. PICK t \in Runs : t = demand.run
      BY <2>1
    <3>3. "running" \in since'[n][t] /\ answers'[n] = "running" /\ demand' = demand
      BY <1>1, <2>1, <3>1, <3>2, BecomesGrows, Heards DEF exchange, States
    <3>4. AnswerIsTrue(n)'
      BY <2>1, <2>3, <3>2, <3>3 DEF AnswerIsTrue, Listings
    <3> QED
      BY <1>1, <2>1, <3>1, <3>4, BecomesGrows, HearsStep DEF States
  <2> QED
    BY <2>2, <2>3
<1>4. CASE Faults(n)
  <2>1. /\ pending' = pending \ {n} /\ Heard(n, Fault)
        /\ UNCHANGED <<tasks, exchange, executing, since, response>>
    BY <1>4 DEF Faults
  <2>2. AnswerIsTrue(n)'
    BY <2>1, Heards DEF AnswerIsTrue
  <2> QED
    BY <1>1, <2>1, <2>2, StillTasks, HearsStep
<1> QED
  BY <1>2, <1>3, <1>4

(* A reply leaves the rest as it is.                                       *)
LEMMA ReplyFrame ==
  ASSUME TasksInv, NEW x, Responds(x)
  PROVE  /\ TasksInv' /\ response' = x /\ demand \in Demands
         /\ UNCHANGED <<tasks, demand, asked, pending, executing, answers, since>>
<1>1. Waiting /\ response' = x /\ UNCHANGED <<tasks, demand, asked, pending, executing, answers, since>>
  BY DEF Responds, exchange
<1>2. TasksTypeOK' /\ demand \in Demands
  BY <1>1 DEF TasksInv, TasksTypeOK, Waiting
<1>3. \A n \in DOMAIN answers' : AnswerIsTrue(n)'
  BY <1>1 DEF TasksInv, AnswerIsTrue
<1> QED
  BY <1>1, <1>2, <1>3 DEF TasksInv

LEMMA FailedPromises ==
  ASSUME response' = [kind |-> "failed"] \/ \E e : response' = Apart(e)
  PROVE  TasksPromises'
<1>1. response'.kind \in {"failed", "map"}
  BY DEF Apart
<1> QED
  BY <1>1 DEF TasksPromises, ListsWhatRuns, StatusWasTrue, ExecutedOrThrown, Listed

LEMMA ListingReply ==
  ASSUME TasksInv, getRunningTasks
  PROVE  TasksInv' /\ TasksPromises'
<1>1. Waiting /\ demand.op \in Listings /\ demand \in Demands
  BY DEF getRunningTasks, TasksInv, TasksTypeOK, Waiting
<1>2. CASE ~OnlyValue(demand)
  BY <1>2, ReplyFrame, FailedPromises DEF getRunningTasks
<1>3. CASE OnlyValue(demand)
  <2>1. PICK x : x = [kind |-> "list", entries |-> Joined, errors |-> ShownFaults]
    OBVIOUS
  <2>2. Responds(x)
    BY <1>3, <2>1 DEF getRunningTasks
  <2>3. /\ TasksInv' /\ response' = x
        /\ UNCHANGED <<tasks, demand, asked, pending, executing, answers, since>>
    BY <2>2, ReplyFrame
  <2>4. /\ \A n \in Sound, t \in Runs : since[n][t] = {"running"} => t \in x.entries
        /\ \A t \in x.entries : \E n \in Sound : "running" \in since[n][t]
    <3>1. \A n \in Sound : /\ answers[n] \subseteq Runs
                           /\ \A t \in Runs : since[n][t] = {"running"} => t \in answers[n]
                           /\ \A t \in answers[n] : "running" \in since[n][t]
      BY <1>1 DEF TasksInv, AnswerIsTrue, Sound, Faulty
    <3> QED
      BY <2>1, <3>1 DEF Joined
  <2>5. Sound \subseteq IF demand.op = "runningByNode" /\ demand.options.targetIds = Unset THEN {demand.node} ELSE Members
    BY <1>1 DEF TasksInv, TasksTypeOK, Sound, Waiting
  <2>6. x.errors # {} => demand.options.filterErrors = FALSE
    <3>1. demand.options.filterErrors \in {Unset} \cup BOOLEAN
      BY <1>1, DemandFields DEF Listings
    <3>2. demand.op # "log"
      BY <1>1 DEF Listings
    <3>3. x.errors # {} => ~FilterErrors(demand)
      BY <2>1 DEF ShownFaults
    <3> QED
      BY <3>1, <3>2, <3>3 DEF FilterErrors, Default
  <2>7. ListsWhatRuns'
    BY <2>3, <2>4, <2>5, <2>6 DEF ListsWhatRuns, Sound, Faulty
  <2>8. StatusWasTrue' /\ ExecutedOrThrown'
    BY <1>1, <2>3 DEF StatusWasTrue, ExecutedOrThrown, Listed, Listings
  <2> QED
    BY <2>3, <2>7, <2>8 DEF TasksPromises
<1> QED
  BY <1>2, <1>3

LEMMA StatusReply ==
  ASSUME TasksInv, getTaskStatus
  PROVE  TasksInv' /\ TasksPromises'
<1>1. Waiting /\ demand.op = "status" /\ demand \in Demands
  BY DEF getTaskStatus, TasksInv, TasksTypeOK, Waiting
<1>2. CASE ~OnlyValue(demand)
  BY <1>2, ReplyFrame, FailedPromises DEF getTaskStatus
<1>3. CASE OnlyValue(demand)
  <2>1. PICK x : x = [kind |-> "list", entries |-> Statuses, errors |-> ShownFaults]
    OBVIOUS
  <2>2. Responds(x)
    BY <1>3, <2>1 DEF getTaskStatus
  <2>3. /\ TasksInv' /\ response' = x
        /\ UNCHANGED <<tasks, demand, asked, pending, executing, answers, since>>
    BY <2>2, ReplyFrame
  <2>4. \A s \in x.entries : s # "new" /\ \E n \in Members : s \in since[n][demand.run]
    <3>1. \A n \in Sound : n \in Members /\ answers[n] \in since[n][demand.run]
      BY <1>1 DEF TasksInv, TasksTypeOK, AnswerIsTrue, Sound, Faulty
    <3> QED
      BY <2>1, <3>1 DEF Statuses
  <2>5. StatusWasTrue'
    BY <1>1, <2>3, <2>4 DEF StatusWasTrue, Listed
  <2>6. ListsWhatRuns' /\ ExecutedOrThrown'
    BY <1>1, <2>3 DEF ListsWhatRuns, ExecutedOrThrown, Listed, Listings
  <2> QED
    BY <2>3, <2>5, <2>6 DEF TasksPromises
<1> QED
  BY <1>2, <1>3

LEMMA LogReply ==
  ASSUME TasksInv, getLogContent
  PROVE  TasksInv' /\ TasksPromises'
<1>1. Waiting /\ demand.op = "log" /\ demand \in Demands
  BY DEF getLogContent, TasksInv, TasksTypeOK, Waiting
<1>2. CASE ~OnlyValue(demand)
  BY <1>2, ReplyFrame, FailedPromises DEF getLogContent
<1>3. CASE OnlyValue(demand)
  <2>1. PICK x : x = [kind |-> "list", entries |-> {answers[n] : n \in Sound}, errors |-> ShownFaults]
    OBVIOUS
  <2>2. Responds(x)
    BY <1>3, <2>1 DEF getLogContent
  <2>3. /\ TasksInv' /\ response' = x
        /\ UNCHANGED <<tasks, demand, asked, pending, executing, answers, since>>
    BY <2>2, ReplyFrame
  <2>4. Faulty \subseteq x.errors \/ demand.options.filterErrors = TRUE
    <3>1. demand.options.filterErrors \in {Unset} \cup BOOLEAN
      BY <1>1, DemandFields
    <3>2. x.errors = Faulty \/ FilterErrors(demand)
      BY <2>1 DEF ShownFaults
    <3> QED
      BY <1>1, <3>1, <3>2 DEF FilterErrors, Default
  <2>5. StatusWasTrue'
    BY <1>1, <2>3, <2>4 DEF StatusWasTrue, Listed, Faulty
  <2>6. ListsWhatRuns' /\ ExecutedOrThrown'
    BY <1>1, <2>3 DEF ListsWhatRuns, ExecutedOrThrown, Listed, Listings
  <2> QED
    BY <2>3, <2>5, <2>6 DEF TasksPromises
<1> QED
  BY <1>2, <1>3

LEMMA ExecutionReply ==
  ASSUME TasksInv, executeTask
  PROVE  TasksInv' /\ TasksPromises'
<1>1. Waiting /\ demand.op = "exec" /\ demand \in Demands
  BY DEF executeTask, TasksInv, TasksTypeOK, Waiting
<1>2. CASE ~(demand.skipThrow \/ Errors = {})
  BY <1>2, ReplyFrame, FailedPromises DEF executeTask
<1>3. CASE demand.skipThrow \/ Errors = {}
  <2>1. PICK x : x = [kind |-> "events", of |-> answers]
    OBVIOUS
  <2>2. Responds(x)
    BY <1>3, <2>1 DEF executeTask
  <2>3. /\ TasksInv' /\ response' = x
        /\ UNCHANGED <<tasks, demand, asked, pending, executing, answers, since>>
    BY <2>2, ReplyFrame
  <2>4. ASSUME ~demand.skipThrow, NEW n \in DOMAIN answers
        PROVE  IF demand.wait THEN answers[n] # Fault => "ended" \in since[n][demand.run]
               ELSE "running" \in since[n][demand.run]
    <3>1. answers[n] # IF demand.wait THEN "broken" ELSE Fault
      BY <1>3, <2>4 DEF Errors
    <3>2. AnswerIsTrue(n)
      BY DEF TasksInv
    <3> QED
      BY <1>1, <3>1, <3>2 DEF AnswerIsTrue
  <2>5. ExecutedOrThrown'
    BY <1>1, <2>1, <2>3, <2>4 DEF ExecutedOrThrown
  <2>6. ListsWhatRuns' /\ StatusWasTrue'
    BY <1>1, <2>3 DEF ListsWhatRuns, StatusWasTrue, Listed, Listings
  <2> QED
    BY <2>3, <2>5, <2>6 DEF TasksPromises
<1> QED
  BY <1>2, <1>3

LEMMA TasksPromisesCorrect == TasksSpec => [](TasksInv /\ TasksPromises)
<1>1. TasksInit => TasksInv /\ TasksPromises
  <2> SUFFICES ASSUME TasksInit PROVE TasksInv /\ TasksPromises
    OBVIOUS
  <2>1. response = Unset /\ DOMAIN answers = {}
    BY DEF TasksInit
  <2>2. TasksInv
    BY <2>1 DEF TasksInit, TasksInv, TasksTypeOK, Waiting, States
  <2> QED
    BY <2>1, <2>2 DEF TasksPromises, ListsWhatRuns, StatusWasTrue, ExecutedOrThrown, Listed
<1>2. TasksInv /\ TasksPromises /\ [TasksNext]_tasksVars => (TasksInv /\ TasksPromises)'
  <2> SUFFICES ASSUME TasksInv, TasksPromises, [TasksNext]_tasksVars PROVE TasksInv' /\ TasksPromises'
    OBVIOUS
  <2>1. CASE UNCHANGED tasksVars
    BY <2>1 DEF tasksVars, exchange, TasksInv, TasksTypeOK, Waiting, AnswerIsTrue,
                TasksPromises, ListsWhatRuns, StatusWasTrue, ExecutedOrThrown, Listed, Sound, Faulty
  <2>2. CASE ExchangeRejects
    BY <2>2, ReplyFrame, FailedPromises DEF ExchangeRejects
  <2>3. CASE Answered
    BY <2>1, <2>3 DEF Answered
  <2> QED
    BY <2>1, <2>2, <2>3, DemandStep, RunSteps, NodeSteps, ListingReply, StatusReply, LogReply, ExecutionReply
    DEF TasksNext
<1> QED
  BY <1>1, <1>2, PTL DEF TasksSpec

(* Nodes answer only what they were asked, once, and the states that are   *)
(* remembered of a request include the present ones, for any nodes and     *)
(* tasks (TasksAPIController.ts:144-362).                                  *)
THEOREM TasksTypeCorrect == TasksSpec => []TasksTypeOK
BY TasksPromisesCorrect, PTL DEF TasksInv

(* A list of running tasks has every task that has run all the time on a   *)
(* node that answered and none that has run nowhere                        *)
(* (TasksAPIController.ts:298-362, Helper.ts:223-237).                     *)
THEOREM ListsWhatRunsCorrect == TasksSpec => []ListsWhatRuns
BY TasksPromisesCorrect, PTL DEF TasksPromises

(* A status is one that the run has had since it was asked for, and a log  *)
(* comes with the errors of the nodes unless they were to be left out      *)
(* (TasksAPIController.ts:214-288).                                        *)
THEOREM StatusWasTrueCorrect == TasksSpec => []StatusWasTrue
BY TasksPromisesCorrect, PTL DEF TasksPromises

(* What executeTask does not throw has begun on every node that answered,  *)
(* and ended well where the end was waited for and there is a result       *)
(* (TasksAPIController.ts:144-191).                                        *)
THEOREM ExecutedOrThrownCorrect == TasksSpec => []ExecutedOrThrown
BY TasksPromisesCorrect, PTL DEF TasksPromises

-----------------------------------------------------------------------------
(* The readers and the tasks API side by side.                             *)

LEMMA LogPart == SideSpec => Spec
<1>1. SideInit => Init
  BY DEF SideInit
<1>2. [SideNext]_sideVars => [Next]_vars
  BY DEF SideNext, sideVars
<1> QED
  BY <1>1, <1>2, PTL DEF SideSpec, Spec

LEMMA TasksPart == SideSpec => TasksSpec
<1>1. SideInit => TasksInit
  BY DEF SideInit
<1>2. [SideNext]_sideVars => [TasksNext]_tasksVars
  BY DEF SideNext, sideVars
<1> QED
  BY <1>1, <1>2, PTL DEF SideSpec, TasksSpec

(* Files and tasks of any number and size: a log answer is of one moment of*)
(* the file, and what the tasks API answers was so since it was asked      *)
(* (Helper.ts:40-168, TasksAPIController.ts:76-365).                       *)
THEOREM LogsAndTasksCorrect ==
  SideSpec => [](/\ TypeOK /\ AnswersOneMoment
                 /\ TasksTypeOK /\ ListsWhatRuns /\ StatusWasTrue /\ ExecutedOrThrown)
BY LogPart, TasksPart, TypeCorrect, AnswersOneMomentCorrect, TasksTypeCorrect, ListsWhatRunsCorrect,
   StatusWasTrueCorrect, ExecutedOrThrownCorrect, PTL
=============================================================================
