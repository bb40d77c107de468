------------------------------- MODULE LogReader -------------------------------
(***************************************************************************)
(* Helper.tail and Helper.less (libs/Helper.ts): the last lines of a file, *)
(* or some lines from a given one on, read byte by byte with an await for  *)
(* every byte, while the file may grow.  Both take the size of the file    *)
(* once, before they open it.  Nothing in this program makes a log shorter,*)
(* so files only grow.                                                     *)
(***************************************************************************)
EXTENDS Integers, Sequences, FiniteSets

CONSTANTS
  Letters,   \* the bytes of one-byte characters that do not end a line
  Wide,      \* the bytes of characters of several bytes
  NewLines,  \* the bytes that end a line: \n, \r
  Garbled,   \* what such a byte becomes when it is decoded on its own
  MaxSize,   \* bound on the size of the file
  MaxLines,  \* bound on the numbers of lines that are asked for
  DefaultLines, \* how many lines the number 0 stands for in less
  NoFile, Nothing

ASSUME LogAssumption ==
  /\ MaxSize \in Nat /\ MaxLines \in Nat /\ DefaultLines \in Nat
  /\ Letters \cap NewLines = {} /\ Wide \cap NewLines = {} /\ Letters \cap Wide = {}
  /\ Garbled \notin NewLines
  /\ NoFile \notin Seq(Letters \cup Wide \cup NewLines)

Bytes     == Letters \cup Wide \cup NewLines

(* A byte is decoded on its own.                                           *)
Shown(b) == IF b \in Wide THEN Garbled ELSE b

Text      == Letters \cup NewLines \cup {Garbled}

Questions == [op : {"tail"}, from : {0}, maxlines : -1 .. MaxLines]
               \cup [op : {"less"}, from : 0 .. MaxLines, maxlines : -1 .. MaxLines]
NoQuestion == [op |-> "none", from |-> 0, maxlines |-> -1]

VARIABLES
  file,       \* the contents of the file, or NoFile
  at,         \* where the reader is
  question,   \* what it was asked for
  seen,       \* the contents when stat was called; stat.size is its length
  chars,      \* how many bytes it has read
  lines,      \* what it has collected
  lineCount,  \* how many line ends it has passed
  selected,   \* less: lineSelectedCount
  started,    \* less: the last byte was wanted
  answer      \* the last answer

reading == <<chars, lines, lineCount, selected, started>>
vars    == <<file, at, question, seen, reading, answer>>

(* What the reader has is no longer than what it has read of the file, and *)
(* no line is counted twice (Helper.ts:65-67, 128-131).                    *)
TypeOK ==
  /\ file \in {NoFile} \cup Seq(Bytes)
  /\ at \in {"idle", "sizing", "opening", "reading"}
  /\ question \in Questions \cup {NoQuestion}
  /\ seen \in Seq(Bytes)
  /\ chars \in 0 .. Len(seen)
  /\ lines \in Seq(Text) /\ Len(lines) <= chars
  /\ lineCount \in 0 .. chars /\ selected \in 0 .. lineCount
  /\ started \in BOOLEAN
  /\ answer \in {Nothing} \cup Seq(Text)

Init ==
  /\ file \in {NoFile, <<>>}
  /\ at = "idle" /\ question = NoQuestion
  /\ seen = <<>> /\ chars = 0 /\ lines = <<>> /\ lineCount = 0 /\ selected = 0 /\ started = FALSE
  /\ answer = Nothing

-----------------------------------------------------------------------------
(* A task writes to its log.                                               *)
Grow(b) ==
  /\ file # NoFile => Len(file) < MaxSize
  /\ file' = IF file = NoFile THEN <<b>> ELSE Append(file, b)
  /\ UNCHANGED <<at, question, seen, reading, answer>>

Ask(q) ==
  /\ at = "idle" /\ file # NoFile
  /\ at' = "sizing" /\ question' = q /\ answer' = Nothing
  /\ UNCHANGED <<file, seen, reading>>

(* existsSync finds no file: the call rejects.                             *)
AskForNothing ==
  /\ at = "idle" /\ file = NoFile
  /\ answer' = Nothing
  /\ UNCHANGED <<file, at, question, seen, reading>>

Stat_KeepsCounts ==
  /\ at = "sizing"
  /\ at' = "opening" /\ seen' = file
  /\ chars' = 0 /\ lines' = <<>> /\ started' = FALSE
  /\ UNCHANGED <<file, question, lineCount, selected, answer>>

Stat ==
  /\ at = "sizing"
  /\ at' = "opening" /\ seen' = file
  /\ chars' = 0 /\ lines' = <<>> /\ lineCount' = 0 /\ selected' = 0 /\ started' = FALSE
  /\ UNCHANGED <<file, question, answer>>

Open == at = "opening" /\ at' = "reading" /\ UNCHANGED <<file, question, seen, reading, answer>>

(* stat, open, read and close may fail: the call rejects, and a file whose *)
(* read has failed stays open.                                             *)
Fails ==
  /\ at # "idle"
  /\ at' = "idle" /\ question' = NoQuestion
  /\ UNCHANGED <<file, seen, reading, answer>>

Replies(s) ==
  /\ at' = "idle" /\ answer' = s
  /\ UNCHANGED <<file, question, seen, reading>>

-----------------------------------------------------------------------------
(* tail: from the last byte backwards.                                     *)

Enough(n) == lineCount >= n - 1 /\ n - 1 >= 0

(* Where it reads next: counted from the size that stat gave.              *)
Before_TheEndNow == Len(file) - chars
Before           == Len(seen) - chars

TailDone == Len(lines) >= Len(seen) \/ Enough(question.maxlines)

TailRead ==
  /\ at = "reading" /\ question.op = "tail" /\ ~TailDone
  /\ LET b == file[Before] IN
       /\ lines' = <<Shown(b)>> \o lines
       /\ lineCount' = IF b \in NewLines /\ Len(lines) > 0 THEN lineCount + 1 ELSE lineCount
  /\ chars' = chars + 1
  /\ UNCHANGED <<file, at, question, seen, selected, started, answer>>

TailEnds ==
  /\ at = "reading" /\ question.op = "tail" /\ TailDone
  /\ Replies(IF lines # <<>> /\ Head(lines) \in NewLines THEN Tail(lines) ELSE lines)

-----------------------------------------------------------------------------
(* less: from the first byte on; lines that are not wanted are read too.   *)

Limit(n) == IF n = 0 THEN DefaultLines ELSE n

LessDone == (~started /\ lines # <<>>) \/ chars >= Len(seen)

LessRead ==
  /\ at = "reading" /\ question.op = "less" /\ ~LessDone
  /\ LET b      == file[chars + 1]
         wanted == lineCount >= question.from /\ selected < Limit(question.maxlines)
     IN /\ started' = wanted
        /\ lineCount' = IF b \in NewLines THEN lineCount + 1 ELSE lineCount
        /\ selected' = IF b \in NewLines /\ wanted THEN selected + 1 ELSE selected
        /\ lines' = IF wanted THEN Append(lines, Shown(b)) ELSE lines
  /\ chars' = chars + 1
  /\ UNCHANGED <<file, at, question, seen, answer>>

LessEnds ==
  /\ at = "reading" /\ question.op = "less" /\ LessDone
  /\ Replies(SubSeq(lines, 1, Len(lines) - 1))

-----------------------------------------------------------------------------
Next ==
  \/ \E b \in Bytes : Grow(b)
  \/ \E q \in Questions : Ask(q)
  \/ AskForNothing \/ Stat \/ Open \/ Fails
  \/ TailRead \/ TailEnds \/ LessRead \/ LessEnds

Spec == Init /\ [][Next]_vars

-----------------------------------------------------------------------------
(* Properties.                                                             *)

Ends(s, i, j) == Cardinality({k \in i .. j : s[k] \in NewLines})

(* What is selected of s is one piece of it.                               *)
Piece(s, I) == IF I = {} THEN <<>>
               ELSE LET a == CHOOSE i \in I : \A j \in I : i <= j
                        z == CHOOSE i \in I : \A j \in I : i >= j
                    IN SubSeq(s, a, z)

Decoded(s) == [i \in DOMAIN s |-> Shown(s[i])]

(* tail(n) of s: the bytes with at most n - 2 line ends from them to the   *)
(* end, one that ends the file aside: n - 1 lines.  All of it without a    *)
(* number.  An empty first line of the file is lost.                       *)
LastLines(s, n) ==
  LET I == {i \in DOMAIN s : n <= 0 \/ Ends(s, i, Len(s) - 1) <= n - 2}
  IN Piece(s, IF 1 \in I /\ s[1] \in NewLines THEN I \ {1} ELSE I)

(* less(from, n) of s: the n lines from line `from' on, lines counted from *)
(* 0, up to the line end of the last, or what there is of them without its *)
(* last byte.                                                              *)
SomeLines(s, from, n) ==
  LET I == {i \in DOMAIN s : Ends(s, 1, i - 1) >= from /\ Ends(s, 1, i - 1) < from + Limit(n)}
      p == Piece(s, I)
  IN SubSeq(p, 1, Len(p) - 1)

(* An answer is what the file held when its size was taken, however much   *)
(* it grows between the reads of two bytes (Helper.ts:40-98, 101-167).     *)
AnswersOneMoment ==
  at = "idle" /\ question # NoQuestion /\ answer # Nothing =>
    answer = Decoded(IF question.op = "tail" THEN LastLines(seen, question.maxlines)
                     ELSE SomeLines(seen, question.from, question.maxlines))
=============================================================================
