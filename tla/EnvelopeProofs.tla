-------------------------- MODULE EnvelopeProofs --------------------------
(***************************************************************************)
(* Proofs about Envelope: for every message, an envelope that does not     *)
(* refuse it writes frames that read back as that message, and one that    *)
(* refuses it would have written frames that do not, but for a header with *)
(* a carriage return.                                                      *)
(***************************************************************************)
EXTENDS Envelope, FiniteSetTheorems, SequenceTheorems, WellFoundedInduction, TLAPS

------------------------------------------------------------------------------
(* Numbers: the least and the greatest of a set, and induction. *)

Less == {pair \in Nat \X Nat : pair[1] < pair[2]}

\* A set of numbers has a least one.
LEMMA LeastOf ==
  ASSUME NEW S \in SUBSET Nat, S # {}
  PROVE  Min(S) \in S /\ \A n \in S : Min(S) <= n
<1>1. IsWellFoundedOn(Less, Nat)
  BY NatLessThanWellFounded DEF OpToRel, Less
<1>2. PICK m \in S : \A n \in S : <<n, m>> \notin Less
  BY <1>1, WFMin
<1>3. ASSUME NEW n \in S
      PROVE  m <= n
  <2>1. n \in Nat /\ m \in Nat /\ <<n, m>> \notin Less
    BY <1>2
  <2> QED BY <2>1 DEF Less
<1> QED BY <1>3 DEF Min

\* A member below the others is the least.
LEMMA LeastIs ==
  ASSUME NEW S \in SUBSET Nat, NEW m \in S, \A n \in S : m <= n
  PROVE  Min(S) = m
<1>1. Min(S) \in S /\ Min(S) <= m
  BY LeastOf
<1>2. Min(S) \in Nat /\ m <= Min(S) /\ m \in Nat
  BY <1>1
<1> QED BY <1>1, <1>2

\* A set of numbers with a bound has a greatest one.
LEMMA GreatestOf ==
  ASSUME NEW S \in SUBSET Nat, S # {}, NEW bound \in Nat, \A n \in S : n <= bound
  PROVE  Max(S) \in S /\ \A n \in S : n <= Max(S)
<1> DEFINE T == {n \in Nat : bound - n \in S}
<1>1. \A n \in S : bound - n \in T
  OBVIOUS
<1>2. T # {} /\ T \in SUBSET Nat
  BY <1>1
<1> HIDE DEF T
<1>3. Min(T) \in T /\ \A n \in T : Min(T) <= n
  BY <1>2, LeastOf
<1>4. bound - Min(T) \in S /\ Min(T) \in Nat
  BY <1>3 DEF T
<1>5. \A n \in S : n <= bound - Min(T)
  BY <1>1, <1>3, <1>4
<1> QED BY <1>4, <1>5 DEF Max

\* A member above the others is the greatest.
LEMMA GreatestIs ==
  ASSUME NEW S \in SUBSET Nat, NEW m \in S, \A n \in S : n <= m
  PROVE  Max(S) = m
<1>1. Max(S) \in S /\ m <= Max(S)
  BY GreatestOf
<1>2. Max(S) \in Nat /\ Max(S) <= m /\ m \in Nat
  BY <1>1
<1> QED BY <1>1, <1>2

\* Induction, over the set of the numbers for which the claim holds.
LEMMA Induction ==
  ASSUME NEW S \in SUBSET Nat, 0 \in S, \A n \in S : n + 1 \in S
  PROVE  S = Nat
<1> SUFFICES ASSUME Nat \ S # {} PROVE FALSE
  OBVIOUS
<1> DEFINE m == Min(Nat \ S)
<1>1. m \in Nat \ S /\ \A n \in Nat \ S : m <= n
  BY LeastOf
<1> HIDE DEF m
<1>2. m - 1 \in Nat /\ m - 1 \in S
  BY <1>1
<1> QED BY <1>1, <1>2

------------------------------------------------------------------------------
(* Text. *)

Blank == {" ", "nl", "cr"}
Kept(text) == {i \in DOMAIN text : text[i] \notin Blank}

\* A piece of a text is a text, of the same characters.
LEMMA PieceOf ==
  ASSUME NEW text \in Seq(Chars), NEW a \in 1..Len(text) + 1, NEW b \in (a - 1)..Len(text)
  PROVE  /\ SubSeq(text, a, b) \in Seq(Chars)
         /\ Len(SubSeq(text, a, b)) = b - a + 1
         /\ \A i \in 1..(b - a + 1) : SubSeq(text, a, b)[i] = text[a + i - 1]
         /\ \A i \in DOMAIN SubSeq(text, a, b) : \E j \in DOMAIN text : SubSeq(text, a, b)[i] = text[j]
<1>1. Len(text) \in Nat /\ a \in Int /\ b \in Int /\ \A i \in a..b : i \in DOMAIN text /\ text[i] \in Chars
  OBVIOUS
<1>2. /\ SubSeq(text, a, b) \in Seq(Chars)
      /\ Len(SubSeq(text, a, b)) = IF a <= b THEN b - a + 1 ELSE 0
      /\ \A i \in 1..(b - a + 1) : SubSeq(text, a, b)[i] = text[a + i - 1]
  BY <1>1, SubSeqProperties
<1>3. Len(SubSeq(text, a, b)) = b - a + 1
  BY <1>1, <1>2
<1>4. ASSUME NEW i \in DOMAIN SubSeq(text, a, b)
      PROVE  \E j \in DOMAIN text : SubSeq(text, a, b)[i] = text[j]
  <2>1. i \in 1..(b - a + 1)
    BY <1>2, <1>3
  <2>2. a + i - 1 \in DOMAIN text
    BY <1>1, <2>1
  <2> QED BY <1>2, <2>1, <2>2
<1> QED BY <1>2, <1>3, <1>4

\* A piece of a text, by the places before and after it.
LEMMA PieceBetween ==
  ASSUME NEW text \in Seq(Chars), NEW i \in 0..Len(text), NEW e \in (i + 1)..(Len(text) + 1)
  PROVE  /\ SubSeq(text, i + 1, e - 1) \in Seq(Chars)
         /\ Len(SubSeq(text, i + 1, e - 1)) = e - i - 1
         /\ \A k \in 1..(e - i - 1) : SubSeq(text, i + 1, e - 1)[k] = text[i + k]
         /\ \A k \in DOMAIN SubSeq(text, i + 1, e - 1) :
              \E j \in DOMAIN text : SubSeq(text, i + 1, e - 1)[k] = text[j]
<1> DEFINE a == i + 1  b == e - 1
<1>1. Len(text) \in Nat /\ i \in Int /\ e \in Int
  OBVIOUS
<1>2. /\ a \in 1..Len(text) + 1 /\ b \in (a - 1)..Len(text) /\ b - a + 1 = e - i - 1
      /\ \A k \in 1..(e - i - 1) : a + k - 1 = i + k
  BY <1>1
<1> HIDE DEF a, b
<1>3. /\ SubSeq(text, a, b) \in Seq(Chars)
      /\ Len(SubSeq(text, a, b)) = b - a + 1
      /\ \A k \in 1..(b - a + 1) : SubSeq(text, a, b)[k] = text[a + k - 1]
      /\ \A k \in DOMAIN SubSeq(text, a, b) : \E j \in DOMAIN text : SubSeq(text, a, b)[k] = text[j]
  BY <1>2, PieceOf
<1>4. SubSeq(text, a, b) = SubSeq(text, i + 1, e - 1)
  BY DEF a, b
<1> QED BY <1>2, <1>3, <1>4

\* Two texts joined.
LEMMA JoinOf ==
  ASSUME NEW a \in Seq(Chars), NEW b \in Seq(Chars), NEW n, n = Len(a), NEW m, m = Len(b)
  PROVE  /\ a \o b \in Seq(Chars) /\ Len(a \o b) = n + m
         /\ \A i \in 1..n : (a \o b)[i] = a[i]
         /\ \A i \in 1..m : (a \o b)[n + i] = b[i]
<1> DEFINE joint == a \o b
<1>1. n \in Nat /\ m \in Nat
  OBVIOUS
<1>2. /\ joint \in Seq(Chars) /\ Len(joint) = n + m
      /\ \A i \in 1..n + m : joint[i] = IF i <= n THEN a[i] ELSE b[i - n]
  BY ConcatProperties
<1> HIDE DEF joint
<1>3. \A i \in 1..n : joint[i] = a[i]
  BY <1>1, <1>2
<1>4. ASSUME NEW i \in 1..m
      PROVE  joint[n + i] = b[i]
  <2>1. n + i \in 1..n + m /\ ~(n + i <= n) /\ n + i - n = i
    BY <1>1
  <2> QED BY <1>2, <2>1
<1> QED BY <1>2, <1>3, <1>4 DEF joint

\* Trim gives the piece between the first and the last character that is no blank.
LEMMA TrimIs ==
  ASSUME NEW text \in Seq(Chars),
         NEW a \in DOMAIN text, text[a] \notin Blank, \A i \in DOMAIN text : i < a => text[i] \in Blank,
         NEW b \in DOMAIN text, text[b] \notin Blank, \A i \in DOMAIN text : i > b => text[i] \in Blank
  PROVE  Trim(text) = SubSeq(text, a, b)
<1>1. a \in Kept(text) /\ b \in Kept(text) /\ Kept(text) \in SUBSET Nat
  BY DEF Kept
<1>2. \A i \in Kept(text) : a <= i /\ i <= b
  BY DEF Kept
<1>3. Min(Kept(text)) = a /\ Max(Kept(text)) = b
  BY <1>1, <1>2, LeastIs, GreatestIs
<1>4. Kept(text) = {i \in DOMAIN text : text[i] \notin {" ", "nl", "cr"}}
  BY DEF Kept, Blank
<1> QED BY <1>1, <1>3, <1>4 DEF Trim

\* What Trim gives is a piece of the text that begins and ends with no blank.
LEMMA TrimEnds ==
  ASSUME NEW text \in Seq(Chars)
  PROVE  /\ Trim(text) \in Seq(Chars)
         /\ \A i \in DOMAIN Trim(text) : \E j \in DOMAIN text : Trim(text)[i] = text[j]
         /\ Trim(text) # <<>> => Trim(text)[1] \notin Blank /\ Trim(text)[Len(Trim(text))] \notin Blank
         /\ (\A i \in DOMAIN text : text[i] \in Blank) <=> Trim(text) = <<>>
<1>1. Kept(text) = {i \in DOMAIN text : text[i] \notin {" ", "nl", "cr"}}
  BY DEF Kept, Blank
<1> Kept(text) \in SUBSET Nat
  BY DEF Kept
<1>2. CASE Kept(text) = {}
  <2>1. Trim(text) = <<>>
    BY <1>1, <1>2 DEF Trim
  <2>2. \A i \in DOMAIN text : text[i] \in Blank
    BY <1>2 DEF Kept
  <2> QED BY <2>1, <2>2
<1>3. CASE Kept(text) # {}
  <2> DEFINE a == Min(Kept(text))  b == Max(Kept(text))
  <2>1. a \in Kept(text) /\ \A n \in Kept(text) : a <= n
    BY <1>1, <1>3, LeastOf
  <2>2. Len(text) \in Nat /\ \A n \in Kept(text) : n <= Len(text)
    BY DEF Kept
  <2>3. b \in Kept(text)
    BY <1>1, <1>3, <2>2, GreatestOf
  <2>4. Trim(text) = SubSeq(text, a, b)
    BY <1>1, <1>3 DEF Trim
  <2>5. /\ a \in DOMAIN text /\ b \in DOMAIN text /\ a <= b
        /\ text[a] \notin Blank /\ text[b] \notin Blank
    BY <2>1, <2>3 DEF Kept
  <2> HIDE DEF a, b
  <2>6. a \in 1..Len(text) + 1 /\ b \in (a - 1)..Len(text) /\ a \in Nat /\ b \in Nat
    BY <2>5
  <2>7. /\ Trim(text) \in Seq(Chars) /\ Len(Trim(text)) = b - a + 1
        /\ \A i \in 1..(b - a + 1) : Trim(text)[i] = text[a + i - 1]
        /\ \A i \in DOMAIN Trim(text) : \E j \in DOMAIN text : Trim(text)[i] = text[j]
    BY <2>4, <2>6, PieceOf
  <2>8. Trim(text)[1] = text[a] /\ Trim(text)[Len(Trim(text))] = text[b] /\ Trim(text) # <<>>
    BY <2>5, <2>6, <2>7
  <2> QED BY <2>5, <2>7, <2>8
<1> QED BY <1>2, <1>3

\* A text that begins and ends with no blank is trimmed as it is.
LEMMA TrimFixed ==
  ASSUME NEW text \in Seq(Chars),
         text # <<>> => text[1] \notin Blank /\ text[Len(text)] \notin Blank
  PROVE  Trim(text) = text
<1>1. CASE text = <<>>
  BY <1>1 DEF Trim
<1>2. CASE text # <<>>
  <2>1. Len(text) \in Nat /\ Len(text) >= 1 /\ 1 \in DOMAIN text /\ Len(text) \in DOMAIN text
    BY <1>2
  <2>2. Trim(text) = SubSeq(text, 1, Len(text))
    BY <1>2, <2>1, TrimIs
  <2> QED BY <2>2, SubSeqFull
<1> QED BY <1>1, <1>2

\* Trimming twice is trimming once.
LEMMA TrimTwice ==
  ASSUME NEW text \in Seq(Chars)
  PROVE  Trim(Trim(text)) = Trim(text)
BY TrimEnds, TrimFixed

\* A blank in front of a trimmed text is all that Trim takes off it.
LEMMA TrimBlank ==
  ASSUME NEW blank \in Chars, blank \in Blank, NEW text \in Seq(Chars), Trim(text) = text
  PROVE  Trim(<<blank>> \o text) = text
<1> DEFINE padded == <<blank>> \o text
<1>1. Len(text) \in Nat
  OBVIOUS
<1>2. /\ padded \in Seq(Chars) /\ Len(padded) = Len(text) + 1 /\ padded[1] = blank
      /\ \A i \in 1..Len(text) : padded[i + 1] = text[i]
  <2>1. <<blank>> \in Seq(Chars) /\ Len(<<blank>>) = 1 /\ <<blank>>[1] = blank
    OBVIOUS
  <2>2. /\ padded \in Seq(Chars) /\ Len(padded) = 1 + Len(text)
        /\ \A i \in 1..1 : padded[i] = <<blank>>[i]
        /\ \A i \in 1..Len(text) : padded[1 + i] = text[i]
    BY <2>1, JoinOf
  <2> HIDE DEF padded
  <2>3. \A i \in 1..Len(text) : 1 + i = i + 1
    OBVIOUS
  <2> QED BY <1>1, <2>1, <2>2, <2>3
<1> HIDE DEF padded
<1>3. CASE text = <<>>
  <2>1. \A i \in DOMAIN padded : padded[i] \in Blank
    BY <1>1, <1>2, <1>3
  <2> QED BY <1>2, <1>3, <2>1, TrimEnds DEF padded
<1>4. CASE text # <<>>
  <2>1. /\ Len(text) \in Nat /\ Len(text) >= 1
        /\ text[1] \notin Blank /\ text[Len(text)] \notin Blank
    BY <1>4, TrimEnds
  <2>2. /\ 2 \in DOMAIN padded /\ padded[2] \notin Blank
        /\ \A i \in DOMAIN padded : i < 2 => padded[i] \in Blank
    <3>1. padded[2] = text[1]
      BY <1>2, <2>1
    <3> QED BY <1>1, <1>2, <2>1, <3>1
  <2>3. /\ Len(text) + 1 \in DOMAIN padded /\ padded[Len(text) + 1] \notin Blank
        /\ \A i \in DOMAIN padded : i > Len(text) + 1 => padded[i] \in Blank
    <3>1. padded[Len(text) + 1] = text[Len(text)]
      BY <1>2, <2>1
    <3> QED BY <1>2, <2>1, <3>1
  <2>4. Trim(padded) = SubSeq(padded, 2, Len(text) + 1)
    BY <1>2, <2>2, <2>3, TrimIs
  <2>5. /\ Trim(padded) \in Seq(Chars) /\ Len(Trim(padded)) = Len(text)
        /\ \A i \in 1..Len(text) : Trim(padded)[i] = padded[i + 1]
    <3>1. 2 \in 1..Len(padded) + 1 /\ Len(text) + 1 \in (2 - 1)..Len(padded)
      BY <1>2, <2>1
    <3>2. /\ Trim(padded) \in Seq(Chars) /\ Len(Trim(padded)) = Len(text) + 1 - 2 + 1
          /\ \A i \in 1..(Len(text) + 1 - 2 + 1) : Trim(padded)[i] = padded[2 + i - 1]
      BY <1>2, <2>4, <3>1, PieceOf
    <3> QED BY <3>2
  <2>6. Trim(padded) = text
    BY <1>2, <2>5, SeqEqual
  <2> QED BY <2>6 DEF padded
<1> QED BY <1>3, <1>4

------------------------------------------------------------------------------
(* Lines. *)

Ends(text) == {0, Len(text) + 1} \cup {i \in DOMAIN text : text[i] = "nl"}
EndAfter(text, i) == Min({j \in Ends(text) : j > i})
LineFrom(text, i) == SubSeq(text, i + 1, EndAfter(text, i) - 1)
LineTexts(text) == {LineFrom(text, i) : i \in Ends(text) \ {Len(text) + 1}}

OneLine(text) == \A i \in DOMAIN text : text[i] # "nl"

\* Where a line ends.
LEMMA EndIsNext ==
  ASSUME NEW text \in Seq(Chars), NEW i \in Ends(text) \ {Len(text) + 1}
  PROVE  /\ i \in 0..Len(text) /\ EndAfter(text, i) \in (i + 1)..(Len(text) + 1)
         /\ EndAfter(text, i) \in Ends(text)
         /\ \A j \in Ends(text) : j > i => EndAfter(text, i) <= j
<1> DEFINE later == {j \in Ends(text) : j > i}
<1>1. Len(text) \in Nat /\ Ends(text) \in SUBSET (0..Len(text) + 1)
  BY DEF Ends
<1>2. i \in 0..Len(text)
  BY <1>1
<1>3. Len(text) + 1 \in later /\ later \in SUBSET Nat
  BY <1>1, <1>2 DEF Ends
<1> HIDE DEF later
<1>4. Min(later) \in later /\ \A j \in later : Min(later) <= j
  BY <1>3, LeastOf
<1>5. EndAfter(text, i) = Min(later)
  BY DEF EndAfter, later
<1> QED BY <1>1, <1>2, <1>4, <1>5 DEF later

\* A line is a text without a line feed, of the characters it is a line of.
LEMMA LineIsOne ==
  ASSUME NEW text \in Seq(Chars), NEW i \in Ends(text) \ {Len(text) + 1}
  PROVE  /\ LineFrom(text, i) \in Seq(Chars)
         /\ OneLine(LineFrom(text, i))
         /\ \A k \in DOMAIN LineFrom(text, i) : \E j \in DOMAIN text : LineFrom(text, i)[k] = text[j]
<1> DEFINE e == EndAfter(text, i)
<1>1. /\ i \in 0..Len(text) /\ e \in (i + 1)..(Len(text) + 1) /\ Len(text) \in Nat
      /\ \A j \in Ends(text) : j > i => e <= j
  BY EndIsNext
<1> HIDE DEF e
<1>3. LineFrom(text, i) = SubSeq(text, i + 1, e - 1)
  BY DEF LineFrom, e
<1>4. /\ LineFrom(text, i) \in Seq(Chars)
      /\ Len(LineFrom(text, i)) = e - i - 1
      /\ \A k \in 1..(e - i - 1) : LineFrom(text, i)[k] = text[i + k]
      /\ \A k \in DOMAIN LineFrom(text, i) : \E j \in DOMAIN text : LineFrom(text, i)[k] = text[j]
  BY <1>1, <1>3, PieceBetween
<1>5. ASSUME NEW k \in DOMAIN LineFrom(text, i)
      PROVE  LineFrom(text, i)[k] # "nl"
  <2>1. k \in 1..(e - i - 1) /\ LineFrom(text, i)[k] = text[i + k]
    BY <1>1, <1>4
  <2>2. i + k \in DOMAIN text /\ i + k > i /\ ~(e <= i + k)
    BY <1>1, <2>1
  <2>3. i + k \notin Ends(text)
    BY <1>1, <2>2
  <2> QED BY <2>1, <2>2, <2>3 DEF Ends
<1> QED BY <1>4, <1>5 DEF OneLine

\* A text without a line feed has one line.
LEMMA LineOfOne ==
  ASSUME NEW text \in Seq(Chars), OneLine(text)
  PROVE  LineTexts(text) = {text}
<1>1. Len(text) \in Nat /\ Ends(text) = {0, Len(text) + 1}
  BY DEF Ends, OneLine
<1>2. Ends(text) \ {Len(text) + 1} = {0}
  BY <1>1
<1>3. {j \in Ends(text) : j > 0} = {Len(text) + 1}
  BY <1>1
<1>4. EndAfter(text, 0) = Len(text) + 1
  <2>1. Min({Len(text) + 1}) = Len(text) + 1
    BY <1>1, LeastIs
  <2> QED BY <1>3, <2>1 DEF EndAfter
<1>5. LineFrom(text, 0) = text
  <2>1. LineFrom(text, 0) = SubSeq(text, 1, Len(text))
    BY <1>1, <1>4 DEF LineFrom
  <2> QED BY <2>1, SubSeqFull
<1> QED BY <1>2, <1>5 DEF LineTexts

\* A line written behind a line feed leaves the lines before it as they were.
LEMMA LinesJoined ==
  ASSUME NEW text \in Seq(Chars), NEW line \in Seq(Chars), OneLine(line), NEW joint \in Seq(Chars),
         Len(joint) = Len(text) + 1 + Len(line), joint[Len(text) + 1] = "nl",
         \A i \in 1..Len(text) : joint[i] = text[i],
         \A i \in 1..Len(line) : joint[Len(text) + 1 + i] = line[i]
  PROVE  LineTexts(joint) = LineTexts(text) \cup {line}
<1> DEFINE n == Len(text)  m == Len(joint)
<1>1. n \in Nat /\ m \in Nat /\ Len(line) \in Nat /\ m = n + 1 + Len(line)
  OBVIOUS
<1>2. ASSUME NEW j
      PROVE  j \in Ends(joint) <=> j \in Ends(text) \/ j = m + 1
  <2>1. ASSUME j \in DOMAIN joint, joint[j] = "nl"
        PROVE  j \in Ends(text)
    <3>1. CASE j <= n
      BY <1>1, <2>1, <3>1 DEF Ends
    <3>2. CASE j = n + 1
      BY <3>2 DEF Ends
    <3>3. CASE j > n + 1
      <4>1. j - (n + 1) \in 1..Len(line) /\ joint[n + 1 + (j - (n + 1))] = line[j - (n + 1)]
        BY <1>1, <2>1, <3>3
      <4>2. n + 1 + (j - (n + 1)) = j
        BY <1>1, <2>1
      <4> QED BY <2>1, <4>1, <4>2 DEF OneLine
    <3>4. j \in Nat
      BY <2>1
    <3> QED BY <1>1, <3>1, <3>2, <3>3, <3>4
  <2>2. ASSUME j \in Ends(text)
        PROVE  j \in Ends(joint)
    <3>1. CASE j = 0
      BY <3>1 DEF Ends
    <3>2. CASE j = n + 1
      <4>1. n + 1 \in DOMAIN joint
        BY <1>1
      <4> QED BY <3>2, <4>1 DEF Ends
    <3>3. CASE j \in DOMAIN text /\ text[j] = "nl"
      <4>1. j \in DOMAIN joint /\ joint[j] = "nl"
        BY <1>1, <3>3
      <4> QED BY <4>1 DEF Ends
    <3> QED BY <2>2, <3>1, <3>2, <3>3 DEF Ends
  <2>3. 0 \in Ends(text) /\ m + 1 \in Ends(joint)
    BY DEF Ends
  <2>4. j \in Ends(joint) => j = 0 \/ j = m + 1 \/ (j \in DOMAIN joint /\ joint[j] = "nl")
    BY DEF Ends
  <2> QED BY <2>1, <2>2, <2>3, <2>4
<1>3. Ends(text) \in SUBSET (0..n + 1) /\ n + 1 \in Ends(text) /\ Ends(joint) \in SUBSET (0..m + 1)
  BY <1>1 DEF Ends
<1> HIDE DEF n, m
<1>4. Ends(joint) \ {m + 1} = (Ends(text) \ {n + 1}) \cup {n + 1}
  BY <1>1, <1>2, <1>3
<1>5. ASSUME NEW i \in Ends(text) \ {n + 1}
      PROVE  LineFrom(joint, i) = LineFrom(text, i)
  <2> DEFINE e == EndAfter(text, i)
  <2>1. /\ i \in 0..n /\ e \in (i + 1)..(n + 1) /\ e \in Ends(text)
        /\ \A j \in Ends(text) : j > i => e <= j
    BY EndIsNext DEF n
  <2> HIDE DEF e
  <2>2. EndAfter(joint, i) = e
    <3> DEFINE later == {j \in Ends(joint) : j > i}
    <3>1. e \in later /\ later \in SUBSET Nat /\ \A j \in later : e <= j
      BY <1>1, <1>2, <1>3, <2>1
    <3> HIDE DEF later
    <3>2. Min(later) = e
      BY <3>1, LeastIs
    <3> QED BY <3>2 DEF EndAfter, later
  <2>3. i \in 0..m /\ e \in (i + 1)..(m + 1)
    BY <1>1, <2>1
  <2>4. /\ SubSeq(text, i + 1, e - 1) \in Seq(Chars)
        /\ Len(SubSeq(text, i + 1, e - 1)) = e - i - 1
        /\ \A k \in 1..(e - i - 1) : SubSeq(text, i + 1, e - 1)[k] = text[i + k]
    BY <2>1, PieceBetween DEF n
  <2>5. /\ SubSeq(joint, i + 1, e - 1) \in Seq(Chars)
        /\ Len(SubSeq(joint, i + 1, e - 1)) = e - i - 1
        /\ \A k \in 1..(e - i - 1) : SubSeq(joint, i + 1, e - 1)[k] = joint[i + k]
    BY <2>3, PieceBetween DEF m
  <2>6. ASSUME NEW k \in 1..(e - i - 1)
        PROVE  text[i + k] = joint[i + k]
    <3>1. i + k \in 1..n
      BY <1>1, <2>1
    <3> QED BY <3>1 DEF n
  <2>7. SubSeq(joint, i + 1, e - 1) = SubSeq(text, i + 1, e - 1)
    <3> DEFINE one == SubSeq(joint, i + 1, e - 1)  other == SubSeq(text, i + 1, e - 1)
    <3>1. /\ one \in Seq(Chars) /\ other \in Seq(Chars) /\ Len(one) = Len(other)
          /\ Len(one) = e - i - 1 /\ \A k \in 1..(e - i - 1) : one[k] = other[k]
      BY <2>4, <2>5, <2>6
    <3> HIDE DEF one, other
    <3>2. one = other
      BY <3>1, SeqEqual
    <3> QED BY <3>2 DEF one, other
  <2> QED BY <2>2, <2>7 DEF LineFrom, e
<1>6. LineFrom(joint, n + 1) = line
  <2>1. EndAfter(joint, n + 1) = m + 1
    <3> DEFINE later == {j \in Ends(joint) : j > n + 1}
    <3>1. \A j \in Ends(joint) : j > n + 1 <=> j = m + 1
      BY <1>1, <1>2, <1>3
    <3>2. m + 1 \in Ends(joint) /\ m + 1 \in Nat
      BY <1>1, <1>2
    <3>3. later = {m + 1}
      BY <3>1, <3>2
    <3> HIDE DEF later
    <3>4. Min(later) = m + 1
      BY <3>2, <3>3, LeastIs
    <3> QED BY <3>4 DEF EndAfter, later
  <2> DEFINE i == n + 1  e == m + 1  last == SubSeq(joint, i + 1, e - 1)
  <2>2. i \in 0..m /\ e \in (i + 1)..(m + 1)
    BY <1>1
  <2>3. LineFrom(joint, i) = last
    BY <2>1 DEF LineFrom
  <2> HIDE DEF i, e
  <2>4. /\ last \in Seq(Chars) /\ Len(last) = e - i - 1
        /\ \A k \in 1..(e - i - 1) : last[k] = joint[i + k]
    BY <2>2, PieceBetween DEF m
  <2> HIDE DEF last
  <2>5. e - i - 1 = Len(line)
    BY <1>1 DEF i, e
  <2>6. \A k \in 1..Len(line) : joint[i + k] = line[k]
    BY DEF i, n
  <2>7. last = line
    BY <2>4, <2>5, <2>6, SeqEqual
  <2> QED BY <2>3, <2>7 DEF i
<1>7. LineTexts(joint) = {LineFrom(joint, i) : i \in (Ends(text) \ {n + 1}) \cup {n + 1}}
  BY <1>4 DEF LineTexts, m
<1>8. LineTexts(text) = {LineFrom(text, i) : i \in Ends(text) \ {n + 1}}
  BY DEF LineTexts, n
<1> QED BY <1>5, <1>6, <1>7, <1>8

------------------------------------------------------------------------------
(* A header frame, read. *)

Written(text) == {l \in Lines(text) : Trim(l.text) # <<>>}
Entries(text) == {Entry(l) : l \in Written(text)}
LastOf(text, name) ==
  CHOOSE e \in Entries(text) : /\ e.name = name
                               /\ \A f \in Entries(text) : f.name = name => f.at <= e.at

\* DecodeHeaders, by the names this module gives to its parts.
LEMMA DecodeIs ==
  ASSUME NEW text
  PROVE  DecodeHeaders(text) =
           IF ~IsText(text) \/ \E l \in Written(text) : ~Contains(l.text, ":")
           THEN WireError
           ELSE [ok |-> TRUE, map |-> [n \in {e.name : e \in Entries(text)} |-> LastOf(text, n).value]]
BY DEF DecodeHeaders, Written, Entries, LastOf

\* The lines of a text, at the places they start.
LEMMA LinesAre ==
  ASSUME NEW text
  PROVE  Lines(text) = {[at |-> i, text |-> LineFrom(text, i)] : i \in Ends(text) \ {Len(text) + 1}}
BY DEF Lines, LineFrom, EndAfter, Ends

\* Among the entries of one name there is a last one.
LEMMA LastIsOne ==
  ASSUME NEW text \in Seq(Chars), NEW name \in {e.name : e \in Entries(text)}
  PROVE  LastOf(text, name) \in Entries(text) /\ LastOf(text, name).name = name
<1> DEFINE places == {i \in Nat : \E e \in Entries(text) : e.name = name /\ e.at = i}
<1>1. \A e \in Entries(text) : e.at \in 0..Len(text)
  <2> SUFFICES ASSUME NEW l \in Lines(text) PROVE Entry(l).at \in 0..Len(text)
    BY DEF Entries, Written
  <2>1. PICK i \in Ends(text) \ {Len(text) + 1} : l = [at |-> i, text |-> LineFrom(text, i)]
    BY LinesAre
  <2>2. i \in 0..Len(text)
    BY EndIsNext
  <2> QED BY <2>1, <2>2 DEF Entry
<1>2. places \in SUBSET Nat /\ places # {} /\ Len(text) \in Nat /\ \A i \in places : i <= Len(text)
  BY <1>1
<1>3. Max(places) \in places /\ \A i \in places : i <= Max(places)
  <2> HIDE DEF places
  <2> QED BY <1>2, GreatestOf
<1>4. PICK e \in Entries(text) : e.name = name /\ e.at = Max(places)
  BY <1>3
<1>5. \A f \in Entries(text) : f.name = name => f.at \in places
  BY <1>1
<1>6. \A f \in Entries(text) : f.name = name => f.at <= e.at
  BY <1>3, <1>4, <1>5
<1> QED BY <1>4, <1>6 DEF LastOf

\* Where the first colon of a line is.
LEMMA ColonIs ==
  ASSUME NEW line \in Seq(Chars), Contains(line, ":")
  PROVE  /\ Colon(line) \in DOMAIN line /\ line[Colon(line)] = ":"
         /\ \A i \in DOMAIN line : i < Colon(line) => line[i] # ":"
<1> DEFINE colons == {i \in DOMAIN line : line[i] = ":"}
<1>1. colons # {} /\ colons \in SUBSET Nat
  BY DEF Contains
<1>2. Colon(line) = Min(colons)
  BY DEF Colon
<1>3. Min(colons) \in colons /\ \A i \in colons : Min(colons) <= i
  <2> HIDE DEF colons
  <2> QED BY <1>1, LeastOf
<1>4. Colon(line) \in Nat
  BY <1>1, <1>2, <1>3
<1>5. ASSUME NEW i \in DOMAIN line, i < Colon(line)
      PROVE  line[i] # ":"
  <2>1. i \in Nat /\ ~(Min(colons) <= i)
    BY <1>2, <1>4, <1>5
  <2>2. i \notin colons
    <3> HIDE DEF colons
    <3> QED BY <1>3, <2>1
  <2> QED BY <2>2
<1> QED BY <1>2, <1>3, <1>5

\* A header read out of a line of text could have been written, unless a return is in it.
LEMMA EntryReads ==
  ASSUME NEW l, l.text \in Seq(Chars), OneLine(l.text), IsText(l.text), Contains(l.text, ":")
  PROVE  /\ Unwritable(Entry(l).name, Entry(l).value) =>
              Contains(Entry(l).name, "cr") \/ Contains(Entry(l).value, "cr")
         /\ IsText(Entry(l).value)
<1> DEFINE line == l.text  c == Colon(line)
           before == SubSeq(line, 1, c - 1)  after == SubSeq(line, c + 1, Len(line))
<1>1. /\ c \in DOMAIN line /\ line[c] = ":" /\ line \in Seq(Chars) /\ Len(line) \in Nat
      /\ \A i \in DOMAIN line : i < c => line[i] # ":"
  BY ColonIs
<1>2. Entry(l).name = Trim(before) /\ Entry(l).value = Trim(after)
  BY DEF Entry
<1>3. \A i \in DOMAIN line : line[i] # "nl" /\ line[i] # "?"
  BY DEF OneLine, IsText
<1> HIDE DEF line, c
<1>4. /\ 1 \in 1..Len(line) + 1 /\ c - 1 \in (1 - 1)..Len(line) /\ c - 1 - 1 + 1 = c - 1
  BY <1>1
<1>5. /\ before \in Seq(Chars) /\ Len(before) = c - 1 /\ \A i \in 1..c - 1 : before[i] = line[1 + i - 1]
      /\ \A i \in DOMAIN before : \E j \in DOMAIN line : before[i] = line[j]
  BY <1>1, <1>4, PieceOf
<1>6. after \in Seq(Chars) /\ \A i \in DOMAIN after : \E j \in DOMAIN line : after[i] = line[j]
  <2> DEFINE a == c + 1  b == Len(line)
  <2>1. a \in 1..Len(line) + 1 /\ b \in (a - 1)..Len(line)
    BY <1>1
  <2>2. after = SubSeq(line, a, b)
    OBVIOUS
  <2> HIDE DEF a, b, after
  <2> QED BY <1>1, <2>1, <2>2, PieceOf
<1>7. \A i \in DOMAIN before : before[i] # ":"
  <2> SUFFICES ASSUME NEW i \in DOMAIN before PROVE before[i] # ":"
    OBVIOUS
  <2>1. i \in 1..c - 1 /\ 1 + i - 1 = i /\ i \in DOMAIN line /\ i < c
    BY <1>1, <1>5
  <2> QED BY <1>1, <1>5, <2>1
<1> HIDE DEF before, after
<1>8. /\ Trim(before) \in Seq(Chars) /\ Trim(after) \in Seq(Chars)
      /\ \A i \in DOMAIN Trim(before) : \E j \in DOMAIN before : Trim(before)[i] = before[j]
      /\ \A i \in DOMAIN Trim(after) : \E j \in DOMAIN after : Trim(after)[i] = after[j]
      /\ Trim(Trim(before)) = Trim(before) /\ Trim(Trim(after)) = Trim(after)
  BY <1>5, <1>6, TrimEnds, TrimTwice
<1>9. /\ \A i \in DOMAIN Trim(before) : Trim(before)[i] # "nl" /\ Trim(before)[i] # ":"
      /\ \A i \in DOMAIN Trim(after) : Trim(after)[i] # "nl" /\ Trim(after)[i] # "?"
  BY <1>3, <1>5, <1>6, <1>7, <1>8
<1> QED BY <1>2, <1>8, <1>9 DEF Unwritable, BreaksLine, Contains, IsText

\* The headers a header frame decodes to are refused for a return in them or not at all.
LEMMA DecodedIsWritable ==
  ASSUME NEW text \in Seq(Chars), DecodeHeaders(text).ok, FramesRefuses(DecodeHeaders(text).map)
  PROVE  \E n \in DOMAIN DecodeHeaders(text).map :
           Contains(n, "cr") \/ Contains(DecodeHeaders(text).map[n], "cr")
<1> DEFINE map == DecodeHeaders(text).map
<1>1. /\ IsText(text) /\ \A l \in Written(text) : Contains(l.text, ":")
      /\ map = [n \in {e.name : e \in Entries(text)} |-> LastOf(text, n).value]
  BY DecodeIs DEF WireError
<1> HIDE DEF map
<1>2. ASSUME NEW n \in DOMAIN map
      PROVE  IsText(map[n]) /\ (Unwritable(n, map[n]) => Contains(n, "cr") \/ Contains(map[n], "cr"))
  <2>1. /\ n \in {e.name : e \in Entries(text)} /\ map[n] = LastOf(text, n).value
    BY <1>1
  <2>2. PICK l \in Written(text) : Entry(l).name = n /\ Entry(l).value = map[n]
    BY <2>1, LastIsOne DEF Entries
  <2>3. PICK i \in Ends(text) \ {Len(text) + 1} : l.text = LineFrom(text, i)
    BY <2>2, LinesAre DEF Written
  <2>4. l.text \in Seq(Chars) /\ OneLine(l.text) /\ IsText(l.text)
    BY <1>1, <2>3, LineIsOne DEF IsText
  <2> QED BY <1>1, <2>2, <2>4, EntryReads
<1> QED BY <1>2 DEF FramesRefuses, map

------------------------------------------------------------------------------
(* A header frame, written. *)

\* What a line of the header frame is made of.
IsLineOf(line, name, value) ==
  /\ line \in Seq(Chars) /\ Len(line) = Len(name) + 2 + Len(value)
  /\ \A i \in 1..Len(name) : line[i] = name[i]
  /\ line[Len(name) + 1] = ":" /\ line[Len(name) + 2] \in Blank
  /\ \A i \in 1..Len(value) : line[Len(name) + 2 + i] = value[i]

\* A header as text, trimmed and without what a line cannot carry.
IsHeader(name, value) ==
  /\ name \in Text /\ value \in Text
  /\ ~Unwritable(name, value)

\* What a header that can be written looks like, character by character.
LEMMA HeaderIs ==
  ASSUME NEW name, NEW value, IsHeader(name, value)
  PROVE  /\ name \in Seq(Chars) /\ value \in Seq(Chars)
         /\ Trim(name) = name /\ Trim(value) = value
         /\ \A i \in 1..Len(name) : name[i] # ":" /\ name[i] # "nl" /\ name[i] # "?"
         /\ \A i \in 1..Len(value) : value[i] # "nl" /\ value[i] # "?"
BY DEF IsHeader, Text, Unwritable, BreaksLine, Contains, IsText

\* The line of a header reads back as that header.
LEMMA EntryOfOwn ==
  ASSUME NEW name, NEW value, IsHeader(name, value), NEW l, IsLineOf(l.text, name, value)
  PROVE  /\ Entry(l).name = name /\ Entry(l).value = value
         /\ Contains(l.text, ":") /\ Trim(l.text) # <<>>
<1> DEFINE line == l.text  n == Len(name)  v == Len(value)
<1>1. /\ name \in Seq(Chars) /\ value \in Seq(Chars) /\ n \in Nat /\ v \in Nat
      /\ Trim(name) = name /\ Trim(value) = value
      /\ \A i \in 1..n : name[i] # ":"
  BY HeaderIs
<1>2. /\ line \in Seq(Chars) /\ Len(line) = n + 2 + v
      /\ \A i \in 1..n : line[i] = name[i]
      /\ line[n + 1] = ":" /\ line[n + 2] \in Blank
      /\ \A i \in 1..v : line[n + 2 + i] = value[i]
  BY DEF IsLineOf
<1> HIDE DEF line, n, v
<1>3. n + 1 \in 1..Len(line) /\ n + 2 \in 1..Len(line) /\ Len(line) \in Nat
  BY <1>1, <1>2
<1>4. Contains(line, ":")
  BY <1>2, <1>3 DEF Contains
<1>5. Colon(line) = n + 1
  <2>1. /\ Colon(line) \in 1..Len(line) /\ line[Colon(line)] = ":"
        /\ \A i \in DOMAIN line : i < Colon(line) => line[i] # ":"
    BY <1>2, <1>4, ColonIs
  <2>2. Colon(line) \notin 1..n
    BY <1>1, <1>2, <2>1
  <2>3. ~(n + 1 < Colon(line))
    BY <1>2, <1>3, <2>1
  <2> QED BY <1>1, <1>3, <2>1, <2>2, <2>3
<1>6. SubSeq(line, 1, n) = name
  <2> DEFINE piece == SubSeq(line, 1, n)
  <2>1. 1 \in 1..Len(line) + 1 /\ n \in (1 - 1)..Len(line) /\ n - 1 + 1 = n
    BY <1>1, <1>3
  <2>2. piece \in Seq(Chars) /\ Len(piece) = n /\ \A i \in 1..n : piece[i] = line[1 + i - 1]
    BY <1>2, <2>1, PieceOf
  <2> HIDE DEF piece
  <2>3. \A i \in 1..n : piece[i] = name[i]
    BY <1>1, <1>2, <2>2
  <2>4. Len(name) = n
    BY DEF n
  <2>5. piece = name
    BY <1>1, <2>2, <2>3, <2>4, SeqEqual
  <2> QED BY <2>5 DEF piece
<1>7. Trim(SubSeq(line, n + 2, n + 2 + v)) = value
  <2> DEFINE a == n + 2  b == n + 2 + v  piece == SubSeq(line, a, b)
             blank == line[n + 2]
  <2>1. a \in 1..Len(line) + 1 /\ b \in (a - 1)..Len(line) /\ b - a + 1 = v + 1
    BY <1>1, <1>2, <1>3
  <2>2. piece \in Seq(Chars) /\ Len(piece) = v + 1 /\ \A i \in 1..v + 1 : piece[i] = line[a + i - 1]
    <3> HIDE DEF a, b
    <3>1. /\ piece \in Seq(Chars) /\ Len(piece) = b - a + 1
          /\ \A i \in 1..(b - a + 1) : piece[i] = line[a + i - 1]
      BY <1>2, <2>1, PieceOf
    <3> QED BY <2>1, <3>1
  <2> HIDE DEF piece
  <2>3. piece[1] = blank /\ \A i \in 1..v : piece[i + 1] = value[i]
    <3>1. piece[1] = line[a + 1 - 1] /\ a + 1 - 1 = n + 2
      BY <1>1, <2>2
    <3>2. ASSUME NEW i \in 1..v
          PROVE  piece[i + 1] = value[i]
      <4>1. piece[i + 1] = line[a + (i + 1) - 1] /\ a + (i + 1) - 1 = n + 2 + i
        BY <1>1, <2>2
      <4> QED BY <1>2, <4>1
    <3> QED BY <3>1, <3>2
  <2>4. blank \in Chars /\ blank \in Blank
    BY <1>2, <1>3
  <2> HIDE DEF blank
  <2>5. Trim(<<blank>> \o value) = value
    BY <1>1, <2>4, TrimBlank
  <2> DEFINE whole == <<blank>> \o value
  <2>6. whole \in Seq(Chars) /\ Len(whole) = v + 1 /\ whole[1] = blank /\ \A i \in 1..v : whole[i + 1] = value[i]
    <3>1. <<blank>> \in Seq(Chars) /\ Len(<<blank>>) = 1 /\ <<blank>>[1] = blank /\ Len(value) = v
      BY <2>4 DEF v
    <3>2. /\ whole \in Seq(Chars) /\ Len(whole) = 1 + v
          /\ \A i \in 1..1 : whole[i] = <<blank>>[i]
          /\ \A i \in 1..v : whole[1 + i] = value[i]
      BY <1>1, <3>1, JoinOf
    <3> HIDE DEF whole
    <3>3. \A i \in 1..v : 1 + i = i + 1
      OBVIOUS
    <3> QED BY <1>1, <3>1, <3>2, <3>3
  <2> HIDE DEF whole
  <2>7. \A i \in 1..v + 1 : piece[i] = whole[i]
    <3> SUFFICES ASSUME NEW i \in 1..v + 1 PROVE piece[i] = whole[i]
      OBVIOUS
    <3>1. CASE i = 1
      BY <2>3, <2>6, <3>1
    <3>2. CASE i # 1
      <4>1. i - 1 \in 1..v /\ i - 1 + 1 = i
        BY <1>1, <3>2
      <4> QED BY <2>3, <2>6, <4>1
    <3> QED BY <3>1, <3>2
  <2>8. piece = whole
    BY <2>2, <2>6, <2>7, SeqEqual
  <2> QED BY <2>5, <2>8 DEF piece, whole
<1>8. Entry(l).name = Trim(SubSeq(line, 1, n)) /\ Entry(l).value = Trim(SubSeq(line, n + 2, n + 2 + v))
  <2>1. /\ Entry(l).name = Trim(SubSeq(line, 1, Colon(line) - 1))
        /\ Entry(l).value = Trim(SubSeq(line, Colon(line) + 1, Len(line)))
    BY DEF Entry, line
  <2>2. Colon(line) - 1 = n /\ Colon(line) + 1 = n + 2 /\ Len(line) = n + 2 + v
    BY <1>1, <1>2, <1>5
  <2> QED BY <2>1, <2>2
<1>9. Trim(line) # <<>>
  <2>1. line[n + 1] \notin Blank
    BY <1>2 DEF Blank
  <2> QED BY <1>2, <1>3, <2>1, TrimEnds
<1> QED BY <1>1, <1>4, <1>6, <1>7, <1>8, <1>9 DEF line

Separator == <<":", " ">>
Line(name, value) == (name \o Separator) \o value

\* Two characters in a row.
LEMMA PairIs ==
  ASSUME NEW a \in Chars, NEW b \in Chars
  PROVE  <<a, b>> \in Seq(Chars) /\ Len(<<a, b>>) = 2 /\ <<a, b>>[1] = a /\ <<a, b>>[2] = b
OBVIOUS

\* The separator is a colon and a blank, and breaks no line.
LEMMA SeparatorIs ==
  /\ Separator \in Seq(Chars) /\ Len(Separator) = 2
  /\ Separator[1] = ":" /\ Separator[2] \in Blank
  /\ \A i \in 1..2 : Separator[i] # "nl" /\ Separator[i] # "?"
<1> DEFINE colon == ":"  space == " "
<1>1. /\ colon \in Chars /\ space \in Chars /\ space \in Blank
      /\ colon # "nl" /\ colon # "?" /\ space # "nl" /\ space # "?"
  BY DEF Chars, Blank
<1>2. Separator = <<colon, space>>
  BY DEF Separator
<1>3. colon = ":"
  OBVIOUS
<1> HIDE DEF colon, space
<1>4. /\ Separator \in Seq(Chars) /\ Len(Separator) = 2
      /\ Separator[1] = colon /\ Separator[2] = space
  BY <1>1, <1>2, PairIs
<1> QED BY <1>1, <1>3, <1>4

\* The line of a header is one line of text.
LEMMA LineIs ==
  ASSUME NEW name \in Seq(Chars), NEW value \in Seq(Chars)
  PROVE  /\ IsLineOf(Line(name, value), name, value)
         /\ IsHeader(name, value) => OneLine(Line(name, value)) /\ IsText(Line(name, value))
<1> DEFINE front == name \o Separator  line == front \o value  n == Len(name)  v == Len(value)
<1>1. n \in Nat /\ v \in Nat
  OBVIOUS
<1>2. /\ front \in Seq(Chars) /\ Len(front) = n + 2
      /\ \A i \in 1..n : front[i] = name[i]
      /\ \A i \in 1..2 : front[n + i] = Separator[i]
  <2>1. Separator \in Seq(Chars) /\ 2 = Len(Separator) /\ n = Len(name) /\ name \in Seq(Chars)
    BY SeparatorIs
  <2> HIDE DEF n, front
  <2>2. front = name \o Separator
    BY DEF front
  <2>3. /\ front \in Seq(Chars) /\ Len(front) = n + Len(Separator)
        /\ \A i \in 1..n : front[i] = name[i]
        /\ \A i \in 1..Len(Separator) : front[n + i] = Separator[i]
    BY <2>1, <2>2, JoinOf
  <2> QED BY <2>1, <2>3
<1> HIDE DEF front
<1>3. /\ line \in Seq(Chars) /\ Len(line) = n + 2 + v
      /\ \A i \in 1..n + 2 : line[i] = front[i]
      /\ \A i \in 1..v : line[n + 2 + i] = value[i]
  <2> DEFINE f == n + 2
  <2>1. f = Len(front)
    BY <1>2
  <2> HIDE DEF f
  <2>2. /\ line \in Seq(Chars) /\ Len(line) = f + v
        /\ \A i \in 1..f : line[i] = front[i]
        /\ \A i \in 1..v : line[f + i] = value[i]
    <3> HIDE DEF v
    <3>1. front \in Seq(Chars) /\ f = Len(front) /\ value \in Seq(Chars) /\ v = Len(value) /\ line = front \o value
      BY <1>2, <2>1 DEF v
    <3> HIDE DEF line
    <3> QED BY <3>1, JoinOf
  <2> QED BY <2>2 DEF f
<1>4. Line(name, value) = line
  BY DEF Line, front
<1> HIDE DEF line
<1>5. \A i \in 1..n : line[i] = name[i]
  BY <1>1, <1>2, <1>3
<1>6. line[n + 1] = Separator[1] /\ line[n + 2] = Separator[2]
  BY <1>1, <1>2, <1>3
<1>7. IsLineOf(line, name, value)
  BY <1>3, <1>5, <1>6, SeparatorIs DEF IsLineOf, n, v
<1>8. ASSUME IsHeader(name, value), NEW i \in DOMAIN line
      PROVE  line[i] # "nl" /\ line[i] # "?"
  <2>1. /\ \A j \in 1..n : name[j] # "nl" /\ name[j] # "?"
        /\ \A j \in 1..v : value[j] # "nl" /\ value[j] # "?"
    BY <1>8, HeaderIs DEF n, v
  <2>2. i \in 1..n + 2 + v
    BY <1>3
  <2>3. CASE i <= n
    BY <1>1, <1>5, <2>1, <2>2, <2>3
  <2>4. CASE i = n + 1 \/ i = n + 2
    BY <1>6, <2>4, SeparatorIs
  <2>5. CASE i > n + 2
    <3>1. i - (n + 2) \in 1..v /\ n + 2 + (i - (n + 2)) = i
      BY <1>1, <2>2, <2>5
    <3> QED BY <1>3, <2>1, <3>1
  <2> QED BY <1>1, <2>2, <2>3, <2>4, <2>5
<1> QED BY <1>4, <1>7, <1>8 DEF OneLine, IsText

\* The parts that HeaderLines joins, and the sequence of names it goes by.
Names(headers) == SetToSeq(DOMAIN headers)
Parts(headers) ==
  [k \in DOMAIN Names(headers) |->
     (IF k = 1 THEN <<>> ELSE <<"nl">>) \o Names(headers)[k] \o <<":", " ">> \o headers[Names(headers)[k]]]

\* HeaderLines, by the names this module gives to its parts.
LEMMA HeaderLinesAre ==
  ASSUME NEW headers
  PROVE  HeaderLines(headers) = FlattenSeq(Parts(headers))
BY DEF HeaderLines, Parts, Names

\* Every header has its line, and no other has one.
LEMMA NamesAre ==
  ASSUME NEW headers, IsFiniteSet(DOMAIN headers)
  PROVE  /\ \A k \in 1..Len(Names(headers)) : Names(headers)[k] \in DOMAIN headers
         /\ \A n \in DOMAIN headers : \E k \in 1..Len(Names(headers)) : Names(headers)[k] = n
         /\ Len(Names(headers)) = Cardinality(DOMAIN headers) /\ Len(Names(headers)) \in Nat
         /\ DOMAIN Names(headers) = 1..Len(Names(headers))
<1> DEFINE D == DOMAIN headers  n == Cardinality(DOMAIN headers)
<1>1. n \in Nat /\ ExistsBijection(1..n, D)
  BY FS_CardinalityType
<1>2. PICK f \in [1..n -> D] : IsInjective(f)
  BY <1>1 DEF ExistsBijection, Bijection, Injection
<1>3. Names(headers) \in [1..n -> D] /\ IsInjective(Names(headers))
  BY <1>2 DEF Names, SetToSeq
<1>4. Names(headers) \in Injection(1..n, D)
  BY <1>3 DEF Injection
<1>5. Cardinality(1..n) = n
  BY <1>1, FS_Interval
<1>6. Names(headers) \in Surjection(1..n, D)
  BY <1>4, <1>5, FS_Injection
<1>7. \A m \in D : \E k \in 1..n : Names(headers)[k] = m
  BY <1>6 DEF Surjection
<1>8. Len(Names(headers)) = n /\ DOMAIN Names(headers) = 1..n
  BY <1>1, <1>3
<1> QED BY <1>1, <1>3, <1>7, <1>8

\* What FlattenSeq builds, part by part.
LEMMA FlattenIs ==
  ASSUME NEW parts, Len(parts) \in Nat \ {0}
  PROVE  \E flat :
           /\ flat = [i \in 1..Len(parts) |-> IF i = 1 THEN parts[i] ELSE flat[i - 1] \o parts[i]]
           /\ FlattenSeq(parts) = flat[Len(parts)]
<1> DEFINE Builds(f, n) == f = [i \in 1..n |-> IF i = 1 THEN parts[i] ELSE f[i - 1] \o parts[i]]
           S == {n \in Nat : \E f : Builds(f, n)}
<1>1. 0 \in S
  <2>1. Builds([i \in 1..0 |-> 0], 0)
    OBVIOUS
  <2> QED BY <2>1
<1>2. ASSUME NEW n \in S
      PROVE  n + 1 \in S
  <2>1. PICK h : Builds(h, n)
    OBVIOUS
  <2> DEFINE g == [i \in 1..n + 1 |-> IF i <= n THEN h[i] ELSE IF i = 1 THEN parts[i] ELSE h[i - 1] \o parts[i]]
  <2>2. n \in Nat
    OBVIOUS
  <2>3. ASSUME NEW i \in 1..n + 1
        PROVE  g[i] = IF i = 1 THEN parts[i] ELSE g[i - 1] \o parts[i]
    <3>1. CASE i <= n
      <4>1. g[i] = h[i] /\ i \in 1..n /\ (i # 1 => g[i - 1] = h[i - 1])
        BY <2>2, <3>1
      <4> QED BY <2>1, <4>1
    <3>2. CASE ~(i <= n)
      <4>1. i # 1 => i - 1 \in 1..n + 1 /\ i - 1 <= n
        BY <2>2, <3>2
      <4> QED BY <3>2, <4>1
    <3> QED BY <3>1, <3>2
  <2>4. g = [i \in 1..n + 1 |-> g[i]]
    OBVIOUS
  <2> HIDE DEF g
  <2>5. Builds(g, n + 1)
    BY <2>3, <2>4
  <2> HIDE DEF Builds
  <2>6. n + 1 \in Nat /\ \E f : Builds(f, n + 1)
    BY <2>2, <2>5
  <2> QED BY <2>6
<1>3. S = Nat
  <2> HIDE DEF S
  <2>1. S \in SUBSET Nat
    BY DEF S
  <2> QED BY <1>1, <1>2, <2>1, Induction
<1>4. \E f : Builds(f, Len(parts))
  BY <1>3
<1> DEFINE flat == CHOOSE f : Builds(f, Len(parts))
<1>5. Builds(flat, Len(parts))
  BY <1>4
<1>6. FlattenSeq(parts) = flat[Len(parts)]
  BY DEF FlattenSeq
<1> QED BY <1>5, <1>6

\* The headers of a message, and the line of each.
AreHeaders(headers) ==
  /\ IsFiniteSet(DOMAIN headers) /\ DOMAIN headers \subseteq Text
  /\ headers \in [DOMAIN headers -> Seq(Chars)]

LineAt(headers, k) == Line(Names(headers)[k], headers[Names(headers)[k]])

\* A part is the line of its header, after a line feed unless it is the first.
LEMMA PartIs ==
  ASSUME NEW headers, AreHeaders(headers), NEW k \in 1..Len(Names(headers))
  PROVE  /\ LineAt(headers, k) \in Seq(Chars)
         /\ k = 1 => Parts(headers)[k] = LineAt(headers, k)
         /\ k # 1 => Parts(headers)[k] = <<"nl">> \o LineAt(headers, k)
<1> DEFINE name == Names(headers)[k]  value == headers[name]  feed == <<"nl">>
<1>1. name \in DOMAIN headers /\ DOMAIN Names(headers) = 1..Len(Names(headers))
  <2> HIDE DEF name, value, feed
  <2>1. IsFiniteSet(DOMAIN headers)
    BY DEF AreHeaders
  <2> QED BY <2>1, NamesAre DEF name
<1>3. name \in Seq(Chars) /\ value \in Seq(Chars) /\ Separator \in Seq(Chars)
  BY <1>1, SeparatorIs DEF AreHeaders, Text
<1>4. feed \in Seq(Chars)
  <2>1. "nl" \in Chars
    BY DEF Chars
  <2> QED BY <2>1
<1>5. LineAt(headers, k) = (name \o Separator) \o value
  BY DEF LineAt, Line
<1>6. Parts(headers)[k] = (((IF k = 1 THEN <<>> ELSE feed) \o name) \o Separator) \o value
  BY <1>1 DEF Parts, Separator
<1> HIDE DEF name, value, feed
<1>7. name \o Separator \in Seq(Chars)
  BY <1>3, ConcatProperties
<1>8. LineAt(headers, k) \in Seq(Chars)
  BY <1>3, <1>5, <1>7, ConcatProperties
<1>9. <<>> \o name = name
  BY <1>3, ConcatEmptySeq
<1>10. ((feed \o name) \o Separator) \o value = feed \o ((name \o Separator) \o value)
  <2>1. (feed \o name) \o Separator = feed \o (name \o Separator)
    BY <1>3, <1>4, ConcatAssociative
  <2>2. (feed \o (name \o Separator)) \o value = feed \o ((name \o Separator) \o value)
    <3> DEFINE front == name \o Separator
    <3> HIDE DEF front
    <3>1. front \in Seq(Chars)
      BY <1>7 DEF front
    <3>2. (feed \o front) \o value = feed \o (front \o value)
      BY <1>3, <1>4, <3>1, ConcatAssociative
    <3> QED BY <3>2 DEF front
  <2> QED BY <2>1, <2>2
<1> QED BY <1>5, <1>6, <1>8, <1>9, <1>10 DEF feed

\* A header frame has the lines of its headers, when they are fit for one, and is text.
LEMMA HeaderLinesRead ==
  ASSUME NEW headers, AreHeaders(headers)
  PROVE  /\ HeaderLines(headers) \in Seq(Chars)
         /\ (\A n \in DOMAIN headers : IsHeader(n, headers[n])) =>
              /\ IsText(HeaderLines(headers))
              /\ LineTexts(HeaderLines(headers)) =
                   IF DOMAIN headers = {} THEN {<<>>} ELSE {Line(n, headers[n]) : n \in DOMAIN headers}
<1> DEFINE names == Names(headers)  count == Len(names)  parts == Parts(headers)
           fit == \A n \in DOMAIN headers : IsHeader(n, headers[n])
<1>1. /\ \A k \in 1..count : names[k] \in DOMAIN headers
      /\ \A n \in DOMAIN headers : \E k \in 1..count : names[k] = n
      /\ count = Cardinality(DOMAIN headers) /\ count \in Nat /\ DOMAIN names = 1..count
  <2>1. IsFiniteSet(DOMAIN headers)
    BY DEF AreHeaders
  <2> HIDE DEF parts, fit
  <2> QED BY <2>1, NamesAre
<1>2. DOMAIN parts = 1..count /\ Len(parts) = count
  <2>1. DOMAIN parts = DOMAIN names /\ parts = [k \in DOMAIN names |-> parts[k]]
    BY DEF Parts
  <2> HIDE DEF parts, names, count
  <2>2. parts = [k \in 1..count |-> parts[k]] /\ DOMAIN parts = 1..count
    BY <1>1, <2>1
  <2> QED BY <1>1, <2>2
<1>3. HeaderLines(headers) = FlattenSeq(parts)
  BY HeaderLinesAre
<1>4. CASE DOMAIN headers = {}
  <2>1. count = 0
    BY <1>1, <1>4, FS_EmptySet
  <2>2. parts = <<>>
    BY <1>2, <2>1
  <2>3. HeaderLines(headers) = <<>>
    BY <1>3, <2>2 DEF FlattenSeq
  <2>4. <<>> \in Seq(Chars) /\ OneLine(<<>>) /\ IsText(<<>>)
    BY DEF OneLine, IsText
  <2> QED BY <1>4, <2>3, <2>4, LineOfOne
<1>5. CASE DOMAIN headers # {}
  <2>1. Len(parts) \in Nat \ {0}
    BY <1>1, <1>2, <1>5
  <2>2. PICK flat :
          /\ flat = [i \in 1..Len(parts) |-> IF i = 1 THEN parts[i] ELSE flat[i - 1] \o parts[i]]
          /\ FlattenSeq(parts) = flat[Len(parts)]
    <3> HIDE DEF parts
    <3> QED BY <2>1, FlattenIs
  <2>3. \A i \in 1..count : flat[i] = IF i = 1 THEN parts[i] ELSE flat[i - 1] \o parts[i]
    BY <1>2, <2>2
  <2>4. \A k \in 1..count : /\ LineAt(headers, k) \in Seq(Chars)
                            /\ k = 1 => parts[k] = LineAt(headers, k)
                            /\ k # 1 => parts[k] = <<"nl">> \o LineAt(headers, k)
    BY PartIs
  <2>5. ASSUME fit, NEW k \in 1..count
        PROVE  OneLine(LineAt(headers, k)) /\ IsText(LineAt(headers, k))
    <3>1. names[k] \in DOMAIN headers
      BY <1>1
    <3>2. IsHeader(names[k], headers[names[k]])
      BY <2>5, <3>1
    <3> QED BY <3>2, HeaderIs, LineIs DEF LineAt
  <2> HIDE DEF parts, names, count, fit
  <2> DEFINE Good(i) == /\ flat[i] \in Seq(Chars)
                        /\ fit => /\ IsText(flat[i])
                                  /\ LineTexts(flat[i]) = {LineAt(headers, k) : k \in 1..i}
             S == {i \in Nat : i \in 1..count => Good(i)}
  <2>6. 0 \in S
    OBVIOUS
  <2>7. ASSUME NEW i \in S
        PROVE  i + 1 \in S
    <3> SUFFICES ASSUME i + 1 \in 1..count PROVE Good(i + 1)
      OBVIOUS
    <3> DEFINE line == LineAt(headers, i + 1)
    <3>1. i \in Nat /\ line \in Seq(Chars)
      BY <2>4
    <3>2. CASE i = 0
      <4>1. flat[1] = LineAt(headers, 1)
        BY <2>3, <2>4, <3>2
      <4>2. 1..1 = {1}
        OBVIOUS
      <4>3. fit => OneLine(LineAt(headers, 1)) /\ IsText(LineAt(headers, 1))
        BY <2>5, <3>2
      <4>4. fit => LineTexts(flat[1]) = {LineAt(headers, k) : k \in 1..1}
        BY <3>1, <3>2, <4>1, <4>2, <4>3, LineOfOne
      <4> QED BY <3>1, <3>2, <4>1, <4>3, <4>4
    <3>3. CASE i # 0
      <4> DEFINE before == flat[i]  feed == <<"nl">>  rest == feed \o line
      <4>1. i \in 1..count /\ Good(i) /\ i + 1 # 1 /\ i + 1 - 1 = i
        BY <1>1, <3>1, <3>3
      <4>2. flat[i + 1] = before \o rest
        <5>1. flat[i + 1] = before \o parts[i + 1]
          <6> DEFINE j == i + 1
          <6>1. j \in 1..count /\ j # 1 /\ j - 1 = i
            BY <4>1
          <6> HIDE DEF j
          <6>2. flat[j] = flat[j - 1] \o parts[j]
            BY <2>3, <6>1
          <6>3. flat[j] = flat[i] \o parts[j]
            BY <6>1, <6>2
          <6> QED BY <6>3 DEF j
        <5>2. parts[i + 1] = <<"nl">> \o LineAt(headers, i + 1)
          BY <2>4, <4>1
        <5> QED BY <4>1, <5>1, <5>2
      <4>3. before \in Seq(Chars) /\ Len(before) \in Nat /\ Len(line) \in Nat
        BY <3>1, <4>1
      <4>4. feed \in Seq(Chars) /\ Len(feed) = 1 /\ feed[1] = "nl"
        <5>1. "nl" \in Chars
          BY DEF Chars
        <5> QED BY <5>1
      <4> DEFINE joint == flat[i + 1]  n == Len(before)
      <4>5. fit => OneLine(line) /\ IsText(line)
        BY <2>5
      <4>6. fit => IsText(before) /\ LineTexts(before) = {LineAt(headers, k) : k \in 1..i}
        BY <4>1
      <4>7. /\ joint \in Seq(Chars) /\ Len(joint) = n + 1 + Len(line)
            /\ joint[n + 1] = "nl"
            /\ \A j \in 1..n : joint[j] = before[j]
            /\ \A j \in 1..Len(line) : joint[n + 1 + j] = line[j]
        <5> HIDE DEF line, before, feed, rest
        <5>1. /\ rest \in Seq(Chars) /\ Len(rest) = 1 + Len(line)
              /\ \A j \in 1..1 : rest[j] = feed[j]
              /\ \A j \in 1..Len(line) : rest[1 + j] = line[j]
          <6>1. feed \in Seq(Chars) /\ line \in Seq(Chars)
            BY <3>1, <4>4
          <6>2. /\ feed \o line \in Seq(Chars) /\ Len(feed \o line) = Len(feed) + Len(line)
                /\ \A j \in 1..Len(feed) : (feed \o line)[j] = feed[j]
                /\ \A j \in 1..Len(line) : (feed \o line)[Len(feed) + j] = line[j]
            BY <6>1, JoinOf
          <6> QED BY <4>4, <6>2 DEF rest
        <5>2. /\ joint \in Seq(Chars) /\ Len(joint) = n + Len(rest)
              /\ \A j \in 1..n : joint[j] = before[j]
              /\ \A j \in 1..Len(rest) : joint[n + j] = rest[j]
          BY <4>2, <4>3, <5>1, JoinOf
        <5> HIDE DEF joint, n
        <5>3. Len(before) = n /\ n \in Nat
          BY <4>3 DEF n
        <5>4. joint[n + 1] = "nl"
          BY <4>3, <4>4, <5>1, <5>2
        <5>5. ASSUME NEW j \in 1..Len(line)
              PROVE  joint[n + 1 + j] = line[j]
          <6>1. 1 + j \in 1..Len(rest) /\ n + (1 + j) = n + 1 + j
            BY <4>3, <5>1, <5>3
          <6> QED BY <5>1, <5>2, <6>1
        <5>6. Len(joint) = n + 1 + Len(line)
          BY <4>3, <5>1, <5>2, <5>3
        <5> QED BY <5>2, <5>4, <5>5, <5>6
      <4>8. ASSUME fit
            PROVE  IsText(joint) /\ LineTexts(joint) = {LineAt(headers, k) : k \in 1..i + 1}
        <5> HIDE DEF before, joint, line
        <5>1. LineTexts(joint) = LineTexts(before) \cup {line}
          BY <3>1, <4>3, <4>5, <4>7, <4>8, LinesJoined
        <5>2. 1..i + 1 = 1..i \cup {i + 1}
          BY <3>1
        <5>3. {LineAt(headers, k) : k \in 1..i + 1} = {LineAt(headers, k) : k \in 1..i} \cup {line}
          BY <5>2 DEF line
        <5>4. ASSUME NEW j \in DOMAIN joint
              PROVE  joint[j] # "?"
          <6> HIDE DEF n
          <6>0. n = Len(before)
            BY DEF n
          <6>1. j \in 1..n + 1 + Len(line) /\ n \in Nat
            BY <4>3, <4>7, <6>0
          <6>2. CASE j <= n
            BY <4>3, <4>6, <4>7, <4>8, <6>0, <6>1, <6>2 DEF IsText
          <6>3. CASE j = n + 1
            BY <4>7, <6>3
          <6>4. CASE j > n + 1
            <7>1. j - (n + 1) \in 1..Len(line) /\ n + 1 + (j - (n + 1)) = j
              BY <4>3, <6>1, <6>4
            <7> QED BY <4>5, <4>7, <4>8, <7>1 DEF IsText
          <6> QED BY <4>3, <6>1, <6>2, <6>3, <6>4
        <5> QED BY <4>6, <4>8, <5>1, <5>3, <5>4 DEF IsText
      <4> QED BY <4>7, <4>8
    <3> QED BY <3>2, <3>3
  <2>8. S = Nat
    <3> HIDE DEF S
    <3>1. S \in SUBSET Nat
      BY DEF S
    <3> QED BY <2>6, <2>7, <3>1, Induction
  <2>9. count \in 1..count /\ count \in Nat
    BY <1>1, <1>2, <2>1
  <2>10. Good(count)
    BY <2>8, <2>9
  <2>11. HeaderLines(headers) = flat[count]
    BY <1>2, <1>3, <2>2
  <2>12. {LineAt(headers, k) : k \in 1..count} = {Line(n, headers[n]) : n \in DOMAIN headers}
    <3>1. \A k \in 1..count : LineAt(headers, k) = Line(names[k], headers[names[k]])
      BY DEF LineAt, names
    <3> QED BY <1>1, <3>1
  <2> QED BY <1>5, <2>10, <2>11, <2>12 DEF fit
<1> QED BY <1>4, <1>5

\* Headers that are not refused read back as they were written.
LEMMA HeadersReadBack ==
  ASSUME NEW headers, AreHeaders(headers), ~FramesRefuses(headers)
  PROVE  DecodeHeaders(HeaderLines(headers)) = [ok |-> TRUE, map |-> headers]
<1> DEFINE text == HeaderLines(headers)
<1>1. \A n \in DOMAIN headers : IsHeader(n, headers[n])
  BY DEF AreHeaders, FramesRefuses, IsHeader, Text
<1>2. /\ text \in Seq(Chars) /\ IsText(text)
      /\ LineTexts(text) =
           IF DOMAIN headers = {} THEN {<<>>} ELSE {Line(n, headers[n]) : n \in DOMAIN headers}
  BY <1>1, HeaderLinesRead
<1> HIDE DEF text
<1>3. ASSUME NEW n \in DOMAIN headers
      PROVE  IsLineOf(Line(n, headers[n]), n, headers[n])
  BY <1>1, HeaderIs, LineIs
<1>4. ASSUME NEW l \in Written(text)
      PROVE  \E n \in DOMAIN headers : l.text = Line(n, headers[n])
  <2>1. l.text \in LineTexts(text) /\ Trim(l.text) # <<>>
    BY LinesAre DEF Written, LineTexts
  <2>2. Trim(<<>>) = <<>>
    BY DEF Trim
  <2>3. DOMAIN headers # {} => l.text \in {Line(n, headers[n]) : n \in DOMAIN headers}
    BY <1>2, <2>1
  <2>4. DOMAIN headers = {} => l.text \in {<<>>}
    BY <1>2, <2>1
  <2> QED BY <2>1, <2>2, <2>3, <2>4
<1>5. ASSUME NEW l \in Written(text)
      PROVE  Contains(l.text, ":") /\ Entry(l).name \in DOMAIN headers /\ Entry(l).value = headers[Entry(l).name]
  <2>1. PICK n \in DOMAIN headers : l.text = Line(n, headers[n])
    BY <1>4
  <2> QED BY <1>1, <1>3, <2>1, EntryOfOwn
<1>6. ASSUME NEW n \in DOMAIN headers
      PROVE  \E l \in Written(text) : Entry(l).name = n
  <2>1. Line(n, headers[n]) \in LineTexts(text)
    BY <1>2
  <2>2. PICK i \in Ends(text) \ {Len(text) + 1} : LineFrom(text, i) = Line(n, headers[n])
    BY <2>1 DEF LineTexts
  <2> DEFINE l == [at |-> i, text |-> LineFrom(text, i)]
  <2>3. l \in Lines(text) /\ l.text = Line(n, headers[n])
    BY <2>2, LinesAre
  <2> HIDE DEF l
  <2>4. Entry(l).name = n /\ Trim(l.text) # <<>>
    BY <1>1, <1>3, <2>3, EntryOfOwn
  <2> QED BY <2>3, <2>4 DEF Written
<1>7. \A n : n \in {e.name : e \in Entries(text)} <=> n \in DOMAIN headers
  BY <1>5, <1>6 DEF Entries
<1>8. ASSUME NEW n \in DOMAIN headers
      PROVE  LastOf(text, n).value = headers[n]
  <2>1. LastOf(text, n) \in Entries(text) /\ LastOf(text, n).name = n
    BY <1>2, <1>7, LastIsOne
  <2>2. PICK l \in Written(text) : LastOf(text, n) = Entry(l)
    BY <2>1 DEF Entries
  <2> QED BY <1>5, <2>1, <2>2
<1>9. {e.name : e \in Entries(text)} = DOMAIN headers
  BY <1>7
<1>10. headers = [n \in DOMAIN headers |-> headers[n]]
  BY DEF AreHeaders
<1>11. [n \in {e.name : e \in Entries(text)} |-> LastOf(text, n).value] = headers
  BY <1>8, <1>9, <1>10
<1> QED BY <1>2, <1>5, <1>11, DecodeIs DEF text

------------------------------------------------------------------------------
(* Every envelope. *)

\* What a message of this crate is made of.
LEMMA MessageIs ==
  ASSUME NEW message, IsMessage(message)
  PROVE  /\ message.name \in Seq(Chars) /\ IsText(message.name)
         /\ AreHeaders(message.headers)
         /\ message.payload = [body |-> message.payload.body]
BY DEF IsMessage, Text, AreHeaders

\* Two frames in a row.
LEMMA TwoFrames ==
  ASSUME NEW a, NEW b
  PROVE  <<a>> \o <<b>> = <<a, b>>
<1> DEFINE S == {a, b}  one == <<a>>  other == <<b>>  joint == one \o other  pair == <<a, b>>
<1>1. /\ one \in Seq(S) /\ Len(one) = 1 /\ one[1] = a
      /\ other \in Seq(S) /\ Len(other) = 1 /\ other[1] = b
      /\ pair \in Seq(S) /\ Len(pair) = 2 /\ pair[1] = a /\ pair[2] = b
  OBVIOUS
<1> HIDE DEF S, one, other, pair
<1>2. /\ joint \in Seq(S) /\ Len(joint) = Len(one) + Len(other)
      /\ \A i \in 1..Len(one) + Len(other) : joint[i] = IF i <= Len(one) THEN one[i] ELSE other[i - Len(one)]
  BY <1>1, ConcatProperties
<1> HIDE DEF joint
<1>3. Len(joint) = 2 /\ joint[1] = a /\ joint[2] = b
  BY <1>1, <1>2
<1>4. \A i \in 1..Len(joint) : joint[i] = pair[i]
  BY <1>1, <1>3
<1>5. joint = pair
  BY <1>1, <1>2, <1>3, <1>4, SeqEqual
<1> QED BY <1>5 DEF joint, one, other, pair

\* A message an envelope does not refuse reads back as it was published: its name, where
\* the layout has a frame for one, its headers and its payload (seal and open of Frames,
\* NoOp and Framed).
THEOREM ReadsBack ==
  ASSUME NEW env \in Envelopes, NEW pattern \in Patterns,
         NEW message, IsMessage(message), ~Refuses(env, message)
  PROVE  \E head :
           /\ Open(env, pattern, Layout(env, pattern, message)) =
                Opened(IF env = "noop" /\ pattern # "PubSub" THEN <<>> ELSE message.name,
                       head, message.payload)
           /\ Headers(env, head) = message.headers
<1> DEFINE headers == message.headers
<1>1. /\ IsText(message.name) /\ AreHeaders(headers)
      /\ message.payload = [body |-> message.payload.body]
  BY MessageIs
<1>2. headers = [n \in DOMAIN headers |-> headers[n]]
  BY <1>1 DEF AreHeaders
<1> HIDE DEF headers
<1>3. CASE env = "frames"
  <2> DEFINE head == HeaderLines(headers)
  <2>1. DecodeHeaders(head) = [ok |-> TRUE, map |-> headers]
    BY <1>1, <1>3, HeadersReadBack DEF Refuses, headers
  <2>2. Headers(env, head) = headers
    BY <1>3, <2>1 DEF Headers
  <2>3. Layout(env, pattern, message) = << [text |-> message.name], [text |-> head], message.payload >>
    BY <1>3 DEF Layout, headers
  <2>4. Open(env, pattern, Layout(env, pattern, message)) = Opened(message.name, head, message.payload)
    <3> HIDE DEF head
    <3> QED BY <1>1, <1>3, <2>3 DEF Open, OpenFrames, Named
  <2> QED BY <1>3, <2>2, <2>4 DEF headers
<1>4. CASE env = "noop"
  <2>1. DOMAIN headers = {}
    BY <1>4 DEF Refuses, headers
  <2>2. headers = NoHeaders
    BY <1>2, <2>1 DEF NoHeaders
  <2>3. \A head : Headers(env, head) = headers
    BY <1>4, <2>2 DEF Headers
  <2>4. CASE pattern = "PubSub"
    <3>1. Layout(env, pattern, message) = << [text |-> message.name], message.payload >>
      <4>1. Layout(env, pattern, message) = << [text |-> message.name] >> \o << message.payload >>
        BY <1>4, <2>4 DEF Layout
      <4> QED BY <4>1, TwoFrames
    <3>2. Open(env, pattern, Layout(env, pattern, message)) = Opened(message.name, <<>>, message.payload)
      BY <1>1, <1>4, <2>4, <3>1 DEF Open, OpenNoOp, Named
    <3> QED BY <2>3, <2>4, <3>2 DEF headers
  <2>5. CASE pattern # "PubSub"
    <3>1. Layout(env, pattern, message) = << message.payload >>
      BY <1>4, <2>5 DEF Layout
    <3>2. Open(env, pattern, Layout(env, pattern, message)) = Opened(<<>>, <<>>, message.payload)
      BY <1>4, <2>5, <3>1 DEF Open, OpenNoOp
    <3> QED BY <1>4, <2>3, <2>5, <3>2 DEF headers
  <2> QED BY <2>4, <2>5
<1>5. CASE env \notin {"frames", "noop"}
  <2> DEFINE doc == Document(env, headers, message.payload)
  <2>1. \A n \in DOMAIN headers : IsText(headers[n])
    BY <1>5 DEF Refuses, headers
  <2>2. [n \in DOMAIN headers |-> IF IsText(headers[n]) THEN headers[n] ELSE <<>>] = headers
    BY <1>2, <2>1
  <2>3. Layout(env, pattern, message) = << [text |-> message.name], [doc |-> doc] >>
    BY <1>5, <2>2 DEF Layout, headers
  <2>4. IsDocument(env, [doc |-> doc]) /\ DocumentPayload(env, doc) = message.payload
    BY <1>1, <1>5 DEF IsDocument, Document, DocumentPayload, IsJsonText, JsonValue
  <2>5. DocumentHeaders(doc) = [ok |-> TRUE, map |-> headers]
    BY DEF DocumentHeaders, Document, NoDocument
  <2>6. Headers(env, doc) = headers
    BY <1>5, <2>5 DEF Headers
  <2>7. Open(env, pattern, Layout(env, pattern, message)) = Opened(message.name, doc, message.payload)
    <3> HIDE DEF doc
    <3> QED BY <1>1, <1>5, <2>3, <2>4 DEF Open, OpenFramed, Named
  <2> QED BY <1>5, <2>6, <2>7 DEF headers
<1> QED BY <1>3, <1>4, <1>5

\* A refusal is no refusal of what would have been read, unless a header holds a carriage
\* return: the frames that the envelope would have written for the message do not read back
\* as it (the checks of the three seal).
THEOREM RefusedIsLost ==
  ASSUME NEW env \in Envelopes, NEW pattern \in Patterns,
         NEW message, IsMessage(message), Refuses(env, message), ~HoldsReturn(env, message)
  PROVE  LET read == Open(env, pattern, Layout(env, pattern, message))
         IN  ~read.ok \/ Headers(env, read.head) # message.headers
<1> DEFINE headers == message.headers  read == Open(env, pattern, Layout(env, pattern, message))
<1>1. IsText(message.name) /\ AreHeaders(headers)
  BY MessageIs
<1>2. CASE env = "frames"
  <2> DEFINE head == HeaderLines(headers)
  <2>1. read.head = head
    <3>1. Layout(env, pattern, message) = << [text |-> message.name], [text |-> head], message.payload >>
      BY <1>2 DEF Layout
    <3> HIDE DEF head
    <3> QED BY <1>1, <1>2, <3>1 DEF Open, OpenFrames, Named, Opened
  <2>2. FramesRefuses(headers)
    BY <1>2 DEF Refuses
  <2>3. head \in Seq(Chars)
    BY <1>1, HeaderLinesRead
  <2>6. ~ \E n \in DOMAIN headers : Contains(n, "cr") \/ Contains(headers[n], "cr")
    BY <1>2 DEF HoldsReturn
  <2> HIDE DEF head, headers, read
  <2>4. CASE DecodeHeaders(head).ok
    <3>1. Headers(env, head) = DecodeHeaders(head).map
      BY <1>2, <2>4 DEF Headers
    <3>2. DecodeHeaders(head).map # headers
      <4>1. SUFFICES ASSUME DecodeHeaders(head).map = headers PROVE FALSE
        OBVIOUS
      <4> QED BY <2>2, <2>3, <2>4, <2>6, <4>1, DecodedIsWritable
    <3> QED BY <2>1, <3>1, <3>2 DEF read, headers
  <2>5. CASE ~DecodeHeaders(head).ok
    <3>1. Headers(env, head) = NoHeaders
      BY <1>2, <2>5 DEF Headers
    <3>2. headers # NoHeaders
      BY <2>2 DEF FramesRefuses, NoHeaders
    <3> QED BY <2>1, <3>1, <3>2 DEF read, headers
  <2> QED BY <2>4, <2>5
<1>3. CASE env = "noop"
  <2>1. DOMAIN headers # {}
    BY <1>3 DEF Refuses
  <2>2. \A head : Headers(env, head) = NoHeaders
    BY <1>3 DEF Headers
  <2>3. headers # NoHeaders
    BY <2>1 DEF NoHeaders
  <2> QED BY <2>2, <2>3
<1>4. CASE env \notin {"frames", "noop"}
  <2> DEFINE written == [n \in DOMAIN headers |-> IF IsText(headers[n]) THEN headers[n] ELSE <<>>]
             doc == Document(env, written, message.payload)
  <2>1. PICK n \in DOMAIN headers : ~IsText(headers[n])
    BY <1>4 DEF Refuses
  <2>2. IsText(<<>>)
    BY DEF IsText
  <2>3. written # headers
    <3>1. written[n] = <<>> /\ headers[n] # <<>>
      BY <2>1, <2>2
    <3> QED BY <3>1
  <2>4. Headers(env, doc) = written
    <3>1. DocumentHeaders(doc) = [ok |-> TRUE, map |-> written]
      BY DEF DocumentHeaders, Document, NoDocument
    <3> QED BY <1>4, <3>1 DEF Headers
  <2>5. read.head = doc
    <3>1. Layout(env, pattern, message) = << [text |-> message.name], [doc |-> doc] >>
      BY <1>4 DEF Layout
    <3>2. IsDocument(env, [doc |-> doc])
      BY <1>4 DEF IsDocument, Document
    <3> HIDE DEF doc
    <3> QED BY <1>1, <1>4, <3>1, <3>2 DEF Open, OpenFramed, Named, Opened
  <2> QED BY <2>3, <2>4, <2>5
<1> QED BY <1>2, <1>3, <1>4

\* The most frames a layout has.
Most(env, pattern) ==
  CASE env = "frames" -> 3
    [] env = "noop" /\ pattern # "PubSub" -> 1
    [] OTHER -> 2

\* What an opened delivery holds.
LEMMA OpenedIs ==
  ASSUME NEW name, NEW head, NEW payload
  PROVE  LET opened == Opened(name, head, payload)
         IN  opened.ok /\ opened.head = head /\ opened.payload = payload /\ ~WireError.ok
             /\ opened = Opened(opened.name, opened.head, opened.payload)
BY DEF Opened, WireError

\* Whatever a peer sends is opened as far as its layout goes, or is an error.
LEMMA PeerOpens ==
  ASSUME NEW env \in Envelopes, NEW pattern \in Patterns, NEW S, NEW frames \in Seq(S), frames # <<>>
  PROVE  LET opened == Open(env, pattern, frames)
             last   == frames[Len(frames)]
         IN  /\ opened = WireError \/ opened = Opened(opened.name, opened.head, opened.payload)
             /\ opened.ok <=> /\ Len(frames) <= Most(env, pattern)
                              /\ Len(frames) > 1 => IsText(frames[1].text)
             /\ opened.ok => opened.payload = last \/ ("doc" \in DOMAIN last /\ env \notin {"frames", "noop"})
             /\ opened.ok /\ Len(frames) = 3 => env = "frames" /\ opened.head = frames[2].text
<1> DEFINE n == Len(frames)  opened == Open(env, pattern, frames)
           named == IsText(frames[1].text)  name == frames[1].text
<1>1. n \in Nat /\ n >= 1 /\ n = Len(frames)
  OBVIOUS
<1> DEFINE most == Most(env, pattern)  last == frames[n]
<1> SUFFICES /\ opened = WireError \/ opened = Opened(opened.name, opened.head, opened.payload)
             /\ opened.ok <=> n <= most /\ (n > 1 => named)
             /\ opened.ok => opened.payload = last \/ ("doc" \in DOMAIN last /\ env \notin {"frames", "noop"})
             /\ opened.ok /\ n = 3 => env = "frames" /\ opened.head = frames[2].text
  OBVIOUS
<1> HIDE DEF n, most
<1>2. CASE env = "frames"
  <2>1. most = 3 /\ opened = OpenFrames(frames)
    BY <1>2 DEF Most, Open, most
  <2>2. /\ n = 1 => opened = Opened(<<>>, <<>>, frames[1])
        /\ n = 2 => opened = IF named THEN Opened(name, <<>>, frames[2]) ELSE WireError
        /\ n = 3 => opened = IF named THEN Opened(name, frames[2].text, frames[3]) ELSE WireError
        /\ n > 3 => opened = WireError
    <3> HIDE DEF opened, name
    <3> QED BY <1>1, <2>1 DEF OpenFrames, Named, name
  <2> HIDE DEF opened, named, name
  <2>3. n = 1 \/ n = 2 \/ n = 3 \/ n > 3
    BY <1>1
  <2>4. CASE n = 1
    BY <2>1, <2>2, <2>4, OpenedIs
  <2>5. CASE n = 2
    BY <2>1, <2>2, <2>5, OpenedIs
  <2>6. CASE n = 3
    BY <1>2, <2>1, <2>2, <2>6, OpenedIs
  <2>7. CASE n > 3
    BY <1>1, <2>1, <2>2, <2>7, OpenedIs
  <2> QED BY <2>3, <2>4, <2>5, <2>6, <2>7
<1>3. CASE env = "noop"
  <2>1. /\ most = IF pattern = "PubSub" THEN 2 ELSE 1
        /\ opened = OpenNoOp(pattern, frames)
    BY <1>3 DEF Most, Open, most
  <2>2. /\ n = 1 => opened = Opened(<<>>, <<>>, frames[1])
        /\ n = 2 /\ pattern = "PubSub" => opened = IF named THEN Opened(name, <<>>, frames[2]) ELSE WireError
        /\ n = 2 /\ pattern # "PubSub" => opened = WireError
        /\ n > 2 => opened = WireError
    <3> HIDE DEF opened, name
    <3> QED BY <1>1, <2>1 DEF OpenNoOp, Named, name
  <2> HIDE DEF opened, named, name
  <2>3. n = 1 \/ n = 2 \/ n > 2
    BY <1>1
  <2>4. CASE n = 1
    BY <2>1, <2>2, <2>4, OpenedIs
  <2>5. CASE n = 2
    BY <2>1, <2>2, <2>5, OpenedIs
  <2>6. CASE n > 2
    BY <1>1, <2>1, <2>2, <2>6, OpenedIs
  <2> QED BY <2>3, <2>4, <2>5, <2>6
<1>4. CASE env \notin {"frames", "noop"}
  <2> DEFINE known == IsDocument(env, frames[2])
  <2>1. most = 2 /\ opened = OpenFramed(env, frames)
    BY <1>4 DEF Most, Open, most
  <2>2. /\ n = 1 => opened = Opened(<<>>, NoDocument, frames[1])
        /\ n = 2 /\ known => opened = IF named THEN Opened(name, frames[2].doc, DocumentPayload(env, frames[2].doc))
                                               ELSE WireError
        /\ n = 2 /\ ~known => opened = IF named THEN Opened(name, NoDocument, frames[2]) ELSE WireError
        /\ n > 2 => opened = WireError
    <3> HIDE DEF opened, name
    <3> QED BY <1>1, <2>1 DEF OpenFramed, Named, name
  <2>3. known => "doc" \in DOMAIN frames[2]
    BY DEF IsDocument
  <2> HIDE DEF opened, named, name, known
  <2>4. n = 1 \/ n = 2 \/ n > 2
    BY <1>1
  <2>5. CASE n = 1
    BY <2>1, <2>2, <2>5, OpenedIs
  <2>6. CASE n = 2
    BY <1>4, <2>1, <2>2, <2>3, <2>6, OpenedIs
  <2>7. CASE n > 2
    BY <1>1, <2>1, <2>2, <2>7, OpenedIs
  <2> QED BY <2>4, <2>5, <2>6, <2>7
<1> QED BY <1>2, <1>3, <1>4
==============================================================================
