-------------------------- MODULE CardServiceProofs ---------------------------
(***************************************************************************)
(* Theorems about the list of cards (CardList) and about the service loop  *)
(* that works with it (CardService): for every file, every limit of its    *)
(* size and of the number of lines, every set of cards and every number of *)
(* cards shown, with and without failing calls.                            *)
(***************************************************************************)
EXTENDS CardService, TLAPS, WellFoundedInduction

LEMMA ElementOfSeq ==
  ASSUME NEW S, NEW q \in Seq(S), NEW i \in 1 .. Len(q)
  PROVE  q[i] \in S
  OBVIOUS

\* Of some positions there is a first one.
LEMMA LeastNat ==
  ASSUME NEW S \in SUBSET Nat, S # {}
  PROVE  \E m \in S : \A k \in S : m <= k
<1> DEFINE R == {ss \in Nat \X Nat : ss[1] < ss[2]}
<1>1. IsWellFoundedOn(R, Nat)
  BY NatLessThanWellFounded DEF OpToRel
<1>2. PICK m \in S : \A k \in S : ~(<<k, m>> \in R)
  <2> HIDE DEF R
  <2> QED BY <1>1, WFMin
<1>3. \A k \in S : k \in Nat /\ m \in Nat /\ ~(k < m)
  BY <1>2
<1>4. QED
  BY <1>3

-----------------------------------------------------------------------------
(***************************************************************************)
(* Strings, lines and cards.                                               *)
(***************************************************************************)

\* A character before which a part of a string ends: the string that begins at p
\* has an end, which is the last position before the first such character.
LEMMA EndExists ==
  ASSUME NEW n \in Nat, NEW p \in 1 .. n, NEW A, p \notin A
  PROVE  \E e \in p .. n : /\ e = n \/ e + 1 \in A
                           /\ \A j \in p .. e : j \notin A
<1> DEFINE S == {e \in p .. n : e = n \/ e + 1 \in A}
<1>1. S \in SUBSET Nat /\ n \in S
  OBVIOUS
<1>2. PICK m \in S : \A k \in S : m <= k
  <2> HIDE DEF S
  <2> QED BY <1>1, LeastNat
<1>3. ASSUME NEW j \in p .. m PROVE j \notin A
  <2>1. CASE j = p
    BY <2>1
  <2>2. CASE j # p
    <3>1. j - 1 \in p .. n /\ j - 1 < m /\ (j - 1) + 1 = j /\ m \in Nat
      BY <2>2
    <3>2. j - 1 \notin S
      BY <1>2, <3>1
    <3>3. QED
      BY <3>1, <3>2
  <2>3. QED
    BY <2>1, <2>2
<1>4. QED
  BY <1>2, <1>3

LEMMA PairType ==
  ASSUME NEW a \in Char, NEW b \in Char
  PROVE  Pair(a, b) \in 0 .. 255
  BY DEF Pair, Char, Blank

LEMMA CardOfType ==
  ASSUME NEW t \in Seq(Char)
  PROVE  CardOf(t) \in Seq(0 .. 255) /\ Len(CardOf(t)) <= CardDataLength
<1>1. CASE Len(t) <= 2 * CardDataLength
  <2> DEFINE n == Len(t) \div 2
  <2>1. n \in Nat /\ 2 * n <= Len(t)
    OBVIOUS
  <2>5. n <= CardDataLength
    BY <1>1, <2>1, CardListAssumption
  <2> HIDE DEF n
  <2>2. ASSUME NEW j \in 1 .. n PROVE Pair(t[2 * j - 1], t[2 * j]) \in 0 .. 255
    <3>1. 2 * j - 1 \in 1 .. Len(t) /\ 2 * j \in 1 .. Len(t)
      BY <2>1
    <3>2. t[2 * j - 1] \in Char /\ t[2 * j] \in Char
      BY <3>1
    <3>3. QED
      BY <3>2, PairType
  <2>3. [j \in 1 .. n |-> Pair(t[2 * j - 1], t[2 * j])] \in Seq(0 .. 255)
    BY <2>1, <2>2
  <2>6. CardOf(t) = [j \in 1 .. n |-> Pair(t[2 * j - 1], t[2 * j])]
    BY <1>1 DEF CardOf, n
  <2>4. QED
    BY <2>1, <2>3, <2>5, <2>6
<1>2. CASE ~(Len(t) <= 2 * CardDataLength)
  BY <1>2, CardListAssumption DEF CardOf
<1>3. QED
  BY <1>1, <1>2

\* A string of the buffer is made of its characters.
LEMMA StringType ==
  ASSUME buf \in Seq(Char), NEW p \in 1 .. Len(buf), buf[p] # Nul
  PROVE  StringAt(p) \in Seq(Char)
<1> DEFINE E(e) == /\ e = Len(buf) \/ buf[e + 1] = Nul
                   /\ \A j \in p .. e : buf[j] # Nul
           end  == CHOOSE e \in p .. Len(buf) : E(e)
           A    == {q \in 1 .. Len(buf) : buf[q] = Nul}
<1>1. \E e \in p .. Len(buf) : E(e)
  <2>1. PICK e \in p .. Len(buf) : (e = Len(buf) \/ e + 1 \in A) /\ \A j \in p .. e : j \notin A
    <3>1. p \notin A /\ Len(buf) \in Nat
      OBVIOUS
    <3> HIDE DEF A
    <3> QED BY <3>1, EndExists
  <2>2. \A j \in p .. e : j \in 1 .. Len(buf)
    OBVIOUS
  <2>3. E(e)
    BY <2>1, <2>2
  <2>4. QED
    BY <2>3
<1>2. end \in p .. Len(buf)
  BY <1>1
<1>3. StringAt(p) = SubSeq(buf, p, end)
  BY DEF StringAt
<1> HIDE DEF end
<1>4. SubSeq(buf, p, end) \in Seq(Char)
  BY <1>2
<1>5. QED
  BY <1>3, <1>4

\* With a 0 for every line end, the strings of the buffer are the lines of the file.
LEMMA StringIsLine ==
  ASSUME file \in Seq(Char), buf \in Seq(Char), Len(buf) = Len(file),
         \A q \in 1 .. Len(file) : buf[q] = IF Ends(file[q]) THEN Nul ELSE file[q],
         NEW p \in Beginnings
  PROVE  StringAt(p) = LineAt(p)
<1> DEFINE B(e) == /\ e = Len(buf) \/ buf[e + 1] = Nul
                   /\ \A j \in p .. e : buf[j] # Nul
           F(e) == /\ e = Len(file) \/ Ends(file[e + 1])
                   /\ \A j \in p .. e : ~Ends(file[j])
           A    == {q \in 1 .. Len(file) : Ends(file[q])}
           end  == CHOOSE e \in p .. Len(file) : F(e)
<1>1. p \in 1 .. Len(file) /\ ~Ends(file[p]) /\ Len(file) \in Nat
  BY DEF Beginnings, Begins
<1>2. \A q \in 1 .. Len(file) : buf[q] = Nul <=> Ends(file[q])
  BY DEF Ends
<1>3. \A e \in p .. Len(file) : B(e) <=> F(e)
  <2> SUFFICES ASSUME NEW e \in p .. Len(file) PROVE B(e) <=> F(e)
    OBVIOUS
  <2>1. \A j \in p .. e : j \in 1 .. Len(file)
    BY <1>1
  <2>2. e # Len(file) => e + 1 \in 1 .. Len(file)
    BY <1>1
  <2>3. QED
    BY <1>2, <2>1, <2>2
<1>4. end \in p .. Len(file) /\ F(end)
  <2>1. PICK e \in p .. Len(file) : (e = Len(file) \/ e + 1 \in A) /\ \A j \in p .. e : j \notin A
    <3>1. p \notin A
      BY <1>1
    <3> HIDE DEF A
    <3> QED BY <1>1, <3>1, EndExists
  <2>2. \A j \in p .. e : j \in 1 .. Len(file)
    BY <1>1
  <2>3. F(e)
    BY <2>1, <2>2
  <2>4. QED
    BY <2>3
<1>5. StringAt(p) = SubSeq(buf, p, end) /\ LineAt(p) = SubSeq(file, p, end)
  <2>1. StringAt(p) = SubSeq(buf, p, CHOOSE e \in p .. Len(file) : B(e))
    BY DEF StringAt
  <2>2. LineAt(p) = SubSeq(file, p, CHOOSE e \in p .. Len(file) : F(e))
    BY DEF LineAt
  <2>3. (CHOOSE e \in p .. Len(file) : B(e)) = (CHOOSE e \in p .. Len(file) : F(e))
    <3> HIDE DEF B, F
    <3> QED BY <1>3
  <2>4. QED
    BY <2>1, <2>2, <2>3
<1>6. \A j \in p .. end : j \in 1 .. Len(file) /\ buf[j] = file[j]
  BY <1>1, <1>4
<1> HIDE DEF end
<1>7. SubSeq(buf, p, end) = SubSeq(file, p, end)
  <2>1. end \in p .. Len(file)
    BY <1>4
  <2>2. SubSeq(buf, p, end) = [i \in 1 .. end - p + 1 |-> buf[i + p - 1]]
    BY <1>1, <2>1
  <2>3. SubSeq(file, p, end) = [i \in 1 .. end - p + 1 |-> file[i + p - 1]]
    BY <1>1, <2>1
  <2>4. \A i \in 1 .. end - p + 1 : buf[i + p - 1] = file[i + p - 1]
    BY <1>1, <1>6, <2>1
  <2>5. QED
    BY <2>2, <2>3, <2>4
<1>8. QED
  BY <1>5, <1>7

\* FindCard finds a card of the list, and finds it if it is there.
LEMMA FindCardFinds ==
  ASSUME cardsCount \in Nat, NEW c
  PROVE  FindCard(c) # 0 <=> c # << >> /\ \E i \in 1 .. cardsCount : cards[i] = c
<1> DEFINE hits == {i \in 1 .. cardsCount : c # << >> /\ cards[i] = c}
<1>1. CASE hits = {}
  BY <1>1 DEF FindCard
<1>2. CASE hits # {}
  <2>1. \E i \in hits : \A j \in hits : i <= j
    <3>1. hits \in SUBSET Nat
      OBVIOUS
    <3> HIDE DEF hits
    <3> QED BY <1>2, <3>1, LeastNat
  <2>2. FindCard(c) = CHOOSE i \in hits : \A j \in hits : i <= j
    BY <1>2 DEF FindCard
  <2>3. FindCard(c) \in hits
    <3> HIDE DEF hits
    <3> QED BY <2>1, <2>2
  <2>4. QED
    BY <2>3
<1>3. QED
  BY <1>1, <1>2

-----------------------------------------------------------------------------
(***************************************************************************)
(* The inductive invariant of the list.                                    *)
(***************************************************************************)
SplitType ==
    /\ file \in Files /\ file \in Seq(Char)
    /\ buf \in Seq(Char) /\ (Len(file) < MaxFile => Len(buf) <= Len(file))
    /\ l \in 0 .. Len(buf)
    /\ lines \in Seq(Nat) /\ Len(lines) <= MaxLines
    /\ cardsCount \in 0 .. MaxLines
    /\ next \in 1 .. MaxLines + 1
    /\ cards \in [1 .. MaxLines -> Seq(0 .. 255)]
    /\ \A i \in 1 .. MaxLines : Len(cards[i]) <= CardDataLength

Splits == pc \in {"split", "inLine"}
Uses   == pc = "fill" \/ (pc = "ready" /\ cardsCount > 0)

\* The buffer begins with the file, from Mark on with a 0 for every line end; it
\* goes on behind it only if the file fills it.
LoadedIsFile ==
    /\ Len(buf) >= Len(file) /\ (Len(file) < MaxFile => Len(buf) = Len(file))
    /\ \A q \in 1 .. Len(file) : buf[q] = file[q]

MarkedIsFile ==
    /\ Len(buf) >= Len(file) /\ (Len(file) < MaxFile => Len(buf) = Len(file))
    /\ \A q \in 1 .. Len(file) : buf[q] = IF Ends(file[q]) THEN Nul ELSE file[q]

\* The lines found so far are those that begin in the part gone through.
FoundSoFar ==
    /\ \A k \in 1 .. Len(lines) : lines[k] \in Beginnings /\ lines[k] <= l
    /\ \A j, k \in 1 .. Len(lines) : j < k => lines[j] < lines[k]
    /\ \A p \in Beginnings : p <= l => \E k \in 1 .. Len(lines) : lines[k] = p

\* Within a line the character before the pointer belongs to it; between two
\* lines there is a 0 on one side of the pointer.
BetweenLines ==
    /\ pc = "inLine" => l \in 1 .. Len(buf) /\ buf[l] # Nul
    /\ pc = "split" =>
         \/ l = 0 \/ l >= Len(file)
         \/ l \in 1 .. Len(file) - 1 /\ (buf[l] = Nul \/ buf[l + 1] = Nul)

\* The list found is that of the whole file, and in it the first n lines have
\* their cards.
Whole == FoundSoFar /\ l >= Len(file) /\ cardsCount = Len(lines) /\ cardsCount > 0

Filled(n) == \A i \in 1 .. n : cards[i] = CardOf(StringAt(lines[i]))

ListInv ==
    /\ SplitType
    /\ pc \in {"load", "mark", "split", "inLine", "fill", "ready"}
    /\ pc \in {"load", "mark"} => l = 0 /\ lines = << >>
    /\ pc = "load" => buf = << >>
    /\ pc = "mark" => LoadedIsFile
    /\ Splits \/ Uses => MarkedIsFile
    /\ Splits => FoundSoFar /\ BetweenLines
    /\ pc \in {"load", "mark", "split", "inLine"} => cardsCount = 0 /\ next = 1
    /\ Uses => Whole
    /\ pc = "fill" => next <= cardsCount /\ Filled(next - 1)
    /\ Uses /\ pc = "ready" => Filled(cardsCount)
    /\ FileIsUsed

-----------------------------------------------------------------------------
\* Who looks at the buffer from Mark on sees the line ends.
LEMMA NulIsEnd ==
  ASSUME MarkedIsFile, NEW q \in 1 .. Len(file)
  PROVE  buf[q] = Nul <=> Ends(file[q])
  BY DEF MarkedIsFile, Ends

LEMMA NothingFoundYet ==
  ASSUME l = 0, lines = << >>
  PROVE  FoundSoFar
  BY DEF FoundSoFar, Beginnings

LEMMA BeginLineStep ==
  ASSUME ListInv, BeginLine
  PROVE  FoundSoFar' /\ BetweenLines'
<1>1. /\ l \in 0 .. Len(file) - 1 /\ l + 1 \in 1 .. Len(file) /\ Len(file) \in Nat
      /\ buf[l + 1] # Nul /\ Len(buf) \in Nat /\ Len(file) <= Len(buf) /\ MarkedIsFile
  BY DEF ListInv, SplitType, MarkedIsFile, BeginLine, Splitting, Splits
<1>2. l + 1 \in Beginnings
  <2>1. ~Ends(file[l + 1])
    BY <1>1, NulIsEnd
  <2>2. CASE l = 0
    BY <1>1, <2>1, <2>2 DEF Beginnings, Begins
  <2>3. CASE l # 0
    <3>1. l \in 1 .. Len(file) /\ buf[l] = Nul
      BY <1>1, <2>3 DEF ListInv, BetweenLines, BeginLine, Splitting, Splits
    <3>2. Ends(file[l])
      BY <1>1, <3>1, NulIsEnd
    <3>3. QED
      BY <1>1, <2>1, <3>2 DEF Beginnings, Begins
  <2>4. QED
    BY <2>2, <2>3
<1>3. /\ Len(lines') = Len(lines) + 1 /\ Len(lines) \in Nat
      /\ lines'[Len(lines) + 1] = l + 1
      /\ \A k \in 1 .. Len(lines) : lines'[k] = lines[k]
  BY <1>1 DEF ListInv, SplitType, BeginLine
<1>4. FoundSoFar /\ l' = l + 1 /\ Beginnings' = Beginnings /\ pc' = "inLine" /\ buf' = buf
  BY DEF ListInv, BeginLine, Splitting, Splits, Beginnings, Begins, Ends
<1>5. \A p \in Beginnings : p \in Nat
  BY DEF Beginnings
<1>6. FoundSoFar'
  <2>1. ASSUME NEW k \in 1 .. Len(lines') PROVE lines'[k] \in Beginnings' /\ lines'[k] <= l'
    BY <1>1, <1>2, <1>3, <1>4, <1>5 DEF FoundSoFar
  <2>2. ASSUME NEW j \in 1 .. Len(lines'), NEW k \in 1 .. Len(lines'), j < k
        PROVE  lines'[j] < lines'[k]
    <3>1. j \in 1 .. Len(lines)
      BY <1>3, <2>2
    <3>2. CASE k = Len(lines) + 1
      BY <1>1, <1>3, <1>4, <1>5, <3>1, <3>2 DEF FoundSoFar
    <3>3. CASE k \in 1 .. Len(lines)
      BY <1>3, <1>4, <2>2, <3>1, <3>3 DEF FoundSoFar
    <3>4. QED
      BY <1>3, <3>2, <3>3
  <2>3. ASSUME NEW p \in Beginnings', p <= l'
        PROVE  \E k \in 1 .. Len(lines') : lines'[k] = p
    <3>1. CASE p = l + 1
      BY <1>3, <3>1
    <3>2. CASE p <= l
      <4>1. PICK k \in 1 .. Len(lines) : lines[k] = p
        BY <1>4, <2>3, <3>2 DEF FoundSoFar
      <4>2. QED
        BY <1>3, <4>1
    <3>3. QED
      BY <1>1, <1>4, <1>5, <2>3, <3>1, <3>2
  <2>4. QED
    BY <2>1, <2>2, <2>3 DEF FoundSoFar
<1>7. BetweenLines'
  BY <1>1, <1>4 DEF BetweenLines
<1>8. QED
  BY <1>6, <1>7

\* The pointer moves over a character at which no line begins.
LEMMA NoLineBegins ==
  ASSUME ListInv, FoundSoFar, l' = l + 1, UNCHANGED <<file, lines>>, l + 1 \notin Beginnings
  PROVE  FoundSoFar'
<1>1. Beginnings' = Beginnings /\ \A p \in Beginnings : p \in Nat
  BY DEF Beginnings, Begins, Ends
<1>2. \A k \in 1 .. Len(lines) : lines[k] \in Nat
  BY DEF ListInv, SplitType
<1>3. \A p \in Beginnings : p <= l + 1 => p <= l
  BY <1>1 DEF ListInv, SplitType
<1>4. l \in Nat
  BY DEF ListInv, SplitType
<1>5. QED
  BY <1>1, <1>2, <1>3, <1>4 DEF FoundSoFar

LEMMA SkipNulStep ==
  ASSUME ListInv, SkipNul
  PROVE  FoundSoFar' /\ BetweenLines'
<1>1. /\ l \in Nat /\ l + 1 \in 1 .. Len(file) /\ buf[l + 1] = Nul /\ Len(file) \in Nat
      /\ FoundSoFar /\ MarkedIsFile
  BY DEF ListInv, SplitType, SkipNul, Splitting, Splits
<1>2. l + 1 \notin Beginnings
  BY <1>1, NulIsEnd DEF Beginnings, Begins
<1>3. FoundSoFar'
  BY <1>1, <1>2, NoLineBegins DEF SkipNul
<1>4. BetweenLines'
  BY <1>1 DEF BetweenLines, SkipNul, Splitting
<1>5. QED
  BY <1>3, <1>4

LEMMA AddLengthStep ==
  ASSUME ListInv, AddLength
  PROVE  FoundSoFar' /\ BetweenLines'
<1>1. /\ l \in 1 .. Len(buf) /\ buf[l] # Nul /\ FoundSoFar /\ MarkedIsFile
      /\ Len(buf) \in Nat /\ Len(file) \in Nat /\ Len(file) <= Len(buf)
  BY DEF ListInv, SplitType, MarkedIsFile, BetweenLines, AddLength, Splits
<1>2. CASE l < Len(buf) /\ buf[l + 1] # Nul
  <2>1. l + 1 \notin Beginnings
    <3>1. SUFFICES ASSUME l + 1 \in 1 .. Len(file) PROVE ~Begins(l + 1)
      BY DEF Beginnings
    <3>2. l \in 1 .. Len(file) /\ ~Ends(file[l])
      BY <1>1, <3>1, NulIsEnd
    <3>3. QED
      BY <1>1, <3>2 DEF Begins
  <2>2. FoundSoFar'
    BY <1>1, <1>2, <2>1, NoLineBegins DEF AddLength
  <2>3. BetweenLines'
    BY <1>1, <1>2 DEF BetweenLines, AddLength
  <2>4. QED
    BY <2>2, <2>3
<1>3. CASE ~(l < Len(buf) /\ buf[l + 1] # Nul)
  <2>1. FoundSoFar'
    BY <1>1, <1>3 DEF FoundSoFar, AddLength, Beginnings, Begins, Ends
  <2>2. BetweenLines'
    BY <1>1, <1>3 DEF BetweenLines, AddLength
  <2>3. QED
    BY <2>1, <2>2
<1>4. QED
  BY <1>2, <1>3

-----------------------------------------------------------------------------
LEMMA ListStart == ListInit => ListInv
<1> SUFFICES ASSUME ListInit PROVE ListInv
  OBVIOUS
<1>1. SplitType
  <2>1. file \in Seq(Char) /\ MaxLines \in Nat \ {0}
    BY CardListAssumption DEF ListInit
  <2>2. << >> \in Seq(0 .. 255) /\ << >> \in Seq(Char) /\ << >> \in Seq(Nat)
    OBVIOUS
  <2>3. QED
    BY <2>1, <2>2, CardListAssumption DEF ListInit, SplitType
<1>2. QED
  BY <1>1 DEF ListInit, ListInv, Splits, Uses, FileIsUsed

LEMMA LoadStep ==
  ASSUME ListInv, Load
  PROVE  ListInv'
<1>1. file \in Seq(Char) /\ Len(file) \in Nat /\ MaxFile \in Nat /\ Len(file) <= MaxFile
  BY CardListAssumption DEF ListInv, SplitType, Load
<1>2. /\ buf' \in Seq(Char) /\ Len(buf') >= Len(file)
      /\ Len(file) < MaxFile => Len(buf') = Len(file)
      /\ \A q \in 1 .. Len(file) : buf'[q] = file[q]
  <2>1. CASE buf' = file
    BY <1>1, <2>1
  <2>2. ASSUME NEW t \in Overrun, buf' = file \o t, Len(file) = MaxFile
        PROVE  /\ buf' \in Seq(Char) /\ Len(buf') >= Len(file)
               /\ Len(file) < MaxFile => Len(buf') = Len(file)
               /\ \A q \in 1 .. Len(file) : buf'[q] = file[q]
    <3>1. t \in Seq(Char)
      <4>1. t \in Seq(Char \ {Nul})
        BY CardListAssumption
      <4>2. QED
        BY <4>1
    <3>2. QED
      BY <1>1, <2>2, <3>1
  <2>3. QED
    BY <2>1, <2>2 DEF Load
<1>3. pc = "load" /\ pc' = "mark" /\ UNCHANGED <<file, l, lines, cardsCount, next, cards>>
  BY DEF Load
<1>4. l = 0 /\ lines = << >> /\ cardsCount = 0 /\ next = 1
  BY <1>3 DEF ListInv
<1>5. SplitType'
  BY <1>2, <1>3, <1>4 DEF ListInv, SplitType
<1>6. LoadedIsFile'
  BY <1>2, <1>3 DEF LoadedIsFile
<1>7. QED
  BY <1>3, <1>4, <1>5, <1>6 DEF ListInv, Splits, Uses, FileIsUsed

LEMMA NoFileStep ==
  ASSUME ListInv, NoFile
  PROVE  ListInv'
<1>1. /\ pc = "load" /\ pc' = "ready"
      /\ UNCHANGED <<file, buf, l, lines, cardsCount, next, cards>>
      /\ buf = << >> /\ cardsCount = 0
  BY DEF ListInv, NoFile
<1>2. SplitType'
  BY <1>1 DEF ListInv, SplitType
<1>3. QED
  BY <1>1, <1>2 DEF ListInv, Splits, Uses, FileIsUsed

LEMMA MarkStep ==
  ASSUME ListInv, Mark
  PROVE  ListInv'
<1>1. /\ pc = "mark" /\ pc' = "split"
      /\ UNCHANGED <<file, l, lines, cardsCount, next, cards>>
      /\ l = 0 /\ lines = << >> /\ cardsCount = 0 /\ next = 1 /\ LoadedIsFile
  BY DEF ListInv, Mark
<1>2. /\ Len(buf) \in Nat /\ Len(buf') = Len(buf) /\ buf' \in Seq(Char)
      /\ \A q \in 1 .. Len(buf) :
           buf'[q] = IF q <= Len(file) /\ buf[q] = Sep THEN Nul ELSE buf[q]
  BY DEF Mark, ListInv, SplitType, Char, Nul
<1>3. SplitType'
  BY <1>1, <1>2 DEF ListInv, SplitType
<1>4. MarkedIsFile'
  <2>1. Len(file) \in Nat
    BY DEF ListInv, SplitType
  <2>2. QED
    BY <1>1, <1>2, <2>1 DEF LoadedIsFile, MarkedIsFile, Ends, Nul, Sep
<1>5. FoundSoFar'
  <2>1. FoundSoFar
    BY <1>1, NothingFoundYet
  <2>2. QED
    BY <1>1, <2>1 DEF FoundSoFar, Beginnings, Begins, Ends
<1>6. BetweenLines'
  BY <1>1 DEF BetweenLines
<1>7. QED
  BY <1>1, <1>3, <1>4, <1>5, <1>6 DEF ListInv, Splits, Uses, FileIsUsed

LEMMA ScanStep ==
  ASSUME ListInv, BeginLine \/ SkipNul \/ AddLength
  PROVE  ListInv'
<1>1. /\ pc \in {"split", "inLine"} /\ pc' \in {"split", "inLine"}
      /\ UNCHANGED <<file, buf, cardsCount, next, cards>>
      /\ cardsCount = 0 /\ next = 1 /\ MarkedIsFile
  BY DEF ListInv, Splits, BeginLine, SkipNul, AddLength, Splitting
<1>2. FoundSoFar' /\ BetweenLines'
  BY BeginLineStep, SkipNulStep, AddLengthStep
<1>3. SplitType'
  <2>1. MaxLines \in Nat /\ Len(file) <= Len(buf) /\ Len(buf) \in Nat /\ Len(file) \in Nat
    BY <1>1, CardListAssumption DEF MarkedIsFile, ListInv, SplitType
  <2>2. l' \in 0 .. Len(buf)
    BY <2>1 DEF ListInv, SplitType, BeginLine, SkipNul, AddLength, Splitting
  <2>3. lines' \in Seq(Nat) /\ Len(lines') <= MaxLines
    <3>1. CASE BeginLine
      BY <2>1, <3>1 DEF ListInv, SplitType, BeginLine, Splitting
    <3>2. CASE SkipNul \/ AddLength
      BY <3>2 DEF ListInv, SplitType, SkipNul, AddLength
    <3>3. QED
      BY <3>1, <3>2
  <2>4. QED
    BY <1>1, <2>2, <2>3 DEF ListInv, SplitType
<1>4. MarkedIsFile'
  BY <1>1 DEF MarkedIsFile, Ends
<1>5. QED
  BY <1>1, <1>2, <1>3, <1>4 DEF ListInv, Splits, Uses, FileIsUsed

LEMMA EndSplitStep ==
  ASSUME ListInv, EndSplit
  PROVE  ListInv'
<1>1. /\ pc = "split" /\ UNCHANGED <<file, buf, l, lines, next, cards>>
      /\ cardsCount = 0 /\ next = 1 /\ MarkedIsFile /\ FoundSoFar
  BY DEF ListInv, Splits, EndSplit
<1>2. /\ Len(lines) \in Nat /\ l \in Nat /\ Len(file) \in Nat /\ MaxLines \in Nat \ {0}
      /\ Len(lines) <= MaxLines
  BY CardListAssumption DEF ListInv, SplitType
<1>3. Beginnings' = Beginnings /\ FoundSoFar' /\ MarkedIsFile'
  BY <1>1 DEF Beginnings, Begins, Ends, FoundSoFar, MarkedIsFile
<1>4. CASE ~(lines = << >> \/ l < Len(file))
  <2>1. Len(lines) > 0 /\ l >= Len(file)
    BY <1>2, <1>4 DEF ListInv, SplitType
  <2>2. cardsCount' = Len(lines) /\ pc' = "fill"
    BY <1>4 DEF EndSplit
  <2>3. SplitType'
    BY <1>1, <1>2, <2>2 DEF ListInv, SplitType
  <2>4. Whole' /\ Filled(next - 1)'
    BY <1>1, <1>2, <1>3, <2>1, <2>2 DEF Whole, Filled
  <2>5. QED
    BY <1>1, <1>2, <1>3, <2>1, <2>2, <2>3, <2>4 DEF ListInv, Splits, Uses, FileIsUsed
<1>5. CASE lines = << >> \/ l < Len(file)
  <2>1. pc' = "ready" /\ UNCHANGED cardsCount
    BY <1>5 DEF EndSplit
  <2>2. SplitType'
    BY <1>1, <2>1 DEF ListInv, SplitType
  <2>3. Beginnings # {} => Len(lines) = MaxLines
    <3>1. CASE l < Len(file)
      BY <1>1, <1>2, <3>1 DEF EndSplit, Splitting
    <3>2. CASE lines = << >> /\ ~(l < Len(file))
      BY <1>1, <1>2, <3>2 DEF FoundSoFar, Beginnings
    <3>3. QED
      BY <1>5, <3>1, <3>2
  <2>4. QED
    BY <1>1, <1>3, <2>1, <2>2, <2>3 DEF ListInv, Splits, Uses, FileIsUsed
<1>6. QED
  BY <1>4, <1>5

LEMMA FillStep ==
  ASSUME ListInv, Fill
  PROVE  ListInv'
<1>1. /\ pc = "fill" /\ UNCHANGED <<file, buf, l, lines, cardsCount>> /\ next' = next + 1
      /\ pc' = IF next = cardsCount THEN "ready" ELSE "fill"
      /\ cards' = [cards EXCEPT ![next] = CardOf(StringAt(lines[next]))]
      /\ MarkedIsFile /\ Whole /\ next <= cardsCount /\ Filled(next - 1)
  BY DEF ListInv, Uses, Fill
<1>2. /\ Len(lines) \in Nat /\ MaxLines \in Nat \ {0} /\ Len(lines) <= MaxLines
      /\ next \in 1 .. Len(lines) /\ cardsCount = Len(lines) /\ cardsCount > 0
      /\ Len(file) \in Nat /\ Len(buf) \in Nat
  BY <1>1, CardListAssumption DEF ListInv, SplitType, Whole
<1>3. CardOf(StringAt(lines[next])) \in Seq(0 .. 255)
      /\ Len(CardOf(StringAt(lines[next]))) <= CardDataLength
  <2>1. lines[next] \in 1 .. Len(file) /\ ~Ends(file[lines[next]])
    BY <1>1, <1>2 DEF Whole, FoundSoFar, Beginnings, Begins
  <2>2. lines[next] \in 1 .. Len(buf) /\ buf[lines[next]] # Nul
    BY <1>1, <1>2, <2>1, NulIsEnd DEF MarkedIsFile
  <2>3. buf \in Seq(Char)
    BY DEF ListInv, SplitType
  <2>4. QED
    BY <2>2, <2>3, StringType, CardOfType
<1>4. SplitType'
  BY <1>1, <1>2, <1>3 DEF ListInv, SplitType
<1>5. MarkedIsFile' /\ Whole'
  BY <1>1 DEF MarkedIsFile, Ends, Whole, FoundSoFar, Beginnings, Begins
<1>6. \A i \in 1 .. next : cards'[i] = CardOf(StringAt(lines[i]))'
  <2> SUFFICES ASSUME NEW i \in 1 .. next PROVE cards'[i] = CardOf(StringAt(lines[i]))'
    OBVIOUS
  <2>1. CardOf(StringAt(lines[i]))' = CardOf(StringAt(lines[i]))
    BY <1>1 DEF StringAt, CardOf, Pair
  <2>2. CASE i = next
    BY <1>1, <1>2, <2>1, <2>2 DEF ListInv, SplitType
  <2>3. CASE i # next
    <3>1. i \in 1 .. next - 1
      BY <1>2, <2>3
    <3>2. cards'[i] = cards[i]
      BY <1>1, <1>2, <2>3 DEF ListInv, SplitType
    <3>3. QED
      BY <1>1, <2>1, <3>1, <3>2 DEF Filled
  <2>4. QED
    BY <2>2, <2>3
<1>7. CASE next = cardsCount
  <2>1. pc' = "ready" /\ Filled(cardsCount)'
    BY <1>1, <1>6, <1>7 DEF Filled
  <2>2. QED
    BY <1>1, <1>2, <1>4, <1>5, <2>1 DEF ListInv, Splits, Uses, FileIsUsed
<1>8. CASE next # cardsCount
  <2>1. pc' = "fill" /\ next' <= cardsCount'
    BY <1>1, <1>2, <1>8
  <2>2. Filled(next - 1)'
    <3>1. next' - 1 = next
      BY <1>1, <1>2
    <3>2. QED
      BY <1>6, <3>1 DEF Filled
  <2>3. QED
    BY <1>1, <1>2, <1>4, <1>5, <2>1, <2>2 DEF ListInv, Splits, Uses, FileIsUsed
<1>9. QED
  BY <1>7, <1>8

LEMMA ListStep ==
  ASSUME ListInv, [ListNext]_listVars
  PROVE  ListInv'
<1>1. CASE UNCHANGED listVars
  <2>1. UNCHANGED <<pc, file, buf, l, lines, cardsCount, next, cards>>
    BY <1>1 DEF listVars
  <2>2. /\ SplitType' = SplitType /\ LoadedIsFile' = LoadedIsFile /\ MarkedIsFile' = MarkedIsFile
        /\ BetweenLines' = BetweenLines /\ FileIsUsed' = FileIsUsed
        /\ FoundSoFar' = FoundSoFar /\ Whole' = Whole
    BY <2>1 DEF SplitType, LoadedIsFile, MarkedIsFile, BetweenLines, FileIsUsed, FoundSoFar,
       Whole, Beginnings, Begins, Ends
  <2>3. Filled(cardsCount)' = Filled(cardsCount) /\ Filled(next - 1)' = Filled(next - 1)
    BY <2>1 DEF Filled, CardOf, StringAt, Pair
  <2>4. QED
    BY <2>1, <2>2, <2>3 DEF ListInv, Splits, Uses
<1>2. QED
  BY <1>1, LoadStep, NoFileStep, MarkStep, ScanStep, EndSplitStep, FillStep DEF ListNext

LEMMA ListInvHolds == ListSpec => []ListInv
<1>1. ListInv /\ [ListNext]_listVars => ListInv'
  BY ListStep
<1>2. QED
  BY <1>1, ListStart, PTL DEF ListSpec

-----------------------------------------------------------------------------
\* What the invariant says of a list that is used.
LEMMA ListIsWhole ==
  ASSUME ListInv
  PROVE  ListIsComplete
<1>1. SUFFICES ASSUME cardsCount > 0 PROVE ListIsComplete
  BY DEF ListIsComplete
<1>2. FoundSoFar /\ l >= Len(file)
  BY <1>1 DEF ListInv, Uses, Whole
<1>3. \A p \in Beginnings : p <= l
  BY <1>2 DEF ListInv, SplitType, Beginnings
<1>4. QED
  BY <1>2, <1>3 DEF FoundSoFar, ListIsComplete

\* A card is accepted exactly if it is that of a line, whatever bytes it has.
LEMMA AcceptsLines ==
  ASSUME ListInv, pc = "ready", cardsCount > 0, Len(file) < MaxFile, NEW c
  PROVE  CheckCard(c) <=> c # << >> /\ \E p \in Beginnings : CardOf(LineAt(p)) = c
<1>1. /\ Filled(cardsCount) /\ MarkedIsFile /\ Whole /\ ListIsComplete
      /\ file \in Seq(Char) /\ buf \in Seq(Char) /\ cardsCount \in Nat
  BY ListIsWhole, CardListAssumption DEF ListInv, Uses, SplitType
<1>2. Len(buf) = Len(file)
  BY <1>1 DEF MarkedIsFile
<1>3. \A p \in Beginnings : StringAt(p) = LineAt(p)
  BY <1>1, <1>2, StringIsLine DEF MarkedIsFile
<1>4. \A i \in 1 .. cardsCount : lines[i] \in Beginnings /\ cards[i] = CardOf(LineAt(lines[i]))
  BY <1>1, <1>3 DEF Filled, Whole, FoundSoFar
<1>5. \A p \in Beginnings : \E i \in 1 .. cardsCount : lines[i] = p
  BY <1>1 DEF Whole, ListIsComplete
<1>6. (\E i \in 1 .. cardsCount : cards[i] = c) <=> \E p \in Beginnings : CardOf(LineAt(p)) = c
  BY <1>4, <1>5
<1>7. CheckCard(c) <=> FindCard(c) # 0
  BY <1>1 DEF CheckCard
<1>8. QED
  BY <1>1, <1>6, <1>7, FindCardFinds

\* Every state of getConfigInfo is well typed: whatever the file, it stays in the
\* array of lines and every card it stores is made of bytes and no longer than its
\* place in the storage; and unless the file fills the buffer to the last byte,
\* splitting it and measuring its strings ends where the file does.
THEOREM ListTypeCorrect == ListSpec => []ListTypeOK
<1>1. ListInv => ListTypeOK
  BY DEF ListInv, SplitType, ListTypeOK
<1>2. QED
  BY <1>1, ListInvHolds, PTL

\* Every line of the file is in a list that is used, and each once, in the order
\* of the file (doSplitConfig): the list is never cut at its limit.
THEOREM SplitIsComplete == ListSpec => []ListIsComplete
<1>1. ListInv => ListIsComplete
  BY ListIsWhole
<1>2. QED
  BY <1>1, ListInvHolds, PTL

\* A file that was read and has lines is used, or it has as many lines as fit or
\* more (doSplitConfig): no other file leaves the empty list that accepts all.
THEOREM ReadFileIsUsed == ListSpec => []FileIsUsed
<1>1. ListInv => FileIsUsed
  BY DEF ListInv
<1>2. QED
  BY <1>1, ListInvHolds, PTL

\* The lookup (checkCard, FindCard) accepts a card exactly if a line of the file
\* names it, wherever the line is, for every list and every card looked up.
THEOREM LookupIsRight == ListSpec => []AcceptsFile
<1>1. ListInv => AcceptsFile
  BY AcceptsLines DEF AcceptsFile
<1>2. QED
  BY <1>1, ListInvHolds, PTL

-----------------------------------------------------------------------------
LEMMA PairOfDigits ==
  ASSUME NEW a \in 0 .. 15, NEW d \in 0 .. 15
  PROVE  Pair(a, d) = 16 * a + d
<1>1. a < 16 /\ d < 16 /\ ~(d >= 16) /\ a # Blank
  BY DEF Blank
<1>2. QED
  BY <1>1, Zenon DEF Pair

LEMMA HexByte ==
  ASSUME NEW b \in 0 .. 255
  PROVE  Pair(b \div 16, b % 16) = b
<1>1. b \div 16 \in 0 .. 15 /\ b % 16 \in 0 .. 15 /\ b = 16 * (b \div 16) + (b % 16)
  OBVIOUS
<1>2. Pair(b \div 16, b % 16) = 16 * (b \div 16) + (b % 16)
  BY <1>1, PairOfDigits, Zenon
<1>3. QED
  BY <1>1, <1>2, Zenon

\* Two digits per byte, in order, and no more than fit into a line.
LEMMA HexLineIsCard ==
  ASSUME NEW c \in Seq(0 .. 255), Len(c) <= CardDataLength
  PROVE  CardOf(HexLine(c)) = c
<1> DEFINE t == HexLine(c)
<1>1. Len(c) \in Nat /\ CardDataLength \in Nat
  BY CardListAssumption
<1>2. /\ Len(t) = 2 * Len(c)
      /\ \A k \in 1 .. 2 * Len(c) : t[k] = IntToHex(c[(k + 1) \div 2])[2 - (k % 2)]
  BY <1>1 DEF HexLine
<1>3. ASSUME NEW j \in 1 .. Len(c)
      PROVE  t[2 * j - 1] = c[j] \div 16 /\ t[2 * j] = c[j] % 16
  <2>1. 2 * j - 1 \in 1 .. 2 * Len(c) /\ ((2 * j - 1) + 1) \div 2 = j /\ 2 - ((2 * j - 1) % 2) = 1
    BY <1>1
  <2>2. 2 * j \in 1 .. 2 * Len(c) /\ (2 * j + 1) \div 2 = j /\ 2 - ((2 * j) % 2) = 2
    BY <1>1
  <2> HIDE DEF t
  <2>3. t[2 * j - 1] = IntToHex(c[j])[1]
    BY <1>2, <2>1
  <2>4. t[2 * j] = IntToHex(c[j])[2]
    BY <1>2, <2>2
  <2>5. QED
    BY <2>3, <2>4 DEF IntToHex
<1>4. Len(t) \div 2 = Len(c) /\ Len(t) <= 2 * CardDataLength
  BY <1>1, <1>2
<1> HIDE DEF t
<1>5. CardOf(t) = [j \in 1 .. Len(c) |-> Pair(t[2 * j - 1], t[2 * j])]
  BY <1>4 DEF CardOf
<1>6. ASSUME NEW j \in 1 .. Len(c) PROVE Pair(t[2 * j - 1], t[2 * j]) = c[j]
  <2>1. c[j] \in 0 .. 255
    BY ElementOfSeq, Zenon
  <2>2. QED
    BY <1>3, <2>1, HexByte, Zenon
<1>7. [j \in 1 .. Len(c) |-> Pair(t[2 * j - 1], t[2 * j])] = [j \in 1 .. Len(c) |-> c[j]]
  BY <1>6, Zenon
<1>8. QED
  BY <1>5, <1>7 DEF t

\* A card of any bytes, if it is no longer than a line can hold, is accepted when a
\* line of the file has the digits that IntToHex shows of it on the screen: every
\* card that was seen at a reader can be entered (getConfigInfo, checkCard).
EnteredIsAccepted ==
    pc = "ready" /\ Len(file) < MaxFile =>
        \A c \in Seq(0 .. 255) \ {<< >>} :
            Len(c) <= CardDataLength /\ (\E p \in Beginnings : LineAt(p) = HexLine(c))
              => CheckCard(c)

THEOREM HexLinesAreAccepted == ListSpec => []EnteredIsAccepted
<1>1. ListInv => EnteredIsAccepted
  <2> SUFFICES ASSUME ListInv, pc = "ready", Len(file) < MaxFile,
                      NEW c \in Seq(0 .. 255) \ {<< >>}, Len(c) <= CardDataLength,
                      NEW p \in Beginnings, LineAt(p) = HexLine(c)
               PROVE  CheckCard(c)
    BY DEF EnteredIsAccepted
  <2>1. CASE cardsCount = 0
    BY <2>1 DEF CheckCard
  <2>2. CASE cardsCount # 0
    <3>1. cardsCount > 0
      BY <2>2, CardListAssumption DEF ListInv, SplitType
    <3>2. CardOf(LineAt(p)) = c
      BY HexLineIsCard
    <3>3. QED
      BY <3>1, <3>2, AcceptsLines
  <2>3. QED
    BY <2>1, <2>2
<1>2. QED
  BY <1>1, ListInvHolds, PTL
-----------------------------------------------------------------------------
(***************************************************************************)
(* The service loop.  First what a read may come to: answers, of which     *)
(* each that is taken for a word has one.                                  *)
(***************************************************************************)
LEMMA TarSizeType == TarSize \in Nat /\ TarSize < 256
BY CardAssumption

LEMMA LengthIsByte ==
  ASSUME NEW n \in 0 .. TarSize
  PROVE  n \in 0 .. 255
BY TarSizeType

LEMMA AnswerHasWord ==
  ASSUME NEW a \in Answer, a # Nothing
  PROVE  a[1] \in 0 .. 255 /\ a[2] \in 0 .. 255
<1>1. a \in Seq(0 .. 255) /\ Len(a) > 1
  BY DEF Answer
<1>2. 1 \in 1 .. Len(a) /\ 2 \in 1 .. Len(a)
  BY <1>1
<1>3. QED
  BY <1>1, <1>2, ElementOfSeq, Zenon

LEMMA PairIsAnswer ==
  ASSUME NEW x \in 0 .. 255, NEW y \in 0 .. 255
  PROVE  <<x, y>> \in Answer /\ <<x, y>> # Nothing /\ WordOf(<<x, y>>) = 256 * x + y
BY DEF Answer, Nothing, WordOf

LEMMA Words ==
  /\ \A w \in {0, 1, Free} : Word(w) \in Answer
  /\ WordOf(Word(1)) = 1 /\ Word(1) # Nothing
<1>1. Word(0) = <<0, 0>> /\ Word(1) = <<0, 1>> /\ Word(Free) = <<255, 255>>
  BY DEF Word, Free
<1>2. 0 \in 0 .. 255 /\ 1 \in 0 .. 255 /\ 255 \in 0 .. 255
  OBVIOUS
<1>3. /\ <<0, 0>> \in Answer /\ <<0, 1>> \in Answer /\ <<255, 255>> \in Answer
      /\ <<0, 1>> # Nothing
  <2>1. <<0, 0>> \in Answer
    BY <1>2, PairIsAnswer, Zenon
  <2>2. <<0, 1>> \in Answer /\ <<0, 1>> # Nothing
    BY <1>2, PairIsAnswer, Zenon
  <2>3. <<255, 255>> \in Answer
    BY <1>2, PairIsAnswer, Zenon
  <2>4. QED
    BY <2>1, <2>2, <2>3
<1>4. WordOf(<<0, 1>>) = 1
  BY DEF WordOf
<1>5. QED
  BY <1>1, <1>3, <1>4

LEMMA ResultType ==
  ASSUME NEW x \in Answer, late \in Answer, NEW o \in Own(x) \cup Lost(x) \cup Mixed(x)
  PROVE  o.data \in Answer /\ o.left \in Answer /\ o.done \in BOOLEAN
<1>1. Nothing \in Answer
  BY DEF Answer, Nothing
<1>2. QED
  BY <1>1 DEF Own, Lost, Mixed, Results

LEMMA TakenResult ==
  ASSUME NEW x \in Answer, x # Nothing, late \in Answer, NEW o \in Own(x) \cup Mixed(x)
  PROVE  o.data # Nothing
BY DEF Own, Mixed, Results

LEMMA ImageType ==
  ASSUME TypeOK
  PROVE  image[dir] \in Seq(0 .. 255) /\ Len(image[dir]) \in 0 .. TarSize
<1>1. image[dir] \in Shown \cup {<< >>}
  BY DEF TypeOK
<1>2. CASE image[dir] \in Shown
  BY <1>2, CardListAssumption, CardAssumption
<1>3. CASE image[dir] = << >>
  BY <1>3, CardAssumption
<1>4. QED
  BY <1>1, <1>2, <1>3

LEMMA FlagOfType ==
  ASSUME TypeOK
  PROVE  FlagOf(dir) \in Answer /\ FlagOf(dir) # Nothing
<1>1. Len(image[dir]) \in 0 .. 255
  <2>1. Len(image[dir]) \in 0 .. TarSize
    BY ImageType
  <2>2. QED
    BY <2>1, LengthIsByte, Zenon
<1>2. (IF flag[dir] THEN 1 ELSE 0) \in 0 .. 255
  OBVIOUS
<1>3. QED
  BY <1>1, <1>2, PairIsAnswer DEF FlagOf

\* As many bytes as are asked for, and no fewer than the count.
LEMMA ImageOfType ==
  ASSUME TypeOK, step = "data"
  PROVE  /\ ImageOf(dir) \in Answer /\ ImageOf(dir) # Nothing
         /\ \A i \in 1 .. count : /\ i \in 1 .. Len(ImageOf(dir))
                                  /\ ImageOf(dir)[i] = IF i <= Len(image[dir])
                                                       THEN image[dir][i] ELSE 0
<1> DEFINE n == 2 * ((count + 1) \div 2)
<1>1. count \in Nat /\ count > 0
  BY CardAssumption DEF TypeOK
<1>2. n \in Nat /\ n >= count /\ n > 1
  BY <1>1
<1>3. ASSUME NEW i \in 1 .. n
      PROVE  (IF i <= Len(image[dir]) THEN image[dir][i] ELSE 0) \in 0 .. 255
  <2>1. CASE i <= Len(image[dir])
    <3>1. i \in 1 .. Len(image[dir]) /\ image[dir] \in Seq(0 .. 255)
      BY <1>2, <2>1, ImageType, CardAssumption
    <3>2. image[dir][i] \in 0 .. 255
      BY <3>1, ElementOfSeq, Zenon
    <3>3. QED
      BY <2>1, <3>2, Zenon
  <2>2. CASE ~(i <= Len(image[dir]))
    BY <2>2
  <2>3. QED
    BY <2>1, <2>2
<1>4. ImageOf(dir) = [i \in 1 .. n |-> IF i <= Len(image[dir]) THEN image[dir][i] ELSE 0]
  BY DEF ImageOf, Padded
<1> HIDE DEF n
<1>5. ImageOf(dir) \in Seq(0 .. 255) /\ Len(ImageOf(dir)) = n
  BY <1>2, <1>3, <1>4
<1>6. QED
  BY <1>1, <1>2, <1>4, <1>5 DEF Answer, Nothing

\* What the thread takes from an answer are bytes, whatever the answer is of.
LEMMA TakenType ==
  ASSUME NEW a \in Seq(0 .. 255), NEW n \in Nat, NEW c \in Taken(a, n)
  PROVE  CutLineEnd(c) \in Seq(0 .. 255)
<1>1. PICK rest \in [1 .. n -> Stale] :
        c = [i \in 1 .. n |-> IF i <= Len(a) THEN a[i] ELSE rest[i]]
  BY DEF Taken
<1>2. ASSUME NEW i \in 1 .. n
      PROVE  (IF i <= Len(a) THEN a[i] ELSE rest[i]) \in 0 .. 255
  <2>1. CASE i <= Len(a)
    <3>1. i \in 1 .. Len(a)
      BY <2>1
    <3>2. a[i] \in 0 .. 255
      BY <3>1, ElementOfSeq, Zenon
    <3>3. QED
      BY <2>1, <3>2, Zenon
  <2>2. CASE ~(i <= Len(a))
    <3>1. rest[i] \in 0 .. 255
      BY CardAssumption
    <3>2. QED
      BY <2>2, <3>1, Zenon
  <2>3. QED
    BY <2>1, <2>2
<1>3. c \in Seq(0 .. 255)
  BY <1>1, <1>2
<1>4. QED
  BY <1>3, CardAssumption DEF CutLineEnd

LEMMA DecideType ==
  ASSUME TypeOK, NEW c \in Seq(0 .. 255), Decide(c)
  PROVE  /\ dir' \in Directions /\ card' \in Seq(0 .. 255)
         /\ step' \in {"flag", "grant"} /\ (step' = "grant" => dir' = dir /\ card' = c)
<1>1. dir \in Directions /\ "enter" \in Directions
  BY DEF TypeOK, Directions
<1>2. << >> \in Seq(0 .. 255)
  OBVIOUS
<1>3. QED
  BY <1>1, <1>2 DEF Decide, Continue

-----------------------------------------------------------------------------
LEMMA InitType == Init => TypeOK
<1>1. Nothing \in Answer /\ Word(0) \in Answer
  BY Words DEF Answer, Nothing
<1>2. QED
  BY <1>1, CardAssumption DEF Init, TypeOK, Directions

LEMMA FlagType ==
  ASSUME TypeOK, step = "flag", NEW o \in Own(FlagOf(dir)) \cup Mixed(FlagOf(dir)), TakeFlag(o),
         UNCHANGED <<permits, turnstile>>, UNCHANGED <<unread, misread>>,
         paidBy' \in {"nothing", "card", "mixup"}
  PROVE  TypeOK'
<1>1. o.data \in Answer /\ o.data # Nothing /\ o.left \in Answer
  BY FlagOfType, ResultType, TakenResult DEF TypeOK
<1> DEFINE new == o.data[1] # 0
           n   == o.data[2]
<1>2. n \in 0 .. 255
  BY <1>1, AnswerHasWord
<1>3. isNew' = [isNew EXCEPT ![dir] = new] /\ late' = o.left
      /\ count' = IF new /\ n <= TarSize THEN n ELSE 0
  BY DEF TakeFlag
<1>4. count' \in 0 .. TarSize
  BY <1>2, <1>3, TarSizeType
<1>5. dir' \in Directions /\ card' \in Seq(0 .. 255)
      /\ step' \in {"flag", "data", "grant", "undefined"}
      /\ (step' = "data" => count' > 0)
  <2>1. CASE ~new /\ OtherTurn
    BY <2>1 DEF OtherTurn, Directions
  <2>2. CASE n = 0 /\ Decide(<< >>)
    <3>1. << >> \in Seq(0 .. 255)
      OBVIOUS
    <3>2. QED
      BY <2>2, <3>1, DecideType
  <2>3. CASE new /\ n \in 1 .. TarSize /\ step' = "data" /\ UNCHANGED <<dir, card>>
    BY <1>2, <1>3, <2>3, CardAssumption DEF TypeOK
  <2>4. CASE step' = "undefined" /\ UNCHANGED <<dir, card>>
    BY <2>4 DEF TypeOK
  <2>5. QED
    BY <2>1, <2>2, <2>3, <2>4 DEF TakeFlag
<1>6. isNew' \in [Directions -> BOOLEAN]
  <2>1. new \in BOOLEAN
    OBVIOUS
  <2> HIDE DEF new
  <2>2. QED
    BY <1>3, <2>1 DEF TypeOK
<1>7. QED
  BY <1>1, <1>3, <1>4, <1>5, <1>6 DEF TypeOK, turnstile

LEMMA ImageReadType ==
  ASSUME TypeOK, step = "data", NEW o, o.left \in Answer, ImageRead(o),
         dir' \in Directions, card' \in Seq(0 .. 255), step' \in {"flag", "grant"},
         paidBy' \in {"nothing", "card", "mixup"}
  PROVE  TypeOK'
<1>1. flag' \in [Directions -> BOOLEAN] /\ unread' \in [Directions -> BOOLEAN]
  BY DEF TypeOK, ImageRead, FlagAfter
<1>2. 0 \in 0 .. TarSize
  BY CardAssumption
<1>3. QED
  BY <1>1, <1>2 DEF TypeOK, ImageRead

LEMMA TakeImageType ==
  ASSUME TypeOK, step = "data", NEW o \in Own(ImageOf(dir)) \cup Mixed(ImageOf(dir)), TakeImage(o)
  PROVE  /\ o.left \in Answer /\ ImageRead(o)
         /\ dir' \in Directions /\ card' \in Seq(0 .. 255) /\ step' \in {"flag", "grant"}
         /\ step' = "grant" => dir' = dir /\ \E c \in Taken(o.data, count) : card' = CutLineEnd(c)
<1>1. o.data \in Answer /\ o.left \in Answer
  BY ImageOfType, ResultType DEF TypeOK
<1>2. PICK c \in Taken(o.data, count) : Decide(CutLineEnd(c))
  BY DEF TakeImage
<1>3. count \in Nat /\ o.data \in Seq(0 .. 255)
  BY <1>1, CardAssumption DEF TypeOK, Answer
<1>4. CutLineEnd(c) \in Seq(0 .. 255)
  BY <1>3, TakenType
<1>5. QED
  BY <1>1, <1>2, <1>4, DecideType DEF TakeImage

LEMMA StepType ==
  ASSUME TypeOK, [Next]_vars
  PROVE  TypeOK'
<1>1. CASE ReadFlag \/ MixFlag
  <2>1. PICK o \in Own(FlagOf(dir)) \cup Mixed(FlagOf(dir)) : TakeFlag(o)
    BY <1>1 DEF ReadFlag, MixFlag
  <2>2. UNCHANGED <<permits, turnstile>> /\ UNCHANGED <<unread, misread>>
    BY <1>1 DEF ReadFlag, MixFlag, ghosts
  <2>3. paidBy' \in {"nothing", "card", "mixup"} /\ step = "flag"
    BY <1>1 DEF ReadFlag, MixFlag, PaidBy, TypeOK, ghosts
  <2>4. QED
    BY <2>1, <2>2, <2>3, FlagType
<1>2. CASE ReadFlagFails
  <2>1. PICK o \in Lost(FlagOf(dir)) : late' = o.left
    BY <1>2 DEF ReadFlagFails
  <2>2. late' \in Answer
    BY <2>1, FlagOfType, ResultType DEF TypeOK
  <2>3. dir' \in Directions /\ step' = "flag" /\ card' = << >>
    BY <1>2 DEF ReadFlagFails, Continue, OtherTurn, Directions
  <2>4. QED
    BY <1>2, <2>2, <2>3 DEF ReadFlagFails, TypeOK, turnstile, ghosts
<1>3. CASE ReadImage \/ MixImage
  <2>1. step = "data" /\ \E o \in Own(ImageOf(dir)) \cup Mixed(ImageOf(dir)) : TakeImage(o)
    BY <1>3 DEF ReadImage, MixImage
  <2>2. PICK o \in Own(ImageOf(dir)) \cup Mixed(ImageOf(dir)) : TakeImage(o)
    BY <2>1
  <2>3. paidBy' \in {"nothing", "card", "mixup"}
    BY <1>3 DEF ReadImage, MixImage, PaidBy, TypeOK
  <2>4. QED
    BY <2>1, <2>2, <2>3, TakeImageType, ImageReadType
<1>4. CASE ReadImageFails
  <2>1. PICK o \in Lost(ImageOf(dir)) : ImageRead(o)
    BY <1>4 DEF ReadImageFails
  <2>2. step = "data" /\ o.left \in Answer
    BY <1>4, ImageOfType, ResultType DEF ReadImageFails, TypeOK
  <2>3. dir' \in Directions /\ card' = << >> /\ step' = "flag" /\ paidBy' = "nothing"
    BY <1>4 DEF ReadImageFails, Continue, PaidBy, Directions
  <2>4. << >> \in Seq(0 .. 255)
    OBVIOUS
  <2>5. QED
    BY <2>1, <2>2, <2>3, <2>4, ImageReadType
<1>5. CASE Grant
  <2>1. late' \in Answer
    <3>1. Nothing \in Answer
      BY DEF Answer, Nothing
    <3>2. late' = Nothing \/ late' = late
      BY <1>5 DEF Grant
    <3>3. QED
      BY <3>1, <3>2 DEF TypeOK
  <2>2. QED
    BY <1>5, <2>1 DEF Grant, TypeOK
<1>6. CASE ReadStatus
  <2>1. PICK o \in Own(Word(passes[dir])) \cup Lost(Word(passes[dir])) \cup Mixed(Word(passes[dir])) :
          permits' = Polled(o) /\ late' = o.left
    BY <1>6 DEF ReadStatus
  <2>2. Word(passes[dir]) \in Answer
    BY Words DEF TypeOK
  <2>3. late' \in Answer
    BY <2>1, <2>2, ResultType DEF TypeOK
  <2>4. permits' \in {0, 1}
    BY <2>1 DEF Polled
  <2>5. misread' \in [Directions -> BOOLEAN]
    <3>1. misread' = [misread EXCEPT ![dir] = FALSE]
          \/ misread' = [misread EXCEPT ![dir] = (passes[dir] = 1)]
      BY <1>6 DEF ReadStatus
    <3>2. (passes[dir] = 1) \in BOOLEAN
      OBVIOUS
    <3>3. QED
      BY <3>1, <3>2 DEF TypeOK
  <2>6. QED
    BY <1>6, <2>3, <2>4, <2>5 DEF ReadStatus, TypeOK, turnstile
<1>7. CASE ReadState
  <2>1. PICK o \in Own(Word(occupied[dir])) \cup Lost(Word(occupied[dir])) \cup Mixed(Word(occupied[dir])) :
          /\ late' = o.left
          /\ OtherTurn \/ (step' = "status" /\ UNCHANGED <<dir, card>>)
    BY <1>7 DEF ReadState
  <2>2. Word(occupied[dir]) \in Answer
    BY Words DEF TypeOK
  <2>3. late' \in Answer
    BY <2>1, <2>2, ResultType DEF TypeOK
  <2>4. dir' \in Directions /\ step' \in {"flag", "status"} /\ card' \in Seq(0 .. 255)
    <3>1. << >> \in Seq(0 .. 255)
      OBVIOUS
    <3>2. CASE OtherTurn
      BY <3>1, <3>2 DEF OtherTurn, Directions
    <3>3. CASE step' = "status" /\ UNCHANGED <<dir, card>>
      BY <3>3 DEF TypeOK
    <3>4. QED
      BY <2>1, <3>2, <3>3
  <2>5. permits' = 0 /\ UNCHANGED <<isNew, count, flag, image, passes, occupied,
                                     unread, paidBy, misread>>
    BY <1>7 DEF ReadState, turnstile, ghosts
  <2>6. QED
    BY <2>3, <2>4, <2>5 DEF TypeOK
<1>8. ASSUME NEW d \in Directions, NEW c \in ShownAt[d], Present(d, c)
      PROVE  TypeOK'
  <2>1. c \in Shown
    BY <1>8, CardAssumption DEF Directions
  <2>2. QED
    BY <1>8, <2>1 DEF Present, TypeOK, thread
<1>9. ASSUME NEW d \in Directions,
             PassBegins(d) \/ PassEnds(d) \/ PassExpires(d) \/ Opened(d) \/ Closed(d)
      PROVE  TypeOK'
  <2>1. UNCHANGED <<dir, step, isNew, count, card, permits, flag, image, late, unread, paidBy>>
    BY <1>9 DEF PassBegins, PassEnds, PassExpires, Opened, Closed, thread, ghosts
  <2>2. passes' \in [Directions -> {0, 1, Free}]
    BY <1>9 DEF PassBegins, PassEnds, PassExpires, Opened, Closed, TypeOK
  <2>3. occupied' \in [Directions -> {0, 1}]
    BY <1>9 DEF PassBegins, PassEnds, PassExpires, Opened, Closed, TypeOK
  <2>4. misread' \in [Directions -> BOOLEAN]
    BY <1>9 DEF PassBegins, PassEnds, PassExpires, Opened, Closed, TypeOK, ghosts
  <2>5. QED
    BY <2>1, <2>2, <2>3, <2>4 DEF TypeOK
<1>10. CASE MakeList \/ UNCHANGED vars
  BY <1>10 DEF MakeList, vars, TypeOK, service, thread, turnstile, ghosts
<1>11. QED
  BY <1>1, <1>2, <1>3, <1>4, <1>5, <1>6, <1>7, <1>8, <1>9, <1>10
  DEF Next, Thread, ServeCard, AwaitPassage, Turnstile

\* Every state the thread and the turnstile can produce is well typed: a count fits
\* into Card unless it says that nothing is known, and what is taken from a reader
\* are bytes, whichever answer the count or the bytes are of.
THEOREM TypeCorrect == Spec => []TypeOK
<1>1. TypeOK /\ [Next]_vars => TypeOK'
  BY StepType
<1>2. QED
  BY <1>1, InitType, PTL DEF Spec

-----------------------------------------------------------------------------
\* A pass that the thread asks for because of a card alone, without an answer of
\* another read, is asked for with an image that the reader could show, cut or
\* filled to the length of one that it could show: a second card may come between
\* the read of the flag and count and that of the image (GetEnterCard), and no
\* failed read leaves an older card or none in its place, not even with an empty
\* list.
GrantedWasShown ==
    (step = "grant" /\ paidBy = "card") =>
        \E img, k \in Shown : card = CutLineEnd(Padded(img, Len(k)))

\* A card shown to a reader is, until its image is read, in the flag; then in the
\* thread, which has decided to ask for its pass.  Nothing else pays for one but
\* another read's answer.
CardInv ==
    /\ TypeOK
    /\ \A d \in Directions : /\ flag[d] => unread[d]
                             /\ unread[d] => image[d] \in Shown
    /\ step \in {"flag", "status", "state"} => paidBy = "nothing"
    /\ step = "data" => \/ paidBy = "mixup"
                        \/ /\ paidBy = "nothing" /\ unread[dir]
                           /\ \E k \in Shown : count = Len(k)
    /\ NoGrantWithoutCard
    /\ GrantedWasShown

LEMMA CardInit == Init => CardInv
<1>1. Init => TypeOK
  BY InitType
<1>2. Init => /\ step = "flag" /\ paidBy = "nothing"
              /\ \A d \in Directions : ~flag[d] /\ ~unread[d]
  BY DEF Init
<1>3. QED
  BY <1>1, <1>2 DEF CardInv, NoGrantWithoutCard, GrantedWasShown

\* The flag's own answer says that the image is new only if one was shown, with its
\* length, which is not 0.
LEMMA OwnFlag ==
  ASSUME CardInv, step = "flag", NEW o \in Own(FlagOf(dir)), TakeFlag(o)
  PROVE  \/ step' = "flag"
         \/ /\ step' = "data" /\ UNCHANGED <<dir, card>> /\ unread[dir]
            /\ \E k \in Shown : count' = Len(k)
<1>1. o.data = <<IF flag[dir] THEN 1 ELSE 0, Len(image[dir])>>
  BY DEF Own, Results, FlagOf
<1>2. o.data[1] = (IF flag[dir] THEN 1 ELSE 0) /\ o.data[2] = Len(image[dir])
  BY <1>1
<1>3. CASE flag[dir]
  <2>1. unread[dir] /\ image[dir] \in Shown
    BY <1>3 DEF CardInv, TypeOK
  <2>2. Len(image[dir]) \in 1 .. TarSize
    BY <2>1, CardAssumption
  <2>3. o.data[1] # 0 /\ o.data[2] # 0 /\ o.data[2] <= TarSize /\ ~(o.data[2] > TarSize)
    BY <1>2, <1>3, <2>2, CardAssumption
  <2>4. count' = Len(image[dir]) /\ step' = "data" /\ UNCHANGED <<dir, card>>
    BY <1>2, <2>3 DEF TakeFlag
  <2>5. QED
    BY <2>1, <2>4
<1>4. CASE ~flag[dir]
  <2>1. ~(o.data[1] # 0)
    BY <1>2, <1>4
  <2>2. QED
    BY <2>1 DEF TakeFlag, OtherTurn
<1>5. QED
  BY <1>3, <1>4

\* What is taken from the image's own answer are its bytes, as many as were asked for.
LEMMA OwnImage ==
  ASSUME TypeOK, step = "data", NEW o \in Own(ImageOf(dir)), NEW c \in Taken(o.data, count)
  PROVE  c = Padded(image[dir], count)
<1>1. o.data = ImageOf(dir)
  BY DEF Own, Results
<1>2. PICK rest \in [1 .. count -> Stale] :
        c = [i \in 1 .. count |-> IF i <= Len(o.data) THEN o.data[i] ELSE rest[i]]
  BY DEF Taken
<1>3. \A i \in 1 .. count : /\ i <= Len(o.data)
                            /\ o.data[i] = IF i <= Len(image[dir]) THEN image[dir][i] ELSE 0
  BY <1>1, ImageOfType
<1>4. \A i \in 1 .. count : (IF i <= Len(o.data) THEN o.data[i] ELSE rest[i])
                          = (IF i <= Len(image[dir]) THEN image[dir][i] ELSE 0)
  BY <1>3
<1>5. QED
  BY <1>2, <1>4 DEF Padded

LEMMA CardStep ==
  ASSUME CardInv, [Next]_vars
  PROVE  CardInv'
<1>1. TypeOK /\ TypeOK'
  BY StepType DEF CardInv
<1>2. CASE ReadFlag
  <2>1. PICK o \in Own(FlagOf(dir)) : TakeFlag(o)
    BY <1>2 DEF ReadFlag
  <2>2. step = "flag" /\ UNCHANGED <<flag, image, unread, paidBy>> /\ paidBy = "nothing"
    BY <1>2 DEF ReadFlag, turnstile, ghosts, CardInv
  <2>3. \/ step' = "flag"
        \/ step' = "data" /\ dir' = dir /\ unread[dir] /\ \E k \in Shown : count' = Len(k)
    BY <2>1, <2>2, OwnFlag
  <2>4. QED
    BY <1>1, <2>2, <2>3 DEF CardInv, NoGrantWithoutCard, GrantedWasShown
<1>3. CASE MixFlag
  <2>1. PICK o \in Mixed(FlagOf(dir)) : TakeFlag(o)
    BY <1>3 DEF MixFlag
  <2>2. UNCHANGED <<flag, image, unread>> /\ paidBy' = PaidBy("mixup")
    BY <1>3 DEF MixFlag, turnstile
  <2>3. step' \in {"flag", "data", "grant", "undefined"}
    BY <2>1 DEF TakeFlag, OtherTurn, Decide, Continue
  <2>4. (step' = "flag" => paidBy' = "nothing") /\ (step' # "flag" => paidBy' = "mixup")
    BY <2>2 DEF PaidBy
  <2>5. QED
    BY <1>1, <2>2, <2>3, <2>4 DEF CardInv, NoGrantWithoutCard, GrantedWasShown
<1>4. CASE ReadFlagFails
  <2>1. step = "flag" /\ step' = "flag" /\ UNCHANGED <<flag, image, unread, paidBy>>
    BY <1>4 DEF ReadFlagFails, Continue, OtherTurn, turnstile, ghosts
  <2>2. QED
    BY <1>1, <2>1 DEF CardInv, NoGrantWithoutCard, GrantedWasShown
<1>5. ASSUME NEW o, step = "data", ImageRead(o)
      PROVE  \A d \in Directions : /\ flag'[d] => unread'[d]
                                   /\ unread'[d] => image'[d] \in Shown
  <2>1. /\ image' = image
        /\ \/ UNCHANGED <<flag, unread>>
           \/ /\ flag' = [flag EXCEPT ![dir] = FALSE]
              /\ unread' = [unread EXCEPT ![dir] = FALSE]
    BY <1>5 DEF ImageRead, FlagAfter
  <2>2. QED
    BY <1>1, <2>1 DEF CardInv, TypeOK
<1>6. CASE ReadImage
  <2>1. PICK o \in Own(ImageOf(dir)) : TakeImage(o)
    BY <1>6 DEF ReadImage
  <2>2. step = "data"
        /\ paidBy' = PaidBy(IF paidBy = "nothing" /\ unread[dir] THEN "card" ELSE paidBy)
    BY <1>6 DEF ReadImage
  <2>3. ImageRead(o) /\ step' \in {"flag", "grant"}
    BY <1>1, <2>1, <2>2, TakeImageType
  <2>4. step' = "flag" => paidBy' = "nothing"
    BY <2>2 DEF PaidBy
  <2>5. CASE paidBy = "mixup"
    <3>1. step' = "grant" => paidBy' = "mixup"
      BY <2>2, <2>5 DEF PaidBy
    <3>2. QED
      BY <1>1, <1>5, <2>2, <2>3, <2>4, <3>1 DEF CardInv, NoGrantWithoutCard, GrantedWasShown
  <2>6. CASE paidBy = "nothing" /\ unread[dir] /\ \E k \in Shown : count = Len(k)
    <3>1. step' = "grant" => paidBy' = "card"
      BY <2>2, <2>6 DEF PaidBy
    <3>2. step' = "grant" => card' = CutLineEnd(Padded(image[dir], count))
      <4>1. step' = "grant" => \E c \in Taken(o.data, count) : card' = CutLineEnd(c)
        BY <1>1, <2>1, <2>2, TakeImageType
      <4>2. QED
        BY <1>1, <2>2, <4>1, OwnImage
    <3>3. image[dir] \in Shown
      BY <1>1, <2>6 DEF CardInv, TypeOK
    <3>4. PICK k \in Shown : count = Len(k)
      BY <2>6
    <3>5. step' = "grant" => \E img, n \in Shown : card' = CutLineEnd(Padded(img, Len(n)))
      BY <3>2, <3>3, <3>4
    <3>6. GrantedWasShown'
      BY <3>5 DEF GrantedWasShown, CutLineEnd, Padded
    <3>7. QED
      BY <1>1, <1>5, <2>2, <2>3, <2>4, <3>1, <3>6 DEF CardInv, NoGrantWithoutCard
  <2>7. QED
    BY <2>2, <2>5, <2>6 DEF CardInv
<1>7. CASE MixImage
  <2>1. PICK o \in Mixed(ImageOf(dir)) : TakeImage(o)
    BY <1>7 DEF MixImage
  <2>2. step = "data" /\ paidBy' = PaidBy("mixup")
    BY <1>7 DEF MixImage
  <2>3. ImageRead(o) /\ step' \in {"flag", "grant"}
    BY <1>1, <2>1, <2>2, TakeImageType
  <2>4. (step' = "flag" => paidBy' = "nothing") /\ (step' = "grant" => paidBy' = "mixup")
    BY <2>2 DEF PaidBy
  <2>5. QED
    BY <1>1, <1>5, <2>2, <2>3, <2>4 DEF CardInv, NoGrantWithoutCard, GrantedWasShown
<1>8. CASE ReadImageFails
  <2>1. PICK o \in Lost(ImageOf(dir)) : ImageRead(o)
    BY <1>8 DEF ReadImageFails
  <2>2. step = "data" /\ step' = "flag" /\ paidBy' = "nothing"
    BY <1>8 DEF ReadImageFails, Continue, PaidBy
  <2>3. QED
    BY <1>1, <1>5, <2>1, <2>2 DEF CardInv, NoGrantWithoutCard, GrantedWasShown
<1>9. CASE Grant
  <2>1. step' = "status" /\ paidBy' = "nothing" /\ UNCHANGED <<flag, image, unread>>
    BY <1>9 DEF Grant
  <2>2. QED
    BY <1>1, <2>1 DEF CardInv, NoGrantWithoutCard, GrantedWasShown
<1>10. CASE ReadStatus \/ ReadState
  <2>1. /\ step \in {"status", "state"} /\ step' \in {"flag", "status", "state"}
        /\ UNCHANGED <<flag, image, unread, paidBy>>
    BY <1>10 DEF ReadStatus, ReadState, OtherTurn, turnstile, ghosts
  <2>2. QED
    BY <1>1, <2>1 DEF CardInv, NoGrantWithoutCard, GrantedWasShown
<1>11. ASSUME NEW e \in Directions, Turnstile(e)
       PROVE  CardInv'
  <2>1. UNCHANGED <<dir, step, count, card, paidBy>>
    BY <1>11 DEF Turnstile, Present, PassBegins, PassEnds, PassExpires, Opened, Closed,
       thread, ghosts
  <2>2. \A d \in Directions : (flag'[d] => unread'[d]) /\ (unread'[d] => image'[d] \in Shown)
    <3>1. ASSUME NEW c \in ShownAt[e], Present(e, c)
          PROVE  \A d \in Directions : (flag'[d] => unread'[d]) /\ (unread'[d] => image'[d] \in Shown)
      <4>1. c \in Shown
        BY CardAssumption DEF Directions
      <4>2. QED
        BY <1>1, <3>1, <4>1 DEF Present, CardInv, TypeOK
    <3>2. CASE UNCHANGED <<flag, image, unread>>
      BY <3>2 DEF CardInv
    <3>3. QED
      BY <1>11, <3>1, <3>2
      DEF Turnstile, PassBegins, PassEnds, PassExpires, Opened, Closed, ghosts
  <2>3. unread[dir] => unread'[dir]
    BY <1>1, <1>11 DEF Turnstile, Present, PassBegins, PassEnds, PassExpires, Opened, Closed,
       ghosts, TypeOK
  <2>4. GrantedWasShown'
    BY <2>1 DEF CardInv, GrantedWasShown, CutLineEnd, Padded
  <2>5. QED
    BY <1>1, <2>1, <2>2, <2>3, <2>4 DEF CardInv, NoGrantWithoutCard
<1>12. CASE MakeList \/ UNCHANGED vars
  <2>1. UNCHANGED <<dir, step, count, card, paidBy, flag, image, unread>>
    BY <1>12 DEF MakeList, vars, service, thread, turnstile, ghosts
  <2>2. GrantedWasShown'
    BY <2>1 DEF CardInv, GrantedWasShown, CutLineEnd, Padded
  <2>3. QED
    BY <1>1, <2>1, <2>2 DEF CardInv, NoGrantWithoutCard
<1>13. QED
  BY <1>2, <1>3, <1>4, <1>6, <1>7, <1>8, <1>9, <1>10, <1>11, <1>12
  DEF Next, Thread, ServeCard, AwaitPassage

LEMMA CardInvHolds == Spec => []CardInv
<1>1. CardInv /\ [Next]_vars => CardInv'
  BY CardStep
<1>2. QED
  BY <1>1, CardInit, PTL DEF Spec

\* A card opens the turnstile once at most.  The thread asks for a pass only when it
\* has read the image of a card that was shown since the image was read last, or when
\* it has taken another read's answer for the flag or the image: however many calls
\* fail, executed or not, and whenever the next card comes.
THEOREM GrantsAreOfCards == Spec => []NoGrantWithoutCard
<1>1. CardInv => NoGrantWithoutCard
  BY DEF CardInv
<1>2. QED
  BY <1>1, CardInvHolds, PTL

\* The card of a pass that no other read's answer has paid for is one shown, in the
\* length of one shown, with a list or without.
THEOREM GrantsAreOfShownImages == Spec => []GrantedWasShown
<1>1. CardInv => GrantedWasShown
  BY DEF CardInv
<1>2. QED
  BY <1>1, CardInvHolds, PTL

-----------------------------------------------------------------------------
\* The list is made as CardList has it: every step of the service is one of the
\* list's or leaves it alone, and the thread looks at it only when it is ready.
LEMMA ServiceKeepsList ==
  ASSUME [Next]_vars
  PROVE  [ListNext]_listVars
<1>1. CASE MakeList
  BY <1>1 DEF MakeList
<1>2. CASE Thread
  BY <1>2 DEF Thread, ServeCard, AwaitPassage, ReadFlag, MixFlag, ReadFlagFails, ReadImage, MixImage,
     ReadImageFails, TakeImage, ImageRead, Grant, ReadStatus, ReadState
<1>3. ASSUME NEW d \in Directions, Turnstile(d)
      PROVE  UNCHANGED listVars
  BY <1>3 DEF Turnstile, Present, PassBegins, PassEnds, PassExpires, Opened, Closed
<1>4. CASE UNCHANGED vars
  BY <1>4 DEF vars
<1>5. QED
  BY <1>1, <1>2, <1>3, <1>4 DEF Next

\* The service uses a list as CardList makes it: whatever holds of getConfigInfo
\* alone holds while the threads and the turnstile run.
THEOREM ServiceMakesList == Spec => ListSpec
<1>1. Init => ListInit
  BY DEF Init
<1>2. [Next]_vars => [ListNext]_listVars
  BY ServiceKeepsList
<1>3. QED
  BY <1>1, <1>2, PTL DEF Spec, ListSpec

\* Once the list is ready nothing changes it.
LEMMA ReadyStays ==
  ASSUME pc = "ready", [ListNext]_listVars
  PROVE  UNCHANGED listVars
  BY DEF ListNext, Load, NoFile, Mark, BeginLine, SkipNul, AddLength, EndSplit, Fill, Splitting

\* The card of the pass that is asked for next was found in the list.
KnownInv ==
    /\ ListInv
    /\ step = "grant" => pc = "ready" /\ CheckCard(card)

\* Whatever the card was decided on was found, if it gets its pass.
LEMMA DecidedIsKnown ==
  ASSUME NEW c, Decide(c), step' = "grant"
  PROVE  CheckCard(card')
BY DEF Decide, Continue

LEMMA KnownStep ==
  ASSUME KnownInv, [Next]_vars
  PROVE  KnownInv'
<1>1. ListInv /\ ListInv' /\ [ListNext]_listVars
  BY ServiceKeepsList, ListStep DEF KnownInv
<1>2. CASE Thread
  <2>1. pc = "ready" /\ UNCHANGED listVars
    BY <1>1, <1>2, ReadyStays DEF Thread
  <2>2. UNCHANGED <<pc, cardsCount, cards>>
    BY <2>1 DEF listVars
  <2>3. step' = "grant" => CheckCard(card')
    <3>1. CASE ReadFlag \/ MixFlag
      BY <3>1, DecidedIsKnown DEF ReadFlag, MixFlag, TakeFlag, OtherTurn
    <3>2. CASE ReadImage \/ MixImage
      BY <3>2, DecidedIsKnown DEF ReadImage, MixImage, TakeImage
    <3>3. CASE ReadFlagFails \/ ReadImageFails \/ Grant \/ ReadStatus \/ ReadState
      BY <3>3 DEF ReadFlagFails, ReadImageFails, Grant, ReadStatus, ReadState, Continue, OtherTurn
    <3>4. QED
      BY <1>2, <3>1, <3>2, <3>3 DEF Thread, ServeCard, AwaitPassage
  <2>4. CheckCard(card)' <=> CheckCard(card')
    BY <2>2 DEF CheckCard, FindCard
  <2>5. QED
    BY <1>1, <2>1, <2>2, <2>3, <2>4 DEF KnownInv
<1>3. CASE ~Thread
  <2>1. UNCHANGED <<step, card>>
    BY <1>3 DEF Next, MakeList, Turnstile, Present, PassBegins, PassEnds, PassExpires,
       Opened, Closed, vars, service, thread
  <2>2. pc = "ready" => UNCHANGED <<pc, cardsCount, cards>>
    BY <1>1, ReadyStays DEF listVars
  <2>3. step' = "grant" => pc = "ready" /\ CheckCard(card)
    BY <2>1 DEF KnownInv
  <2>4. pc = "ready" => (CheckCard(card)' <=> CheckCard(card))
    BY <2>1, <2>2 DEF CheckCard, FindCard
  <2>5. QED
    BY <1>1, <2>2, <2>3, <2>4 DEF KnownInv
<1>4. QED
  BY <1>2, <1>3

\* A pass is asked for only for a card that a line of the file names, if the
\* list is used: from the file through the list to the register of the turnstile.
THEOREM GrantsAreOfKnownCards == Spec => []OnlyKnownGranted
<1>1. Init => KnownInv
  BY ListStart DEF Init, KnownInv
<1>2. KnownInv /\ [Next]_vars => KnownInv'
  BY KnownStep
<1>3. KnownInv => OnlyKnownGranted
  BY AcceptsLines DEF KnownInv, OnlyKnownGranted
<1>4. QED
  BY <1>1, <1>2, <1>3, PTL DEF Spec

-----------------------------------------------------------------------------
\* A pass that is still to be used has the thread in its wait loop, which has not
\* seen it used up - unless the last read of the passes failed, or was answered
\* with what another read was to get.
PassInv ==
    /\ TypeOK
    /\ \A d \in Directions :
         passes[d] = 1 /\ ~misread[d] =>
             /\ dir = d
             /\ step = "status" \/ (step = "state" /\ permits # 0)

LEMMA PassStep ==
  ASSUME PassInv, [Next]_vars
  PROVE  PassInv'
<1>1. TypeOK /\ TypeOK'
  BY StepType DEF PassInv
<1>2. CASE ReadFlag \/ MixFlag \/ ReadFlagFails \/ ReadImage \/ MixImage \/ ReadImageFails
  <2>1. step \notin {"status", "state"} /\ UNCHANGED <<passes, misread>>
    BY <1>2 DEF ReadFlag, MixFlag, ReadFlagFails, ReadImage, MixImage, ReadImageFails,
       TakeImage, ImageRead, turnstile, ghosts
  <2>2. QED
    BY <1>1, <2>1 DEF PassInv
<1>3. CASE Grant
  <2>1. ASSUME NEW d \in Directions, passes'[d] = 1, ~misread'[d]
        PROVE  dir' = d /\ step' = "status"
    <3>1. CASE d = dir
      BY <1>3, <3>1 DEF Grant
    <3>2. CASE d # dir
      BY <1>1, <1>3, <2>1, <3>2 DEF Grant, TypeOK, PassInv
    <3>3. QED
      BY <3>1, <3>2
  <2>2. QED
    BY <1>1, <2>1 DEF PassInv
<1>4. CASE ReadStatus
  <2>1. PICK o \in Own(Word(passes[dir])) \cup Lost(Word(passes[dir])) \cup Mixed(Word(passes[dir])) :
          /\ permits' = Polled(o)
          /\ \/ o \in Own(Word(passes[dir])) /\ misread' = [misread EXCEPT ![dir] = FALSE]
             \/ misread' = [misread EXCEPT ![dir] = (passes[dir] = 1)]
    BY <1>4 DEF ReadStatus
  <2>2. step = "status" /\ step' = "state" /\ UNCHANGED <<dir, passes>>
    BY <1>4 DEF ReadStatus, turnstile
  <2>3. ASSUME NEW d \in Directions, passes'[d] = 1, ~misread'[d]
        PROVE  dir' = d /\ permits' # 0
    <3>1. CASE d # dir
      <4>1. ~misread[d] /\ passes[d] = 1
        BY <1>1, <2>1, <2>2, <2>3, <3>1 DEF TypeOK
      <4>2. QED
        BY <3>1, <4>1 DEF PassInv
    <3>2. CASE d = dir
      <4>1. passes[dir] = 1
        BY <2>2, <2>3, <3>2
      <4>2. misread' # [misread EXCEPT ![dir] = TRUE]
        BY <1>1, <2>3, <3>2 DEF TypeOK
      <4>3. o \in Own(Word(1))
        BY <2>1, <4>1, <4>2
      <4>4. o.data = Word(1)
        BY <4>3 DEF Own, Results
      <4>5. Polled(o) = 1
        BY <4>4, Words DEF Polled
      <4>6. QED
        BY <2>1, <2>2, <3>2, <4>5
    <3>3. QED
      BY <3>1, <3>2
  <2>4. QED
    BY <1>1, <2>2, <2>3 DEF PassInv
<1>5. CASE ReadState
  <2>1. PICK o : IF WaitDone(permits, Polled(o))
                 THEN OtherTurn ELSE step' = "status" /\ UNCHANGED <<dir, card>>
    BY <1>5 DEF ReadState
  <2>2. step = "state" /\ UNCHANGED <<passes, misread>>
    BY <1>5 DEF ReadState, turnstile, ghosts
  <2>3. ASSUME NEW d \in Directions, passes'[d] = 1, ~misread'[d]
        PROVE  dir' = d /\ step' = "status"
    <3>1. dir = d /\ permits # 0
      BY <2>2, <2>3 DEF PassInv
    <3>2. QED
      BY <2>1, <3>1 DEF WaitDone
  <2>4. QED
    BY <1>1, <2>3 DEF PassInv
<1>6. ASSUME NEW e \in Directions, Turnstile(e)
      PROVE  PassInv'
  <2>1. /\ UNCHANGED <<dir, step, permits>>
        /\ \A d \in Directions : (passes'[d] = 1 /\ ~misread'[d]) => (passes[d] = 1 /\ ~misread[d])
    <3>1. CASE \E c \in ShownAt[e] : Present(e, c)
      BY <3>1 DEF Present, thread
    <3>2. CASE PassBegins(e) \/ Closed(e)
      BY <1>1, <3>2 DEF PassBegins, Closed, thread, ghosts, TypeOK
    <3>3. CASE PassEnds(e) \/ PassExpires(e) \/ Opened(e)
      BY <1>1, <3>3 DEF PassEnds, PassExpires, Opened, thread, TypeOK, Free
    <3>4. QED
      BY <1>6, <3>1, <3>2, <3>3 DEF Turnstile
  <2>2. QED
    BY <1>1, <2>1 DEF PassInv
<1>7. CASE MakeList \/ UNCHANGED vars
  <2>1. UNCHANGED <<dir, step, permits, passes, misread>>
    BY <1>7 DEF MakeList, vars, service, thread, turnstile, ghosts
  <2>2. QED
    BY <1>1, <2>1 DEF PassInv
<1>8. QED
  BY <1>2, <1>3, <1>4, <1>5, <1>6, <1>7 DEF Next, Thread, ServeCard, AwaitPassage

\* A pass that is still to be used is never overwritten by the next one, unless the
\* last read of the passes failed or took another read's answer.
THEOREM PassesAreNotOverwritten == Spec => []NoGrantOverwritten
<1>1. Init => PassInv
  BY InitType DEF Init, PassInv
<1>2. PassInv /\ [Next]_vars => PassInv'
  BY PassStep
<1>3. PassInv => NoGrantOverwritten
  BY DEF PassInv, TypeOK, NoGrantOverwritten
<1>4. QED
  BY <1>1, <1>2, <1>3, PTL DEF Spec
=============================================================================
