------------------------------ MODULE CardList ------------------------------
(***************************************************************************)
(* The list of cards: getConfigInfo (TurnstileCPP/uMain.cpp) reads the     *)
(* file (loadConfigFile), splits it into lines (doSplitConfig), turns each *)
(* line into a card and stores it (CardStorageRef, uMain.h), before the    *)
(* threads start; they look cards up in it (checkCard, FindCard).          *)
(*                                                                         *)
(* A character is the value of a hex digit, or one of four kinds above 15. *)
(* Positions start with 1: l characters of the buffer are behind the       *)
(* pointer of the code's l.                                                *)
(***************************************************************************)
EXTENDS Naturals, Sequences, FiniteSets

CONSTANTS
    Files,           \* the contents the file may have
    Shown,           \* the cards that may be looked up
    MaxFile,         \* CFGBUFF_MAX_SIZE, 16000
    MaxLines,        \* CFGARRAY_MAX_SIZE, 500
    CardDataLength,  \* CARDDATALENGTH, 30
    Overrun          \* what may follow the buffer in memory, up to the next 0

Nul   == 16
Sep   == 17  \* LF, CR and ;
Blank == 18
Other == 19  \* not a sign: the code would take -5 for FB
Char  == 0 .. 19

ASSUME CardListAssumption ==
    /\ Files \subseteq Seq(Char)
    /\ Shown \subseteq Seq(0 .. 255)
    /\ MaxFile \in Nat
    /\ MaxLines \in Nat \ {0}
    /\ CardDataLength \in Nat
    /\ Overrun \subseteq Seq(Char \ {Nul})

VARIABLES
    pc,     \* the phase of getConfigInfo
    file,   \* the content of the file
    buf,    \* fileBuffer up to its last 0, with what follows it if there is none
    l,      \* doSplitConfig's l
    lines,  \* configLinesArray: where the lines begin
    cardsCount, \* CardsCount
    next,   \* the line that is stored next
    cards   \* Card and CardLength

listVars == <<pc, file, buf, l, lines, cardsCount, next, cards>>

\* A file that does not fill the buffer is not left while it is split and its
\* strings are measured, and no card is longer than its place in the storage.
ListTypeOK ==
    /\ pc \in {"load", "mark", "split", "inLine", "fill", "ready"}
    /\ file \in Files
    /\ buf \in Seq(Char) /\ (Len(file) < MaxFile => Len(buf) <= Len(file))
    /\ l \in 0 .. Len(buf)
    /\ lines \in Seq(Nat) /\ Len(lines) <= MaxLines
    /\ cardsCount \in 0 .. MaxLines
    /\ next \in 1 .. MaxLines + 1
    /\ cards \in [1 .. MaxLines -> Seq(0 .. 255)]
    /\ \A i \in 1 .. MaxLines : Len(cards[i]) <= CardDataLength

ListInit ==
    /\ pc = "load"
    /\ file \in Files
    /\ buf = << >>
    /\ l = 0
    /\ lines = << >>
    /\ cardsCount = 0
    /\ next = 1
    /\ cards = [i \in 1 .. MaxLines |-> << >>]

-----------------------------------------------------------------------------
\* The file is read, and a 0 written behind it: behind the buffer itself, if the
\* file fills it, where another variable lives.
Load ==
    /\ pc = "load"
    /\ file # << >> /\ Len(file) <= MaxFile
    /\ buf' \in {file} \cup (IF Len(file) = MaxFile THEN {file \o t : t \in Overrun} ELSE {})
    /\ pc' = "mark"
    /\ UNCHANGED <<file, l, lines, cardsCount, next, cards>>

\* It is empty or too long, or cannot be opened or read: the list stays empty.
NoFile ==
    /\ pc = "load"
    /\ pc' = "ready"
    /\ UNCHANGED <<file, buf, l, lines, cardsCount, next, cards>>

\* doSplitConfig writes a 0 over every line end ...
Mark ==
    /\ pc = "mark"
    /\ buf' = [p \in 1 .. Len(buf) |->
                 IF p <= Len(file) /\ buf[p] = Sep THEN Nul ELSE buf[p]]
    /\ pc' = "split"
    /\ UNCHANGED <<file, l, lines, cardsCount, next, cards>>

\* ... and goes through the buffer while there are places for lines.
Splitting_OneMore == pc = "split" /\ l < Len(file) /\ Len(lines) <= MaxLines

Splitting == pc = "split" /\ l < Len(file) /\ Len(lines) < MaxLines

BeginLine ==
    /\ Splitting
    /\ buf[l + 1] # Nul
    /\ lines' = Append(lines, l + 1)
    /\ l' = l + 1
    /\ pc' = "inLine"
    /\ UNCHANGED <<file, buf, cardsCount, next, cards>>

SkipNul ==
    /\ Splitting
    /\ buf[l + 1] = Nul
    /\ l' = l + 1
    /\ UNCHANGED <<pc, file, buf, lines, cardsCount, next, cards>>

\* strlen, one character after the first at a time: on to the next 0.
AddLength ==
    /\ pc = "inLine"
    /\ IF l < Len(buf) /\ buf[l + 1] # Nul
       THEN l' = l + 1 /\ UNCHANGED pc
       ELSE pc' = "split" /\ UNCHANGED l
    /\ UNCHANGED <<file, buf, lines, cardsCount, next, cards>>

\* What is left of the file when there is no more place makes it too long, and
\* the list stays empty.
EndSplit_Rest ==
    /\ pc = "split" /\ ~Splitting
    /\ IF lines = << >>
       THEN pc' = "ready" /\ UNCHANGED cardsCount
       ELSE pc' = "fill" /\ cardsCount' = Len(lines)
    /\ UNCHANGED <<file, buf, l, lines, next, cards>>

EndSplit_LastIsOne ==
    /\ pc = "split" /\ ~Splitting
    /\ IF Len(lines) <= 1 \/ l < Len(file)
       THEN pc' = "ready" /\ UNCHANGED cardsCount
       ELSE pc' = "fill" /\ cardsCount' = Len(lines)
    /\ UNCHANGED <<file, buf, l, lines, next, cards>>

EndSplit ==
    /\ pc = "split" /\ ~Splitting
    /\ IF lines = << >> \/ l < Len(file)
       THEN pc' = "ready" /\ UNCHANGED cardsCount
       ELSE pc' = "fill" /\ cardsCount' = Len(lines)
    /\ UNCHANGED <<file, buf, l, lines, next, cards>>

\* sscanf of two characters with %2X: up to the first that is no digit, 0 if
\* that is the first one, blanks before it left aside.
Pair(a, b) ==
    CASE a < 16 /\ b < 16  -> 16 * a + b
      [] a < 16 /\ b >= 16 -> a
      [] a = Blank /\ b < 16 -> b
      [] OTHER -> 0

\* A line that is too long is stored as an empty card, and so is a single
\* character; the last of an odd number is left out.
CardOf(text) ==
    IF Len(text) <= 2 * CardDataLength
    THEN [j \in 1 .. Len(text) \div 2 |-> Pair(text[2 * j - 1], text[2 * j])]
    ELSE << >>

\* The string that begins at p.
StringAt(p) ==
    SubSeq(buf, p, CHOOSE e \in p .. Len(buf) :
                     /\ e = Len(buf) \/ buf[e + 1] = Nul
                     /\ \A j \in p .. e : buf[j] # Nul)

\* setCard, line after line.
Fill ==
    /\ pc = "fill"
    /\ cards' = [cards EXCEPT ![next] = CardOf(StringAt(lines[next]))]
    /\ next' = next + 1
    /\ pc' = IF next = cardsCount THEN "ready" ELSE "fill"
    /\ UNCHANGED <<file, buf, l, lines, cardsCount>>

-----------------------------------------------------------------------------
ListNext ==
    \/ Load \/ NoFile
    \/ Mark \/ BeginLine \/ SkipNul \/ AddLength \/ EndSplit
    \/ Fill

ListSpec == ListInit /\ [][ListNext]_listVars

-----------------------------------------------------------------------------
(* What the threads do with it.                                            *)

\* The number of the first card of the list with this image, or 0.
FindCard_AnyLength(c) ==
    LET hits == {i \in 1 .. cardsCount :
                   c # << >> /\ \A j \in 1 .. Len(cards[i]) : j <= Len(c) /\ cards[i][j] = c[j]}
    IN  IF hits = {} THEN 0 ELSE CHOOSE i \in hits : \A j \in hits : i <= j

FindCard(c) ==
    LET hits == {i \in 1 .. cardsCount : c # << >> /\ cards[i] = c}
    IN  IF hits = {} THEN 0 ELSE CHOOSE i \in hits : \A j \in hits : i <= j

\* An empty list accepts every card.
CheckCard_LastLeftOut(c) == cardsCount = 0 \/ FindCard(c) \in 1 .. cardsCount - 1

CheckCard(c) == cardsCount = 0 \/ FindCard(c) # 0

-----------------------------------------------------------------------------
(* What the file means.                                                    *)

Ends(c) == c \in {Nul, Sep}

Begins(p) == ~Ends(file[p]) /\ (p = 1 \/ Ends(file[p - 1]))

Beginnings == {p \in 1 .. Len(file) : Begins(p)}

\* The line of the file that begins at p.
LineAt(p) ==
    SubSeq(file, p, CHOOSE e \in p .. Len(file) :
                      /\ e = Len(file) \/ Ends(file[e + 1])
                      /\ \A j \in p .. e : ~Ends(file[j]))

\* The line that names a card: its bytes as IntToHex writes them, two digits each.
IntToHex(b) == <<b \div 16, b % 16>>

HexLine(c) == [k \in 1 .. 2 * Len(c) |-> IntToHex(c[(k + 1) \div 2])[2 - (k % 2)]]

\* A list that is used has every line of the file and nothing else, in order:
\* no file is cut silently at the limit of its lines.
ListIsComplete ==
    cardsCount > 0 =>
        /\ {lines[k] : k \in 1 .. Len(lines)} = Beginnings
        /\ \A j, k \in 1 .. Len(lines) : j < k => lines[j] < lines[k]

\* With a list the threads accept a card exactly if it is that of a line of the
\* file, wherever the line is and whatever lines are around it, unless the file
\* fills the buffer, when the last line may have no end.
AcceptsFile ==
    (pc = "ready" /\ cardsCount > 0 /\ Len(file) < MaxFile) =>
        \A c \in Shown :
            CheckCard(c) <=> c # << >> /\ \E p \in Beginnings : CardOf(LineAt(p)) = c

\* A file that was read and has lines is used, if it has fewer lines than fit:
\* only then can an empty list not come of a file that names cards.
FileIsUsed ==
    (pc = "ready" /\ buf # << >> /\ Beginnings # {}) =>
        cardsCount > 0 \/ Len(lines) = MaxLines

\* A file is refused only if there are more lines than fit ("There are more than
\* CFGARRAY_MAX_SIZE lines in the configuration file buffer", uMain.cpp:486).
RefusedIsTooLong ==
    (pc = "ready" /\ buf # << >> /\ Beginnings # {} /\ cardsCount = 0) =>
        Cardinality(Beginnings) > MaxLines
=============================================================================
