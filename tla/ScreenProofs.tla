----------------------------- MODULE ScreenProofs -----------------------------
(***************************************************************************)
(* Theorems about Screen, for any cards and every interleaving of the      *)
(* threads' sections with main's clearing and printing.                    *)
(***************************************************************************)
EXTENDS Screen, SequenceTheorems, TLAPS

\* Heads and tails of what is still to be stored or formatted.
LEMMA Heads ==
    /\ Head(<<"connected", "status", "count", "isNew", "card">>) = "connected"
    /\ Head(<<"status", "count", "isNew", "card">>) = "status"
    /\ Head(<<"count", "isNew", "card">>) = "count"
    /\ Head(<<"isNew", "card">>) = "isNew"
    /\ Head(<<"card">>) = "card"
    /\ Head(<<"connected", "status", "count">>) = "connected"
    /\ Head(<<"status", "count">>) = "status"
    /\ Head(<<"count">>) = "count"
    /\ Head(<<"connected">>) = "connected"
OBVIOUS

LEMMA Tails ==
    /\ Tail(<<"connected", "status", "count", "isNew", "card">>) = <<"status", "count", "isNew", "card">>
    /\ Tail(<<"status", "count", "isNew", "card">>) = <<"count", "isNew", "card">>
    /\ Tail(<<"count", "isNew", "card">>) = <<"isNew", "card">>
    /\ Tail(<<"isNew", "card">>) = <<"card">>
    /\ Tail(<<"card">>) = << >>
    /\ Tail(<<"connected", "status", "count">>) = <<"status", "count">>
    /\ Tail(<<"status", "count">>) = <<"count">>
    /\ Tail(<<"count">>) = << >>
    /\ Tail(<<"connected">>) = << >>
OBVIOUS

LEMMA NamesExpanded == CellNames = {"connected", "status", "count", "isNew", "card"}
BY DEF CellNames, Cells

LEMMA RowStored ==
  ASSUME NEW r \in Row, NEW c \in CellNames, NEW v,
         c = "connected" => v \in {Empty, "NO", "YES"},
         c = "status" => v \in Texts,
         c = "count" => v \in Passes \cup {Empty},
         c = "isNew" => v \in {Empty, "New"},
         c = "card" => v \in Cards \cup {Empty}
  PROVE  [r EXCEPT ![c] = v] \in Row
BY NamesExpanded DEF Row

LEMMA BlankRow == Blank \in Row
BY NamesExpanded DEF Blank, Row, Texts

-----------------------------------------------------------------------------
\* What is left of a locked section: the cells from some one of them on.
LeftToStore ==
    CASE pc = "begin" -> {<< >>, <<"connected">>}
      [] pc = "first" -> {<< >>, <<"connected", "status", "count">>, <<"status", "count">>,
                          <<"count">>}
      [] pc = "wait"  -> {<< >>, <<"status", "count", "isNew", "card">>,
                          <<"count", "isNew", "card">>, <<"isNew", "card">>, <<"card">>}
      [] pc = "turn"  -> {<< >>, <<"isNew", "card">>, <<"card">>}
      [] OTHER        -> {<< >>}

LeftToDraw == {<< >>, <<"connected", "status", "count", "isNew", "card">>,
               <<"status", "count", "isNew", "card">>, <<"count", "isNew", "card">>,
               <<"isNew", "card">>, <<"card">>}

\* Who is in the middle of its cells holds the mutex, and main has cleared all
\* before it formats any.
LockInv ==
    /\ todo \in LeftToStore
    /\ todraw \in LeftToDraw
    /\ todo # << >> => holder = "thread"
    /\ todraw # << >> => holder = "main" /\ cleared = Len(Cells)

LEMMA SequencesOfCells ==
    /\ LeftToDraw \subseteq Seq(CellNames)
    /\ LeftToStore \subseteq Seq(CellNames)
<1>1. /\ << >> \in Seq(CellNames)
      /\ <<"connected">> \in Seq(CellNames)
      /\ <<"card">> \in Seq(CellNames)
      /\ <<"count">> \in Seq(CellNames)
  BY NamesExpanded
<1>2. /\ <<"isNew", "card">> \in Seq(CellNames)
      /\ <<"status", "count">> \in Seq(CellNames)
  BY NamesExpanded
<1>3. /\ <<"count", "isNew", "card">> \in Seq(CellNames)
      /\ <<"connected", "status", "count">> \in Seq(CellNames)
  BY NamesExpanded
<1>4. <<"status", "count", "isNew", "card">> \in Seq(CellNames)
  BY NamesExpanded
<1>5. <<"connected", "status", "count", "isNew", "card">> \in Seq(CellNames)
  BY NamesExpanded
<1>6. QED BY <1>1, <1>2, <1>3, <1>4, <1>5 DEF LeftToDraw, LeftToStore

LEMMA SectionsBegin ==
  ASSUME pc \in DOMAIN Stored
  PROVE  Stored[pc] \in LeftToStore /\ Stored[pc] # << >>
BY DEF Stored, LeftToStore

LEMMA OneLeft ==
  ASSUME NEW s \in LeftToDraw \cup LeftToStore, s # << >>
  PROVE  /\ Head(s) \in CellNames
         /\ Len(s) = 1 <=> Tail(s) = << >>
         /\ s \in LeftToDraw => Tail(s) \in LeftToDraw
         /\ s \in LeftToStore => Tail(s) \in LeftToStore
<1>1. Head(s) \in CellNames
  <2>1. CASE s \in LeftToDraw
    BY <2>1, Heads, NamesExpanded DEF LeftToDraw
  <2>2. CASE s \in LeftToStore
    BY <2>2, Heads, NamesExpanded DEF LeftToStore
  <2>3. QED BY <2>1, <2>2
<1>2. Len(s) = 1 <=> Tail(s) = << >>
  <2>1. s \in Seq(CellNames)
    BY SequencesOfCells
  <2>2. Tail(s) \in Seq(CellNames) /\ Len(Tail(s)) = Len(s) - 1
    BY <2>1
  <2>3. Len(Tail(s)) = 0 <=> Tail(s) = << >>
    BY <2>2, EmptySeq
  <2>4. Len(s) \in Nat
    BY <2>1
  <2>5. QED BY <2>2, <2>3, <2>4
<1>3. s \in LeftToDraw => Tail(s) \in LeftToDraw
  BY Tails DEF LeftToDraw
<1>4. ASSUME s \in LeftToStore PROVE Tail(s) \in LeftToStore
  <2>1. CASE pc = "begin"
    BY <1>4, <2>1, Tails DEF LeftToStore
  <2>2. CASE pc = "first"
    BY <1>4, <2>2, Tails DEF LeftToStore
  <2>3. CASE pc = "wait"
    BY <1>4, <2>3, Tails DEF LeftToStore
  <2>4. CASE pc = "turn"
    BY <1>4, <2>4, Tails DEF LeftToStore
  <2>5. CASE pc \notin {"begin", "first", "wait", "turn"}
    BY <1>4, <2>5 DEF LeftToStore
  <2>6. QED BY <2>1, <2>2, <2>3, <2>4, <2>5
<1>5. QED BY <1>1, <1>2, <1>3, <1>4

\* The mutex keeps the thread's sections and main's apart.
THEOREM SectionsApart == Spec => []LockInv
<1>1. Init => LockInv
  BY DEF Init, LockInv, LeftToStore, LeftToDraw
<1>2. LockInv /\ [Next]_vars => LockInv'
  <2> SUFFICES ASSUME LockInv, [Next]_vars PROVE LockInv'
    OBVIOUS
  <2>1. CASE ThreadLocks
    <3>1. todo' \in LeftToStore /\ todo' # << >> /\ holder' = "thread" /\ pc' = pc
      BY <2>1, SectionsBegin DEF ThreadLocks, local
    <3>2. todraw' = << >>
      BY <2>1 DEF ThreadLocks, LockInv, main
    <3>3. QED BY <3>1, <3>2 DEF LockInv, LeftToStore, LeftToDraw
  <2>2. CASE Store
    <3>1. todo # << >> /\ todo' = Tail(todo) /\ holder = "thread" /\ UNCHANGED main
      BY <2>2 DEF Store, LockInv
    <3>2. todraw = << >>
      BY <3>1 DEF LockInv
    <3>3. CASE Len(todo) = 1
      <4>1. todo' = << >>
        BY <3>1, <3>3, OneLeft DEF LockInv
      <4>2. QED BY <3>1, <3>2, <4>1 DEF LockInv, LeftToStore, LeftToDraw, main
    <3>4. CASE Len(todo) # 1
      <4>1. pc' = pc /\ holder' = holder
        BY <2>2, <3>4 DEF Store
      <4>2. todo' \in LeftToStore
        BY <3>1, OneLeft DEF LockInv
      <4>3. QED BY <3>1, <3>2, <4>1, <4>2 DEF LockInv, LeftToStore, main
    <3>5. QED BY <3>3, <3>4
  <2>3. CASE Calls
    <3>1. pc \notin DOMAIN Stored /\ UNCHANGED <<todo, holder, todraw, cleared>>
      BY <2>3 DEF Calls, Search, ReadFirst, ReadStatus, ReadPasses, ReadState, NoCard, NewCard,
                  NoFlag, NoImage, local, main, Stored
    <3>2. todo = << >>
      BY <3>1 DEF LockInv, LeftToStore, Stored
    <3>3. << >> \in LeftToStore'
      BY DEF LeftToStore
    <3>4. QED BY <3>1, <3>2, <3>3 DEF LockInv
  <2>4. CASE Clear
    <3>1. todraw = << >>
      <4>1. cleared < Len(Cells)
        BY <2>4 DEF Clear
      <4>2. Len(Cells) = 5
        BY DEF Cells
      <4>3. QED BY <4>1, <4>2 DEF LockInv
    <3>2. QED BY <2>4, <3>1 DEF Clear, LockInv, LeftToStore, thread, local
  <2>5. CASE MainLocks
    <3>1. todo = << >>
      BY <2>5 DEF MainLocks, LockInv
    <3>2. Cells \in LeftToDraw
      BY DEF Cells, LeftToDraw
    <3>3. QED BY <2>5, <3>1, <3>2 DEF MainLocks, LockInv, LeftToStore, thread
  <2>6. CASE Draw
    <3>1. todraw # << >> /\ todraw' = Tail(todraw) /\ holder = "main"
      BY <2>6 DEF Draw, LockInv
    <3>2. todraw' \in LeftToDraw /\ (Len(todraw) = 1 <=> todraw' = << >>)
      BY <3>1, OneLeft DEF LockInv
    <3>3. todo = << >>
      BY <3>1 DEF LockInv
    <3>4. QED BY <2>6, <3>1, <3>2, <3>3 DEF Draw, LockInv, LeftToStore, thread
  <2>7. CASE OtherLocks \/ OtherUnlocks
    BY <2>7 DEF OtherLocks, OtherUnlocks, LockInv, LeftToStore, thread, main
  <2>8. CASE UNCHANGED vars
    BY <2>8 DEF vars, thread, main, LockInv, LeftToStore
  <2>9. QED BY <2>1, <2>2, <2>3, <2>4, <2>5, <2>6, <2>7, <2>8 DEF Next
<1>3. QED BY <1>1, <1>2, PTL DEF Spec

-----------------------------------------------------------------------------
\* What the thread copies is of the type of its cell.
LEMMA ValueTypes ==
  ASSUME TypeOK, NEW c \in CellNames
  PROVE  /\ c = "connected" => Value(c) \in {Empty, "NO", "YES"}
         /\ c = "status" => Value(c) = text /\ Value(c) \in Texts
         /\ c = "count" => Value(c) = n /\ Value(c) \in Passes \cup {Empty}
         /\ c = "isNew" => Value(c) \in {Empty, "New"}
         /\ c = "card" => Value(c) \in {card, Empty} /\ Value(c) \in Cards \cup {Empty}
BY DEF TypeOK, Value

\* Type correctness of the screen (rtu_thread, tcp_thread and main).
THEOREM TypeCorrect == Spec => []TypeOK
<1>1. Init => TypeOK
  <2> SUFFICES ASSUME Init PROVE TypeOK
    OBVIOUS
  <2>1. Blank \in Row /\ << >> \in Seq(CellNames) /\ 0 \in 0 .. Len(Cells)
    BY BlankRow, EmptySeq DEF Cells
  <2>2. QED BY <2>1 DEF Init, TypeOK, Passes, Texts
<1>2. TypeOK /\ LockInv /\ [Next]_vars => TypeOK'
  <2> SUFFICES ASSUME TypeOK, LockInv, [Next]_vars PROVE TypeOK'
    OBVIOUS
  <2>1. CASE ThreadLocks
    <3>1. todo' \in Seq(CellNames)
      BY <2>1, SectionsBegin, SequencesOfCells DEF ThreadLocks
    <3>2. QED BY <2>1, <3>1 DEF ThreadLocks, TypeOK, local, main
  <2>2. CASE Store
    <3>1. Head(todo) \in CellNames /\ Tail(todo) \in LeftToStore
      BY <2>2, OneLeft DEF Store, LockInv
    <3>2. row' \in Row
      BY <2>2, <3>1, RowStored, ValueTypes DEF Store, TypeOK
    <3>3. pc' \in {"begin", "search", "read", "first", "card", "status", "state",
                   "wait", "turn", "ended"}
      <4>1. CASE Len(todo) = 1
        <5>1. pc \in {"begin", "first", "wait", "turn"}
          BY <2>2 DEF Store, LockInv, LeftToStore
        <5>2. QED BY <2>2, <4>1, <5>1 DEF Store, Onward
      <4>2. CASE Len(todo) # 1
        BY <2>2, <4>2 DEF Store, TypeOK
      <4>3. QED BY <4>1, <4>2
    <3>4. todo' \in Seq(CellNames)
      BY <2>2, <3>1, SequencesOfCells DEF Store
    <3>5. holder' \in {"none", "thread", "main", "other"}
      BY <2>2 DEF Store, TypeOK
    <3>6. QED BY <2>2, <3>2, <3>3, <3>4, <3>5 DEF Store, TypeOK, local, main
  <2>3. CASE Search \/ NoCard \/ NoFlag \/ NoImage
    BY <2>3 DEF Search, NoCard, NoFlag, NoImage, TypeOK, local, main
  <2>4. CASE ReadFirst \/ ReadStatus
    <3>1. n' \in Passes /\ text' \in Texts
      BY <2>4 DEF ReadFirst, ReadStatus, ReadPasses, TypeOK, Passes, Text, Texts
    <3>2. QED BY <2>4, <3>1 DEF ReadFirst, ReadStatus, ReadPasses, TypeOK, main
  <2>5. CASE ReadState
    BY <2>5 DEF ReadState, TypeOK, main
  <2>6. ASSUME NEW c \in Cards, NewCard(c) PROVE TypeOK'
    BY <2>6 DEF NewCard, TypeOK, main
  <2>7. CASE Clear
    <3>1. Cells[cleared + 1] \in CellNames /\ cleared' \in 0 .. Len(Cells)
      <4>1. Len(Cells) = 5 /\ DOMAIN Cells = 1 .. 5
        BY DEF Cells
      <4>2. QED BY <2>7, <4>1 DEF Clear, TypeOK, CellNames
    <3>2. row' \in Row
      BY <2>7, <3>1, RowStored DEF Clear, TypeOK, Texts
    <3>3. QED BY <2>7, <3>1, <3>2 DEF Clear, TypeOK, thread, local
  <2>8. CASE MainLocks
    <3>1. todraw' \in Seq(CellNames)
      BY <2>8, SequencesOfCells DEF MainLocks, Cells, LeftToDraw
    <3>2. QED BY <2>8, <3>1 DEF MainLocks, TypeOK, thread, local
  <2>9. CASE Draw
    <3>1. Head(todraw) \in CellNames /\ Tail(todraw) \in LeftToDraw
      BY <2>9, OneLeft DEF Draw, LockInv
    <3>2. \A c \in CellNames : [shown EXCEPT ![c] = row[c]] \in Row
      <4>1. /\ row["connected"] \in {Empty, "NO", "YES"} /\ row["status"] \in Texts
            /\ row["count"] \in Passes \cup {Empty} /\ row["isNew"] \in {Empty, "New"}
            /\ row["card"] \in Cards \cup {Empty}
        BY DEF TypeOK, Row
      <4>2. QED BY <4>1, RowStored DEF TypeOK
    <3>3. QED BY <2>9, <3>1, <3>2, SequencesOfCells DEF Draw, TypeOK, thread, local
  <2>10. CASE OtherLocks \/ OtherUnlocks
    BY <2>10 DEF OtherLocks, OtherUnlocks, TypeOK, thread, local, main
  <2>11. CASE UNCHANGED vars
    BY <2>11 DEF vars, TypeOK, thread, local, main
  <2>12. QED BY <2>1, <2>2, <2>3, <2>4, <2>5, <2>6, <2>7, <2>8, <2>9, <2>10, <2>11
          DEF Next, Calls
<1>3. QED BY <1>1, <1>2, SectionsApart, PTL DEF Spec

-----------------------------------------------------------------------------
\* A status and a count that may stand side by side.
Fits(s, c) == s = Empty \/ c = Empty \/ s = Text(c) \/ (side = "exit" /\ c = 0)

\* Between the copies of a status and of its count, the status is already the
\* new one, of the thread's text or of the row.
FitInv ==
    /\ pc \in {"first", "state", "wait"} => Fits(text, n)
    /\ IF todo \in {<<"count", "isNew", "card">>, <<"count">>}
       THEN row.status \in {text, Empty}
       ELSE Fits(row.status, row.count)
    /\ IF todraw = <<"count", "isNew", "card">>
       THEN shown.status = row.status
       ELSE Fits(shown.status, shown.count)

LEMMA RowChanged ==
  ASSUME NEW r \in Row, NEW c \in CellNames, NEW v, NEW q, q = [r EXCEPT ![c] = v]
  PROVE  /\ q.status = IF c = "status" THEN v ELSE r.status
         /\ q.count = IF c = "count" THEN v ELSE r.count
         /\ q.card = IF c = "card" THEN v ELSE r.card
BY NamesExpanded DEF Row

\* What is left once the status is stored, and what is left before and after.
LEMMA CountIsNext ==
    /\ << >> \notin {<<"count", "isNew", "card">>, <<"count">>}
    /\ <<"connected">> \notin {<<"count", "isNew", "card">>, <<"count">>}
    /\ <<"card">> \notin {<<"count", "isNew", "card">>, <<"count">>}
    /\ <<"isNew", "card">> \notin {<<"count", "isNew", "card">>, <<"count">>}
    /\ <<"status", "count">> \notin {<<"count", "isNew", "card">>, <<"count">>}
    /\ <<"connected", "status", "count">> \notin {<<"count", "isNew", "card">>, <<"count">>}
    /\ <<"status", "count", "isNew", "card">> \notin {<<"count", "isNew", "card">>, <<"count">>}
    /\ <<"connected", "status", "count", "isNew", "card">>
         \notin {<<"count", "isNew", "card">>, <<"count">>}
<1>1. /\ << >> \notin {<<"count", "isNew", "card">>, <<"count">>}
      /\ <<"connected">> \notin {<<"count", "isNew", "card">>, <<"count">>}
      /\ <<"card">> \notin {<<"count", "isNew", "card">>, <<"count">>}
  BY Heads
<1>2. /\ <<"isNew", "card">> \notin {<<"count", "isNew", "card">>, <<"count">>}
      /\ <<"status", "count">> \notin {<<"count", "isNew", "card">>, <<"count">>}
  BY Heads
<1>3. <<"connected", "status", "count">> \notin {<<"count", "isNew", "card">>, <<"count">>}
  BY Heads
<1>4. /\ <<"status", "count", "isNew", "card">> \notin {<<"count", "isNew", "card">>, <<"count">>}
      /\ <<"connected", "status", "count", "isNew", "card">>
           \notin {<<"count", "isNew", "card">>, <<"count">>}
  BY Heads
<1>5. QED BY <1>1, <1>2, <1>3, <1>4

LEMMA StoreFits ==
  ASSUME TypeOK, LockInv, FitInv, Store
  PROVE  FitInv'
<1>1. /\ todo # << >> /\ todo' = Tail(todo) /\ todraw = << >>
      /\ row' = [row EXCEPT ![Head(todo)] = Value(Head(todo))]
      /\ UNCHANGED <<side, n, text, todraw, shown>>
  BY DEF Store, LockInv, local, main
<1>2. Head(todo) \in CellNames /\ row \in Row
  BY <1>1, OneLeft DEF LockInv, TypeOK
<1>3. pc \in {"begin", "first", "wait", "turn"}
  BY <1>1 DEF LockInv, LeftToStore
<1>4. pc' \in {"first", "state", "wait"} => Fits(text, n)'
  <2>1. CASE Len(todo) = 1
    <3>1. pc' \notin {"first", "state", "wait"}
      BY <1>3, <2>1 DEF Store, Onward
    <3>2. QED BY <3>1
  <2>2. CASE Len(todo) # 1
    <3>1. pc' = pc
      BY <2>2 DEF Store
    <3>2. QED BY <1>1, <3>1 DEF FitInv, Fits
  <2>3. QED BY <2>1, <2>2
<1>5. CASE Head(todo) \in {"connected", "isNew", "card"}
  <2>1. row'.status = row.status /\ row'.count = row.count
    BY <1>1, <1>2, <1>5, RowChanged
  <2>2. /\ todo \notin {<<"count", "isNew", "card">>, <<"count">>}
        /\ todo' \notin {<<"count", "isNew", "card">>, <<"count">>}
    <3>1. todo \in {<<"connected">>, <<"connected", "status", "count">>,
                    <<"isNew", "card">>, <<"card">>}
      BY <1>1, <1>5, Heads DEF LockInv, LeftToStore
    <3>2. CASE todo \in {<<"connected">>, <<"card">>}
      BY <1>1, <3>2, Tails, CountIsNext
    <3>3. CASE todo = <<"connected", "status", "count">>
      BY <1>1, <3>3, Tails, CountIsNext
    <3>4. CASE todo = <<"isNew", "card">>
      BY <1>1, <3>4, Tails, CountIsNext
    <3>5. QED BY <3>1, <3>2, <3>3, <3>4
  <2>3. QED BY <1>1, <1>4, <2>1, <2>2 DEF FitInv, Fits
<1>6. CASE Head(todo) = "status"
  <2>1. todo \in {<<"status", "count">>, <<"status", "count", "isNew", "card">>}
    BY <1>1, <1>6, Heads DEF LockInv, LeftToStore
  <2>2. todo' \in {<<"count", "isNew", "card">>, <<"count">>}
    BY <1>1, <2>1, Tails
  <2>3. row'.status = text
    <3>1. Value("status") = text
      BY NamesExpanded, ValueTypes
    <3>2. row' = [row EXCEPT !["status"] = text]
      BY <1>1, <1>6, <3>1
    <3>3. QED BY <1>2, <1>6, <3>2, RowChanged
  <2>4. QED BY <1>1, <1>4, <2>2, <2>3 DEF FitInv, Fits
<1>7. CASE Head(todo) = "count"
  <2>1. /\ todo \in {<<"count", "isNew", "card">>, <<"count">>}
        /\ pc \in {"first", "wait"}
    BY <1>1, <1>7, Heads DEF LockInv, LeftToStore
  <2>2. todo' \notin {<<"count", "isNew", "card">>, <<"count">>}
    <3>1. CASE todo = <<"count">>
      BY <1>1, <3>1, Tails, CountIsNext
    <3>2. CASE todo = <<"count", "isNew", "card">>
      BY <1>1, <3>2, Tails, CountIsNext
    <3>3. QED BY <2>1, <3>1, <3>2
  <2>3. row'.count = n /\ row'.status = row.status
    <3>1. Value("count") = n
      BY NamesExpanded, ValueTypes
    <3>2. row' = [row EXCEPT !["count"] = n]
      BY <1>1, <1>7, <3>1
    <3>3. QED BY <1>2, <1>7, <3>2, RowChanged
  <2>4. row.status \in {text, Empty} /\ Fits(text, n)
    BY <2>1 DEF FitInv
  <2>5. Fits(row'.status, row'.count)
    BY <2>3, <2>4 DEF Fits
  <2>6. QED BY <1>1, <1>4, <2>2, <2>5 DEF FitInv, Fits
<1>8. QED BY <1>2, <1>5, <1>6, <1>7, NamesExpanded

LEMMA DrawFits ==
  ASSUME TypeOK, LockInv, FitInv, Draw
  PROVE  FitInv'
<1>1. /\ todraw # << >> /\ todraw' = Tail(todraw) /\ todo = << >>
      /\ shown' = [shown EXCEPT ![Head(todraw)] = row[Head(todraw)]]
      /\ UNCHANGED <<side, pc, n, text, row, todo>>
  BY DEF Draw, LockInv, thread, local
<1>2. Head(todraw) \in CellNames /\ shown \in Row
  BY <1>1, OneLeft DEF LockInv, TypeOK
<1>3. Fits(row.status, row.count)
  BY <1>1 DEF FitInv
<1>4. /\ shown'.status = IF Head(todraw) = "status" THEN row.status ELSE shown.status
      /\ shown'.count = IF Head(todraw) = "count" THEN row.count ELSE shown.count
  <2>1. CASE Head(todraw) = "status"
    <3>1. shown' = [shown EXCEPT !["status"] = row.status]
      BY <1>1, <2>1
    <3>2. QED BY <1>2, <2>1, <3>1, RowChanged
  <2>2. CASE Head(todraw) = "count"
    <3>1. shown' = [shown EXCEPT !["count"] = row.count]
      BY <1>1, <2>2
    <3>2. QED BY <1>2, <2>2, <3>1, RowChanged
  <2>3. CASE Head(todraw) \notin {"status", "count"}
    <3>1. shown'.status = shown.status /\ shown'.count = shown.count
      BY <1>1, <1>2, <2>3, RowChanged
    <3>2. QED BY <2>3, <3>1
  <2>4. QED BY <2>1, <2>2, <2>3
<1>5. IF todraw' = <<"count", "isNew", "card">>
      THEN shown'.status = row.status
      ELSE Fits(shown'.status, shown'.count)
  <2>1. CASE todraw = <<"status", "count", "isNew", "card">>
    BY <1>1, <1>4, <2>1, Heads, Tails
  <2>2. CASE todraw = <<"count", "isNew", "card">>
    <3>1. shown'.status = row.status /\ shown'.count = row.count
      BY <1>4, <2>2, Heads DEF FitInv
    <3>2. todraw' = <<"isNew", "card">>
      BY <1>1, <2>2, Tails
    <3>3. QED BY <1>3, <3>1, <3>2
  <2>3. CASE todraw \in {<<"connected", "status", "count", "isNew", "card">>,
                         <<"isNew", "card">>, <<"card">>}
    <3>1. shown'.status = shown.status /\ shown'.count = shown.count
      BY <1>4, <2>3, Heads
    <3>2. /\ todraw # <<"count", "isNew", "card">>
          /\ todraw' # <<"count", "isNew", "card">>
      <4>1. CASE todraw = <<"connected", "status", "count", "isNew", "card">>
        BY <1>1, <4>1, Tails, CountIsNext
      <4>2. CASE todraw = <<"isNew", "card">>
        BY <1>1, <4>2, Tails, CountIsNext
      <4>3. CASE todraw = <<"card">>
        BY <1>1, <4>3, Tails, CountIsNext
      <4>4. QED BY <2>3, <4>1, <4>2, <4>3
    <3>3. QED BY <3>1, <3>2 DEF FitInv
  <2>4. QED BY <1>1, <2>1, <2>2, <2>3 DEF LockInv, LeftToDraw
<1>6. QED BY <1>1, <1>3, <1>5 DEF FitInv, Fits

THEOREM FitHolds == Spec => []FitInv
<1>1. Init => FitInv
  BY NamesExpanded DEF Init, FitInv, Fits, Blank
<1>2. TypeOK /\ LockInv /\ FitInv /\ [Next]_vars => FitInv'
  <2> SUFFICES ASSUME TypeOK, LockInv, FitInv, [Next]_vars PROVE FitInv'
    OBVIOUS
  <2>1. CASE ThreadLocks
    <3>1. todo = << >> /\ todo' = Stored[pc] /\ UNCHANGED <<side, row, pc, n, text, todraw, shown>>
      BY <2>1 DEF ThreadLocks, local, main
    <3>2. Stored[pc] \notin {<<"count", "isNew", "card">>, <<"count">>}
      BY <2>1 DEF ThreadLocks, Stored
    <3>3. QED BY <3>1, <3>2 DEF FitInv, Fits
  <2>2. CASE Store
    BY <2>2, StoreFits
  <2>3. CASE ReadFirst \/ ReadStatus
    <3>1. Fits(text', n')
      BY <2>3 DEF ReadFirst, ReadStatus, ReadPasses, Fits, TypeOK
    <3>2. todo = << >> /\ UNCHANGED <<side, row, todo, todraw, shown>>
      BY <2>3 DEF ReadFirst, ReadStatus, ReadPasses, main, LockInv, LeftToStore
    <3>3. QED BY <3>1, <3>2 DEF FitInv, Fits
  <2>4. CASE Search \/ ReadState \/ NoCard \/ (\E c \in Cards : NewCard(c)) \/ NoFlag \/ NoImage
    <3>1. /\ UNCHANGED <<side, row, todo, n, text, todraw, shown>>
          /\ pc' \in {"first", "state", "wait"} => pc \in {"first", "state", "wait"}
      BY <2>4 DEF Search, ReadState, NoCard, NewCard, NoFlag, NoImage, local, main
    <3>2. todo = << >>
      BY <2>4 DEF Search, ReadState, NoCard, NewCard, NoFlag, NoImage, LockInv, LeftToStore
    <3>3. QED BY <3>1, <3>2 DEF FitInv, Fits
  <2>5. CASE Clear
    <3>1. todraw = << >>
      <4>1. cleared < Len(Cells) /\ Len(Cells) = 5
        BY <2>5 DEF Clear, Cells
      <4>2. QED BY <4>1 DEF LockInv
    <3>2. Cells[cleared + 1] \in CellNames
      <4>1. Len(Cells) = 5 /\ DOMAIN Cells = 1 .. 5
        BY DEF Cells
      <4>2. QED BY <2>5, <4>1 DEF Clear, TypeOK, CellNames
    <3>3. /\ row'.status \in {row.status, Empty}
          /\ row'.count \in {row.count, Empty}
      BY <2>5, <3>2, RowChanged DEF Clear, TypeOK
    <3>4. UNCHANGED <<side, pc, todo, n, text, todraw, shown>>
      BY <2>5 DEF Clear, thread, local
    <3>5. QED BY <3>1, <3>3, <3>4 DEF FitInv, Fits
  <2>6. CASE MainLocks
    <3>1. /\ todraw # <<"count", "isNew", "card">> /\ todraw' # <<"count", "isNew", "card">>
          /\ UNCHANGED <<side, row, pc, todo, n, text, shown>>
      BY <2>6 DEF MainLocks, Cells, thread, local
    <3>2. QED BY <3>1 DEF FitInv, Fits
  <2>7. CASE Draw
    BY <2>7, DrawFits
  <2>8. CASE OtherLocks \/ OtherUnlocks
    BY <2>8 DEF OtherLocks, OtherUnlocks, FitInv, Fits, thread, local, main
  <2>9. CASE UNCHANGED vars
    BY <2>9 DEF vars, FitInv, Fits, thread, local, main
  <2>10. QED BY <2>1, <2>2, <2>3, <2>4, <2>5, <2>6, <2>7, <2>8, <2>9 DEF Next, Calls
<1>3. QED BY <1>1, <1>2, TypeCorrect, SectionsApart, PTL DEF Spec

\* A status is printed with the count of the same read (main formats under the
\* mutex what the threads store under it).
THEOREM StatusFits == Spec => []StatusFitsCount
<1>1. FitInv => StatusFitsCount
  BY DEF FitInv, Fits, StatusFitsCount, Printed
<1>2. QED BY <1>1, FitHolds, PTL

-----------------------------------------------------------------------------
\* Wherever the thread may store it, a new card is one a pass was granted for.
CardInv ==
    /\ pc \in {"status", "state", "wait", "turn"} => (isNew => card \in granted)
    /\ row.card \in granted \cup {Empty}
    /\ shown.card \in granted \cup {Empty}

\* No card is on the screen that no pass was granted for: rtu_thread goes on
\* with the next card before it stores one that is unknown or read with an error.
THEOREM CardsWereGranted == Spec => []CardWasGranted
<1>1. Init => CardInv
  BY NamesExpanded DEF Init, CardInv, Blank
<1>2. TypeOK /\ LockInv /\ CardInv /\ [Next]_vars => CardInv'
  <2> SUFFICES ASSUME TypeOK, LockInv, CardInv, [Next]_vars PROVE CardInv'
    OBVIOUS
  <2>1. CASE ThreadLocks \/ MainLocks \/ OtherLocks \/ OtherUnlocks \/ UNCHANGED vars
    BY <2>1 DEF ThreadLocks, MainLocks, OtherLocks, OtherUnlocks, vars, CardInv, thread, local, main
  <2>2. CASE Store
    <3>1. /\ todo # << >> /\ row' = [row EXCEPT ![Head(todo)] = Value(Head(todo))]
          /\ UNCHANGED <<isNew, card, granted, shown>>
      BY <2>2 DEF Store, local, main
    <3>2. Head(todo) \in CellNames /\ row \in Row
      BY <3>1, OneLeft DEF LockInv, TypeOK
    <3>3. pc' \in {"status", "state", "wait", "turn"} => (isNew => card \in granted)
      <4>1. pc \in {"begin", "first", "wait", "turn"}
        BY <3>1 DEF LockInv, LeftToStore
      <4>2. CASE Len(todo) = 1
        BY <2>2, <4>1, <4>2 DEF Store, Onward, CardInv
      <4>3. CASE Len(todo) # 1
        BY <2>2, <4>3 DEF Store, CardInv
      <4>4. QED BY <4>2, <4>3
    <3>4. row'.card \in granted \cup {Empty}
      <4>1. CASE Head(todo) = "card"
        <5>1. pc \in {"wait", "turn"}
          BY <3>1, <4>1, Heads DEF LockInv, LeftToStore
        <5>2. Value("card") \in granted \cup {Empty}
          BY <5>1 DEF Value, CardInv, TypeOK
        <5>3. row' = [row EXCEPT !["card"] = Value("card")]
          BY <3>1, <4>1
        <5>4. QED BY <3>2, <4>1, <5>2, <5>3, RowChanged
      <4>2. CASE Head(todo) # "card"
        BY <3>1, <3>2, <4>2, RowChanged DEF CardInv
      <4>3. QED BY <4>1, <4>2
    <3>5. QED BY <3>1, <3>3, <3>4 DEF CardInv
  <2>3. CASE Search \/ ReadFirst \/ ReadStatus \/ ReadState
    BY <2>3 DEF Search, ReadFirst, ReadStatus, ReadPasses, ReadState, CardInv, local, main
  <2>4. CASE NoCard
    BY <2>4 DEF NoCard, CardInv, main
  <2>5. ASSUME NEW c \in Cards, NewCard(c) PROVE CardInv'
    BY <2>5 DEF NewCard, CardInv, main
  <2>6. CASE NoFlag \/ NoImage
    BY <2>6 DEF NoFlag, NoImage, CardInv, local, main
  <2>7. CASE Clear
    <3>1. Cells[cleared + 1] \in CellNames
      <4>1. Len(Cells) = 5 /\ DOMAIN Cells = 1 .. 5
        BY DEF Cells
      <4>2. QED BY <2>7, <4>1 DEF Clear, TypeOK, CellNames
    <3>2. row'.card \in {row.card, Empty}
      BY <2>7, <3>1, RowChanged DEF Clear, TypeOK
    <3>3. QED BY <2>7, <3>2 DEF Clear, CardInv, thread, local
  <2>8. CASE Draw
    <3>1. Head(todraw) \in CellNames
      BY <2>8, OneLeft DEF Draw, LockInv
    <3>2. shown'.card \in {shown.card, row.card}
      BY <2>8, <3>1, RowChanged DEF Draw, TypeOK
    <3>3. QED BY <2>8, <3>2 DEF Draw, CardInv, thread, local
  <2>9. QED BY <2>1, <2>2, <2>3, <2>4, <2>5, <2>6, <2>7, <2>8 DEF Next, Calls
<1>3. CardInv => CardWasGranted
  BY DEF CardInv, CardWasGranted
<1>4. QED BY <1>1, <1>2, <1>3, TypeCorrect, SectionsApart, PTL DEF Spec
=============================================================================
