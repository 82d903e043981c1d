-------------------------------- MODULE Screen --------------------------------
(***************************************************************************)
(* The status screen (TurnstileCPP/uMain.cpp): rtu_thread and tcp_thread   *)
(* fill each a row of cells under mutex_points, main clears them and then  *)
(* formats and prints both rows for ever.                                  *)
(*                                                                         *)
(* One row is modelled, with the cells of the entrance or of the exit; the *)
(* other thread takes the mutex for a row of its own.  A step is a Modbus  *)
(* call, or the access to one cell: main clears without the mutex, so what *)
(* a thread copies to a cell at that moment is there or not.               *)
(***************************************************************************)
EXTENDS Naturals, Sequences

CONSTANTS
    Cards,   \* the cards shown to the reader
    Known,   \* those checkCard accepts
    Empty    \* the text of no characters

ASSUME ScreenAssumption == Known \subseteq Cards /\ Empty \notin Cards

\* In the order in which main clears them.
Cells == <<"connected", "status", "count", "isNew", "card">>

CellNames == {Cells[i] : i \in DOMAIN Cells}

\* Passes left as the turnstile may report them; 0xFFFF is free pass.
Free == 65535
Passes == {0, 1, 2, Free}

\* GetEnterStatus and GetExitStatus.
Text(p) == CASE p = 1 -> "Counted" [] p = 2 -> "Free" [] OTHER -> "Closed"

Texts == {"Closed", "Counted", "Free", Empty, "uninitialised"}

VARIABLES
    side,      \* whose cells these are: "enter" or "exit"
    row,       \* strArr_RTU or strArr_TCP
    holder,    \* of mutex_points
    pc, todo,  \* the thread, and the cells it has still to store, locked
    n, state,  \* n and n2, n1 and n3: passes left, somebody in the passage
    text,      \* chAnswer or chAnswer1
    isNew,     \* IsNew or IsNew1
    card,      \* Card or Card2
    cleared,   \* main: the cells it has cleared
    todraw,    \* main: the cells it has still to format, locked
    shown,     \* main: the row as formatted
    granted    \* ghost: cards a pass was granted for

local == <<n, state, text, isNew, card, granted>>
thread == <<pc, todo, local>>
main == <<cleared, todraw, shown>>
vars == <<side, row, holder, thread, main>>

Row == [connected : {Empty, "NO", "YES"}, status : Texts, count : Passes \cup {Empty},
        isNew : {Empty, "New"}, card : Cards \cup {Empty}]

Blank == [c \in CellNames |-> Empty]

TypeOK ==
    /\ side \in {"enter", "exit"}
    /\ row \in Row
    /\ holder \in {"none", "thread", "main", "other"}
    /\ pc \in {"begin", "search", "read", "first", "card", "status", "state",
               "wait", "turn", "ended"}
    /\ todo \in Seq(CellNames)
    /\ n \in Passes
    /\ state \in {0, 1}
    /\ text \in Texts
    /\ isNew \in BOOLEAN
    /\ card \in Cards \cup {Empty}
    /\ cleared \in 0 .. Len(Cells)
    /\ todraw \in Seq(CellNames)
    /\ shown \in Row
    /\ granted \subseteq Known

\* chAnswer and IsNew are not initialised; main has just made the threads.
Init ==
    /\ side \in {"enter", "exit"}
    /\ row = Blank
    /\ holder = "none"
    /\ pc = "begin" /\ todo = << >>
    /\ n = 0 /\ state = 0
    /\ text = "uninitialised"
    /\ isNew \in BOOLEAN
    /\ card = Empty
    /\ cleared = 0 /\ todraw = << >>
    /\ shown = Blank
    /\ granted = {}

-----------------------------------------------------------------------------
\* The cells of each of the thread's four locked sections, in their order ...
Stored == [begin |-> <<"connected">>,
           first |-> <<"connected", "status", "count">>,
           wait  |-> <<"status", "count", "isNew", "card">>,
           turn  |-> <<"isNew", "card">>]

\* ... and what it copies to them.
Value(c) ==
    CASE c = "connected" -> IF pc = "begin" THEN "NO" ELSE "YES"
      [] c = "status"    -> text
      [] c = "count"     -> n
      [] c = "isNew"     -> IF isNew THEN "New" ELSE Empty
      [] c = "card"      -> IF isNew THEN card ELSE Empty

ThreadLocks ==
    /\ pc \in DOMAIN Stored /\ todo = << >>
    /\ holder = "none"
    /\ holder' = "thread"
    /\ todo' = Stored[pc]
    /\ UNCHANGED <<side, row, pc, local, main>>

\* Where the thread goes on after a locked section.
Onward ==
    CASE pc = "begin" -> "search"
      [] pc = "first" -> "card"
      [] pc = "wait"  -> IF n = 0 /\ state = 0 THEN "turn" ELSE "status"
      [] pc = "turn"  -> "card"

\* It copies one cell; after the last it unlocks.
Store ==
    /\ todo # << >>
    /\ row' = [row EXCEPT ![Head(todo)] = Value(Head(todo))]
    /\ todo' = Tail(todo)
    /\ IF Len(todo) = 1
       THEN pc' = Onward /\ holder' = "none"
       ELSE UNCHANGED <<pc, holder>>
    /\ UNCHANGED <<side, local, main>>

-----------------------------------------------------------------------------
\* The search and the identification: they succeed, or the thread ends.
Search ==
    /\ pc = "search"
    /\ pc' \in {"read", "ended"}
    /\ UNCHANGED <<side, row, holder, todo, local, main>>

\* A read of the passes left.  One that fails leaves 0; the text is then blank
\* for the entrance, and for the exit what it was.
ReadPasses(to) ==
    /\ \/ \E p \in Passes : n' = p /\ text' = Text(p)
       \/ n' = 0 /\ text' = IF side = "enter" THEN Empty ELSE text
    /\ pc' = to
    /\ UNCHANGED <<side, row, holder, todo, state, isNew, card, granted, main>>

ReadFirst == pc = "read" /\ ReadPasses("first")

ReadStatus == pc = "status" /\ ReadPasses("state")

ReadState ==
    /\ pc = "state"
    /\ state' \in {0, 1}
    /\ pc' = "wait"
    /\ UNCHANGED <<side, row, holder, todo, n, text, isNew, card, granted, main>>

\* GetEnterCard or GetExitCard: nothing new; a card, for which a pass is granted
\* if it is known; or an error, with the image or before.  An error or a card
\* that is not known starts the loop again, without the end of the turn.
NoCard ==
    /\ pc = "card"
    /\ isNew' = FALSE
    /\ pc' = "turn"
    /\ UNCHANGED <<side, row, holder, todo, n, state, text, card, granted, main>>

NewCard_NoContinue(c) ==
    /\ pc = "card"
    /\ isNew' = TRUE /\ card' = c
    /\ IF c \in Known THEN pc' = "status" /\ granted' = granted \cup {c}
                      ELSE pc' = "turn" /\ UNCHANGED granted
    /\ UNCHANGED <<side, row, holder, todo, n, state, text, main>>

NewCard(c) ==
    /\ pc = "card"
    /\ isNew' = TRUE /\ card' = c
    /\ IF c \in Known THEN pc' = "status" /\ granted' = granted \cup {c}
                      ELSE UNCHANGED <<pc, granted>>
    /\ UNCHANGED <<side, row, holder, todo, n, state, text, main>>

NoFlag ==
    /\ pc = "card"
    /\ pc' = IF isNew THEN "card" ELSE "turn"
    /\ UNCHANGED <<side, row, holder, todo, local, main>>

NoImage ==
    /\ pc = "card"
    /\ isNew' = TRUE
    /\ UNCHANGED <<side, row, holder, pc, todo, n, state, text, card, granted, main>>

-----------------------------------------------------------------------------
\* main clears the cells one by one, with the threads already running.
Clear ==
    /\ cleared < Len(Cells)
    /\ cleared' = cleared + 1
    /\ row' = [row EXCEPT ![Cells[cleared + 1]] = Empty]
    /\ UNCHANGED <<side, holder, thread, todraw, shown>>

MainLocks_NotAtAll ==
    /\ cleared = Len(Cells) /\ todraw = << >>
    /\ todraw' = Cells
    /\ UNCHANGED <<side, row, holder, thread, cleared, shown>>

MainLocks ==
    /\ cleared = Len(Cells) /\ todraw = << >>
    /\ holder = "none"
    /\ holder' = "main"
    /\ todraw' = Cells
    /\ UNCHANGED <<side, row, thread, cleared, shown>>

\* It formats one cell; after the last it unlocks and prints.
Draw_ClearsAgain ==
    /\ todraw # << >>
    /\ shown' = [shown EXCEPT ![Head(todraw)] = row[Head(todraw)]]
    /\ todraw' = Tail(todraw)
    /\ IF Len(todraw) = 1 THEN holder' = "none" /\ cleared' = 0
                           ELSE UNCHANGED <<holder, cleared>>
    /\ UNCHANGED <<side, row, thread>>

Draw ==
    /\ todraw # << >>
    /\ shown' = [shown EXCEPT ![Head(todraw)] = row[Head(todraw)]]
    /\ todraw' = Tail(todraw)
    /\ holder' = IF Len(todraw) = 1 THEN "none" ELSE holder
    /\ UNCHANGED <<side, row, thread, cleared>>

\* The other thread, and main for its row.
OtherLocks ==
    /\ holder = "none"
    /\ holder' = "other"
    /\ UNCHANGED <<side, row, thread, main>>

OtherUnlocks ==
    /\ holder = "other"
    /\ holder' = "none"
    /\ UNCHANGED <<side, row, thread, main>>

-----------------------------------------------------------------------------
Calls == Search \/ ReadFirst \/ ReadStatus \/ ReadState
            \/ NoCard \/ (\E c \in Cards : NewCard(c)) \/ NoFlag \/ NoImage

Next ==
    \/ ThreadLocks \/ Store \/ Calls
    \/ Clear \/ MainLocks \/ Draw
    \/ OtherLocks \/ OtherUnlocks

Spec == Init /\ [][Next]_vars

\* Whoever holds the mutex goes on and unlocks; and as all sleep or wait for
\* the line before they lock again, nobody is kept out for ever.
FairSpec ==
    /\ Spec
    /\ WF_vars(Store) /\ WF_vars(Clear) /\ WF_vars(Draw) /\ WF_vars(OtherUnlocks)
    /\ SF_vars(ThreadLocks) /\ SF_vars(MainLocks)

-----------------------------------------------------------------------------
\* What is on the screen; while main formats the row, it is still the old one.
Printed == todraw = << >>

\* A status on the screen is that of the count beside it, of the same read,
\* although the two are stored and formatted one after the other; a failed read
\* leaves the exit's last status beside a 0.
StatusFitsCount ==
    (Printed /\ shown.status # Empty /\ shown.count # Empty) =>
        \/ shown.status = Text(shown.count)
        \/ side = "exit" /\ shown.count = 0

\* A card is on the screen only if a pass was granted for it: one that is not
\* known, or was read with an error, is never shown, not even by halves.
CardWasGranted == shown.card \in granted \cup {Empty}

\* A device that is ready after main cleared the screen is shown as connected
\* in the end; one that was ready earlier may never be, as nothing stores YES
\* again.
ConnectedIsShown ==
    (pc = "first" /\ todo = << >> /\ cleared = Len(Cells)) ~> (shown.connected = "YES")
=============================================================================
