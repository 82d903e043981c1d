----------------------------- MODULE CardService -----------------------------
(***************************************************************************)
(* The service loop of rtu_thread and tcp_thread (TurnstileCPP/uMain.cpp), *)
(* with GetEnterCard / GetExitCard of TController and checkCard, against   *)
(* one turnstile, and the list of cards that getConfigInfo makes before    *)
(* the threads start (CardList).  The two threads run the same loop on a   *)
(* turnstile each and share only the list, which neither changes, so one   *)
(* thread is modelled.                                                     *)
(*                                                                         *)
(* A step of the thread is one Modbus call together with the computation   *)
(* up to the next call; between two calls the turnstile goes on.  A call   *)
(* fails before the turnstile executed it, or after; or it succeeds, with  *)
(* its own answer or with a late one to an earlier read, as ModbusCall     *)
(* has it: nothing in an answer says which registers it is of.             *)
(***************************************************************************)
EXTENDS CardList

\* The images a reader can report are those of Shown.
CONSTANTS
    LineLength,    \* 15 in the code: the count for which CR LF is cut off
    TarSize,       \* TARSIZE, 80: the bytes a TAr holds
    ShownAt,       \* the images each reader can report, of those in Shown
    Opening,       \* the directions that somebody may open for everybody
    Stale,         \* what memory nobody has written may hold
    Lossy          \* whether a Modbus call may fail, or be answered late

ASSUME CardAssumption ==
    /\ \A c \in Shown : Len(c) \in 1 .. TarSize
    /\ ShownAt \in [{"enter", "exit"} -> SUBSET Shown]
    /\ LineLength \in Nat /\ LineLength > 1
    /\ TarSize \in Nat /\ TarSize < 256
    /\ Stale \subseteq 0 .. 255 /\ Stale # {}
    /\ Lossy \in BOOLEAN

CR == 13
LF == 10

Directions == {"enter", "exit"}

\* Register values of the passes granted: none, one, and 0xFFFF for free pass.
Free == 65535

\* The data of an answer to a read are bytes, two for each register.
Nothing == << >>

Word(w) == <<w \div 256, w % 256>>

WordOf(data) == 256 * data[1] + data[2]

VARIABLES
    dir,        \* the direction being served
    step,       \* the call the thread makes next for it
    isNew,      \* IsNew and IsNew1, which keep their value when a call fails
    count,      \* Count, from the read of the flag to that of the image
    card,       \* the image read, its line end cut off, until its pass is asked for
    permits,    \* n and n1, from the read of the passes to that of the state: the
                \* loop looks only whether there are any, 0 or 1
    flag,       \* turnstile: an image that was not read yet is there
    image,      \* turnstile: the last image of each reader
    passes,     \* turnstile: registers 0x40 and 0x41
    occupied,   \* turnstile: registers 0x42 and 0x43
    late,       \* the answer to an earlier read that has not come yet
    unread,     \* ghost: a card was shown whose image no executed read has taken
    paidBy,     \* ghost: what the pass of this turn would be for
    misread     \* ghost: the last read of the passes left failed, or took another
                \* read's answer, while there was one

thread    == <<dir, step, isNew, count, card, permits>>
turnstile == <<flag, image, passes, occupied>>
ghosts    == <<unread, paidBy, misread>>
service   == <<thread, turnstile, late, ghosts>>
vars      == <<service, listVars>>

Answer == {a \in Seq(0 .. 255) : a = Nothing \/ Len(a) > 1}

TypeOK ==
    /\ dir \in Directions
    /\ step \in {"flag", "data", "grant", "status", "state", "undefined"}
    /\ isNew \in [Directions -> BOOLEAN]
    /\ count \in 0 .. TarSize
    /\ step = "data" => count > 0
    /\ card \in Seq(0 .. 255)
    /\ permits \in {0, 1}
    /\ flag \in [Directions -> BOOLEAN]
    /\ image \in [Directions -> Shown \cup {<< >>}]
    /\ passes \in [Directions -> {0, 1, Free}]
    /\ occupied \in [Directions -> {0, 1}]
    /\ late \in Answer
    /\ unread \in [Directions -> BOOLEAN]
    /\ paidBy \in {"nothing", "card", "mixup"}
    /\ misread \in [Directions -> BOOLEAN]

\* IsNew and IsNew1 are not initialised before the loop.  The reads made before it
\* (uMain.cpp, 116-120) are of a turnstile at rest.
Init ==
    /\ ListInit
    /\ dir = "enter"
    /\ step = "flag"
    /\ isNew \in [Directions -> BOOLEAN]
    /\ count = 0
    /\ card = << >>
    /\ permits = 0
    /\ flag = [d \in Directions |-> FALSE]
    /\ image = [d \in Directions |-> << >>]
    /\ passes = [d \in Directions |-> 0]
    /\ occupied = [d \in Directions |-> 0]
    /\ late \in IF Lossy THEN {Nothing, Word(0)} ELSE {Nothing}
    /\ unread = [d \in Directions |-> FALSE]
    /\ paidBy = "nothing"
    /\ misread = [d \in Directions |-> FALSE]

-----------------------------------------------------------------------------
\* What a read whose answer would be own may come to.  An answer that is late
\* already stays so, or is dropped by the flush before the next request.
Results(data, done, left) == [data : data, done : done, left : left]

Own(own) == Results({own}, {TRUE}, {Nothing, late})

Lost(own) ==
    IF Lossy THEN Results({Nothing}, BOOLEAN, {Nothing, late})
                    \cup Results({Nothing}, {TRUE}, {own})
    ELSE {}

Mixed(own) ==
    IF late = Nothing THEN {}
    ELSE Results({late}, BOOLEAN, {Nothing}) \cup Results({late}, {TRUE}, {own})

-----------------------------------------------------------------------------
\* The n bytes of an image that are asked for; a shorter image is followed by zeros.
Padded(img, n) == [i \in 1 .. n |-> IF i <= Len(img) THEN img[i] ELSE 0]

\* The first n bytes of the thread's buffer, of which only those of the answer
\* were written, which need not be as many as were asked for.
Taken(data, n) ==
    {[i \in 1 .. n |-> IF i <= Len(data) THEN data[i] ELSE rest[i]] :
       rest \in [1 .. n -> Stale]}

CutLineEnd(c) ==
    IF Len(c) = LineLength /\ c[LineLength - 1] = CR /\ c[LineLength] = LF
    THEN SubSeq(c, 1, LineLength - 2)
    ELSE c

\* The two ways out of a turn: "continue" starts again with the entrance, the
\* end of the turn goes on with the other reader.
Continue == dir' = "enter" /\ step' = "flag" /\ card' = << >>

OtherTurn_Same == dir' = dir /\ step' = "flag" /\ card' = << >>

OtherTurn ==
    dir' = (IF dir = "enter" THEN "exit" ELSE "enter") /\ step' = "flag" /\ card' = << >>

\* The card of this turn is checked: grant it, or "continue".
Decide(c) ==
    IF CheckCard(c) THEN dir' = dir /\ step' = "grant" /\ card' = c ELSE Continue

\* What pays for the pass of this turn, if the turn goes on to ask for one.
PaidBy(p) == IF step' = "flag" THEN "nothing" ELSE p

-----------------------------------------------------------------------------
\* Register 0x100 (0x200): is the image new, and how long is it.
FlagOf(d) == <<IF flag[d] THEN 1 ELSE 0, Len(image[d])>>

\* A count of more bytes than Card holds is written over what lies behind it.
\* Only another read's answer has one; nothing is said of the thread then.
TakeFlag(o) ==
    LET new == o.data[1] # 0
        n   == o.data[2]
    IN  /\ isNew' = [isNew EXCEPT ![dir] = new]
        /\ count' = IF new /\ n <= TarSize THEN n ELSE 0
        /\ late' = o.left
        /\ \/ ~new /\ OtherTurn
           \/ new /\ n = 0 /\ Decide(<< >>)
           \/ new /\ n \in 1 .. TarSize /\ step' = "data" /\ UNCHANGED <<dir, card>>
           \/ new /\ n > TarSize /\ step' = "undefined" /\ UNCHANGED <<dir, card>>

ReadFlag ==
    /\ step = "flag"
    /\ \E o \in Own(FlagOf(dir)) : TakeFlag(o)
    /\ UNCHANGED <<permits, turnstile, ghosts, listVars>>

MixFlag ==
    /\ step = "flag"
    /\ \E o \in Mixed(FlagOf(dir)) : TakeFlag(o)
    /\ paidBy' = PaidBy("mixup")
    /\ UNCHANGED <<permits, turnstile, unread, misread, listVars>>

\* The read fails, IsNew keeps its value, Count is 0: TRUE means "continue".
ReadFlagFails_Unchecked ==
    /\ step = "flag"
    /\ \E o \in Lost(FlagOf(dir)) : late' = o.left
    /\ IF isNew[dir] THEN Decide(<< >>) ELSE OtherTurn
    /\ UNCHANGED <<isNew, count, permits, turnstile, ghosts, listVars>>

ReadFlagFails ==
    /\ step = "flag"
    /\ \E o \in Lost(FlagOf(dir)) : late' = o.left
    /\ IF isNew[dir] THEN Continue ELSE OtherTurn
    /\ UNCHANGED <<isNew, count, permits, turnstile, ghosts, listVars>>

\* Registers 0x101.. (0x201..): the image, in as many registers as its bytes need.
ImageOf(d) == Padded(image[d], 2 * ((count + 1) \div 2))

\* Reading it resets the flag.
FlagAfter(done) == IF done THEN [flag EXCEPT ![dir] = FALSE] ELSE flag

ImageRead(o) ==
    /\ flag' = FlagAfter(o.done)
    /\ unread' = IF o.done THEN [unread EXCEPT ![dir] = FALSE] ELSE unread
    /\ late' = o.left
    /\ count' = 0
    /\ UNCHANGED <<isNew, permits, image, passes, occupied, misread, listVars>>

TakeImage(o) ==
    /\ \E c \in Taken(o.data, count) : Decide(CutLineEnd(c))
    /\ ImageRead(o)

ReadImage ==
    /\ step = "data"
    /\ \E o \in Own(ImageOf(dir)) : TakeImage(o)
    /\ paidBy' = PaidBy(IF paidBy = "nothing" /\ unread[dir] THEN "card" ELSE paidBy)

MixImage ==
    /\ step = "data"
    /\ \E o \in Mixed(ImageOf(dir)) : TakeImage(o)
    /\ paidBy' = PaidBy("mixup")

\* The answer is lost, with or without the image being read: "continue".
ReadImageFails ==
    /\ step = "data"
    /\ \E o \in Lost(ImageOf(dir)) : ImageRead(o)
    /\ Continue
    /\ paidBy' = PaidBy("nothing")

\* SetEnterPass (SetExitPass) writes one pass; nobody looks at the error, which is
\* also what a read's answer gives that comes now.
Grant ==
    /\ step = "grant"
    /\ \/ passes' = [passes EXCEPT ![dir] = 1]
       \/ Lossy /\ UNCHANGED passes
    /\ late' \in {Nothing, late}
    /\ paidBy' = "nothing"
    /\ misread' = [misread EXCEPT ![dir] = FALSE]
    /\ step' = "status"
    /\ card' = << >>
    /\ UNCHANGED <<dir, isNew, count, permits, flag, image, occupied, unread, listVars>>

\* The wait loop reads the passes left; a failed read gives 0 ...
Polled(o) == IF o.data = Nothing \/ WordOf(o.data) = 0 THEN 0 ELSE 1

ReadStatus ==
    /\ step = "status"
    /\ LET own == Word(passes[dir]) IN
       \E o \in Own(own) \cup Lost(own) \cup Mixed(own) :
         /\ permits' = Polled(o)
         /\ late' = o.left
         /\ \/ o \in Own(own) /\ misread' = [misread EXCEPT ![dir] = FALSE]
            \/ /\ o \in Lost(own) \cup Mixed(own)
               /\ misread' = [misread EXCEPT ![dir] = (passes[dir] = 1)]
    /\ step' = "state"
    /\ UNCHANGED <<dir, isNew, count, card, turnstile, unread, paidBy, listVars>>

\* ... then the state of the passage; the loop ends when both are 0.
WaitDone_Either(n, n2) == n = 0 \/ n2 = 0

WaitDone(n, n2) == n = 0 /\ n2 = 0

ReadState ==
    /\ step = "state"
    /\ LET own == Word(occupied[dir]) IN
       \E o \in Own(own) \cup Lost(own) \cup Mixed(own) :
         /\ late' = o.left
         /\ IF WaitDone(permits, Polled(o))
            THEN OtherTurn ELSE step' = "status" /\ UNCHANGED <<dir, card>>
    /\ permits' = 0
    /\ UNCHANGED <<isNew, count, turnstile, ghosts, listVars>>

-----------------------------------------------------------------------------
\* The turnstile, as its register description has it.
Present(d, c) ==
    /\ image' = [image EXCEPT ![d] = c]
    /\ flag' = [flag EXCEPT ![d] = TRUE]
    /\ unread' = [unread EXCEPT ![d] = TRUE]
    /\ UNCHANGED <<thread, passes, occupied, late, paidBy, misread, listVars>>

PassBegins(d) ==
    /\ passes[d] # 0 /\ occupied[d] = 0
    /\ occupied' = [occupied EXCEPT ![d] = 1]
    /\ UNCHANGED <<thread, flag, image, passes, late, ghosts, listVars>>

PassEnds(d) ==
    /\ occupied[d] = 1
    /\ occupied' = [occupied EXCEPT ![d] = 0]
    /\ passes' = [passes EXCEPT ![d] = IF @ = Free THEN Free ELSE 0]
    /\ misread' = [misread EXCEPT ![d] = FALSE]
    /\ UNCHANGED <<thread, flag, image, late, unread, paidBy, listVars>>

\* Nobody came: the permission runs out.
PassExpires(d) ==
    /\ passes[d] = 1 /\ occupied[d] = 0
    /\ passes' = [passes EXCEPT ![d] = 0]
    /\ misread' = [misread EXCEPT ![d] = FALSE]
    /\ UNCHANGED <<thread, flag, image, occupied, late, unread, paidBy, listVars>>

\* Somebody opens the direction for everybody, and closes it again.
Opened(d) ==
    /\ d \in Opening /\ passes[d] # Free
    /\ passes' = [passes EXCEPT ![d] = Free]
    /\ misread' = [misread EXCEPT ![d] = FALSE]
    /\ UNCHANGED <<thread, flag, image, occupied, late, unread, paidBy, listVars>>

Closed(d) ==
    /\ passes[d] = Free
    /\ passes' = [passes EXCEPT ![d] = 0]
    /\ UNCHANGED <<thread, flag, image, occupied, late, ghosts, listVars>>

-----------------------------------------------------------------------------
ServeCard ==
    \/ ReadFlag \/ MixFlag \/ ReadFlagFails
    \/ ReadImage \/ MixImage \/ ReadImageFails
    \/ Grant

AwaitPassage == ReadStatus \/ ReadState

\* A thread is made when getConfigInfo has returned.
Thread == pc = "ready" /\ (ServeCard \/ AwaitPassage)

MakeList == ListNext /\ UNCHANGED service

Turnstile(d) ==
    \/ \E c \in ShownAt[d] : Present(d, c)
    \/ PassBegins(d) \/ PassEnds(d) \/ PassExpires(d)
    \/ Opened(d) \/ Closed(d)

Next == MakeList \/ Thread \/ \E d \in Directions : Turnstile(d)

Spec == Init /\ [][Next]_vars

\* The program and its thread run, and a line that fails works again: a read that
\* is tried again and again gets its own answer in the end.  A pass that was begun
\* ends, and a permission nobody uses runs out.  How often cards are shown, and
\* which, is left open.
FairSpec ==
    /\ Spec
    /\ WF_vars(MakeList)
    /\ WF_vars(Thread)
    /\ \A d \in Directions :
         /\ SF_vars(pc = "ready" /\ dir = d /\ ReadFlag)
         /\ SF_vars(pc = "ready" /\ dir = d /\ ReadImage)
         /\ WF_vars(PassEnds(d))
         /\ WF_vars(PassExpires(d))

-----------------------------------------------------------------------------
\* A card opens the turnstile once at most: about to ask for a pass, the thread
\* has read the image of a card that was shown since that image was read last, or
\* has taken another read's answer for this reader's flag or image.  So no more
\* passes are asked for than cards were shown and answers mixed up; calls that
\* fail, executed or not, never make one.
NoGrantWithoutCard == step = "grant" => paidBy # "nothing"

\* With a list a pass is asked for only for a card that a line of the file names,
\* whichever cards the readers were shown meanwhile and whosever answers were
\* taken, unless the file fills the buffer, when its last line may have no end.
OnlyKnownGranted ==
    (step = "grant" /\ cardsCount > 0 /\ Len(file) < MaxFile) =>
        card # << >> /\ \E p \in Beginnings : CardOf(LineAt(p)) = card

\* A pass still to be used is never overwritten by the next one, although passes
\* and state are read at different moments, unless the last read of the passes
\* failed or took another read's answer: then the loop ended on a 0 of its own.
NoGrantOverwritten == step = "grant" => passes[dir] # 1 \/ misread[dir]

\* An unknown card is shown at the entrance and its "continue" taken.
Refusal == dir = "enter" /\ (ReadImage \/ MixImage) /\ step' = "flag"

\* A card shown to a reader is read, however many are shown to the other, if from
\* some time on no direction is open for everybody: while one is, the wait loop
\* of a pass granted there goes on.  The exit needs more: each unknown card at the
\* entrance starts the loop again there, and cards refused again and again keep
\* the thread from the exit.
CardsAreRead ==
    (<>[](\A d \in Directions : passes[d] # Free) /\ [](step # "undefined"))
        => /\ flag["enter"] ~> ~flag["enter"]
           /\ ~[]<><<Refusal>>_vars => (flag["exit"] ~> ~flag["exit"])
=============================================================================
