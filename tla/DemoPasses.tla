------------------------------ MODULE DemoPasses ------------------------------
(***************************************************************************)
(* The Delphi demo (TurnstileDelphi/demo): a thread polls the readers of   *)
(* its turnstiles, opens a reader's direction for a code of its list, and  *)
(* takes the code off the list; when it was told to terminate it writes    *)
(* the codes used to UsedCode.ini.  With it, the calls of                  *)
(* source/uController.pas it makes and the form's list of codes.           *)
(*                                                                         *)
(* A step of the thread is one Modbus call and the computation up to the   *)
(* next; a call may fail before or after the turnstile executed it.  One   *)
(* thread runs at a time: one that is created while its predecessor is on  *)
(* its last round cannot open the port and reaches no turnstile.           *)
(*                                                                         *)
(* A list of codes is how often it holds each code, and what UsedCode.ini  *)
(* has on a code (turnstile and time) is the number of the use.            *)
(***************************************************************************)
EXTENDS Naturals, Sequences, FiniteSetsExt

CONSTANTS
    Turns,         \* the length of FTurnList
    Cards,         \* the images a reader can report, in bytes
    Blanks,        \* the bytes trim takes away: up to $20, with CR and LF
    Codes,         \* the codes that may be in the list
    MaxCodes,      \* bound: entries of the list
    MaxStarts,     \* bound: threads started
    MaxPresented   \* bound: cards presented to all the readers together

ASSUME DemoAssumption ==
    /\ Turns \in Nat \ {0}
    /\ Cards \subseteq Seq(Nat) \ {<< >>}
    /\ MaxCodes \in Nat /\ MaxStarts \in Nat /\ MaxPresented \in Nat

Places == (1 .. Turns) \X {"enter", "exit"}

Free == 65535  \* a direction open for everybody
Never == 0     \* a code UsedCode.ini does not have

VARIABLES
    button,      \* what btnStart offers: "connect" or "disconnect"
    shown,       \* lbCode, which Settings.ini keeps
    file,        \* UsedCode.ini
    at,          \* the thread's next call
    place,       \* the reader it serves
    terminated,  \* Terminated
    left,        \* FCodeList
    used,        \* FUseCodeList, what is not written yet
    count,       \* count
    code,        \* the code read, trimmed
    flag,        \* turnstiles: an image that was not read yet is there
    image,       \* turnstiles: the last image of each reader
    passes,      \* turnstiles: registers $40 and $41
    starts,      \* ghost: threads started
    presented,   \* ghost: cards presented
    given,       \* ghost: the list this thread began with
    letIn,       \* ghost: entries this thread asked for, for each code
    uses,        \* ghost: codes used so far, the clock of the records
    lastUse,     \* ghost: the last use of each code, but for what a closed program forgot
    guessed      \* ghost: the passes last read are the 0 of a failed call

form      == <<button, shown>>
lists     == <<left, used>>
turnstile == <<flag, image, passes>>
card      == <<count, code, guessed>>
ghosts    == <<starts, presented, given, letIn, uses, lastUse>>
vars      == <<form, file, at, place, terminated, lists, card, turnstile, ghosts>>

Stages == {"ended", "round", "flag", "data", "passes", "first", "grant", "red", "save"}

TypeOK ==
    /\ button \in {"connect", "disconnect"}
    /\ shown \in [Codes -> Nat]
    /\ file \in [Codes -> Nat]
    /\ at \in Stages
    /\ place \in Places
    /\ terminated \in BOOLEAN
    /\ left \in [Codes -> Nat]
    /\ used \in Seq(Codes \X Nat)
    /\ count \in Nat
    /\ flag \in [Places -> BOOLEAN]
    /\ image \in [Places -> Cards \cup {<< >>}]
    /\ passes \in [Places -> {0, 1, Free}]
    /\ starts \in Nat /\ presented \in Nat
    /\ given \in [Codes -> Nat]
    /\ letIn \in [Codes -> Nat]
    /\ uses \in Nat
    /\ lastUse \in [Codes -> Nat]
    /\ guessed \in BOOLEAN
    /\ at = "grant" => code \in Codes

None == [c \in Codes |-> 0]

Init ==
    /\ button = "connect"
    /\ shown = None
    /\ file = [c \in Codes |-> Never]
    /\ at = "ended"
    /\ place = <<1, "enter">>
    /\ terminated = FALSE
    /\ left = None
    /\ used = << >>
    /\ count = 0
    /\ code = << >>
    /\ flag = [p \in Places |-> FALSE]
    /\ image = [p \in Places |-> << >>]
    /\ passes = [p \in Places |-> 0]
    /\ starts = 0 /\ presented = 0
    /\ given = None
    /\ letIn = None
    /\ uses = 0
    /\ lastUse = [c \in Codes |-> Never]
    /\ guessed = FALSE

-----------------------------------------------------------------------------
\* The user edits the list while the button offers to connect, also while the
\* thread is on its last round: the thread has a copy.
Edit(c) ==
    /\ button = "connect"
    /\ \/ shown[c] < MaxCodes /\ shown' = [shown EXCEPT ![c] = @ + 1]
       \/ shown[c] > 0 /\ shown' = [shown EXCEPT ![c] = @ - 1]
    /\ UNCHANGED <<button, file, at, place, terminated, lists, card, turnstile,
                   ghosts>>

\* btnStartClick creates the thread with a copy of the list ...
Start ==
    /\ button = "connect" /\ at = "ended" /\ starts < MaxStarts
    /\ button' = "disconnect"
    /\ at' = "round"
    /\ terminated' = FALSE
    /\ left' = shown
    /\ starts' = starts + 1
    /\ given' = shown /\ letIn' = None
    /\ UNCHANGED <<shown, file, place, used, card, turnstile, presented, uses,
                   lastUse>>

\* ... or terminates it, which the thread looks at after a whole round.
Stop ==
    /\ button = "disconnect"
    /\ button' = "connect"
    /\ terminated' = TRUE
    /\ UNCHANGED <<shown, file, at, place, lists, card, turnstile, ghosts>>

\* What is left of a thread: nothing.
Forgotten ==
    /\ at' = "ended" /\ place' = <<1, "enter">> /\ terminated' = FALSE
    /\ left' = None /\ used' = << >>
    /\ given' = None /\ letIn' = None
    /\ count' = 0 /\ code' = << >> /\ guessed' = FALSE

\* The program is closed, which keeps the form's list and ends the thread where
\* it is, and opened again: what was not written to UsedCode.ini is lost.
Reopen ==
    /\ button' = "connect"
    /\ Forgotten
    /\ lastUse' = file
    /\ UNCHANGED <<shown, file, turnstile, starts, presented, uses>>

-----------------------------------------------------------------------------
\* Trimmed at both ends; of an image whose read failed nothing is left.
Trim(s) ==
    LET kept == {i \in DOMAIN s : s[i] \notin Blanks}
    IN  IF kept = {} THEN << >> ELSE SubSeq(s, Min(kept), Max(kept))

\* The bytes of an image that count tells to take, zeros behind its end.
Taken(img, n) == [i \in 1 .. n |-> IF i <= Len(img) THEN img[i] ELSE 0]

\* The readers in turn: each turnstile's entrance, then its exit.
Following_Entrance(p) == <<IF p[1] < Turns THEN p[1] + 1 ELSE 1, "enter">>

Following(p) ==
    IF p[2] = "enter" THEN <<p[1], "exit">> ELSE Following_Entrance(p)

\* The turn goes to the next reader, after the last one to the end of the round.
\* Nothing is kept of the card.
NextReader ==
    /\ place' = Following(place)
    /\ at' = IF place' = <<1, "enter">> THEN "round" ELSE "flag"
    /\ count' = 0 /\ code' = << >> /\ guessed' = FALSE

\* Terminated is tested before each round, and not within.
NextRound_Always(done) == "flag"

NextRound(done) == IF done THEN "save" ELSE "flag"

BeginRound ==
    /\ at = "round"
    /\ at' = NextRound(terminated)
    /\ UNCHANGED <<form, file, place, terminated, lists, card, turnstile, ghosts>>

\* GetEnterCard and GetExitCard: flag and count.  A failed read is 0.
FlagSeen ==
    /\ flag[place] /\ image[place] # << >>
    /\ count' = Len(image[place])
    /\ at' = "data"
    /\ UNCHANGED <<place, code, guessed>>

ReadFlag ==
    /\ at = "flag"
    /\ FlagSeen \/ NextReader
    /\ UNCHANGED <<form, file, terminated, lists, turnstile, ghosts>>

\* The image, which by now may be another card's.  Reading it resets the flag.
\* When the call fails the card is all zeros and is dealt with all the same.
ReadImage ==
    /\ at = "data"
    /\ \/ /\ code' = Trim(Taken(image[place], count))
          /\ flag' = [flag EXCEPT ![place] = FALSE]
       \/ /\ code' = << >>
          /\ flag' \in {flag, [flag EXCEPT ![place] = FALSE]}
    /\ at' = "passes"
    /\ UNCHANGED <<form, file, place, terminated, lists, count, guessed, image,
                   passes, ghosts>>

IsListed == code \in Codes /\ left[code] > 0

Judge == at' = IF IsListed THEN "grant" ELSE "red"

\* GetEnter and GetExit: a card is passed over while passes are left.  A failed
\* read is 0.  The exit is then opened before the code is looked at.
PassesLeft_Free(n) == n = Free

PassesLeft(n) == n # 0

ReadPasses ==
    /\ at = "passes"
    /\ \/ PassesLeft(passes[place]) /\ NextReader
       \/ /\ guessed' = PassesLeft(passes[place])
          /\ IF place[2] = "enter" THEN Judge ELSE at' = "first"
          /\ UNCHANGED <<place, count, code>>
    /\ UNCHANGED <<form, file, terminated, lists, turnstile, ghosts>>

\* SetEnter and SetExit, whose error nobody looks at.
SetPass == passes' \in {passes, [passes EXCEPT ![place] = 1]}

OpenExit ==
    /\ at = "first"
    /\ SetPass
    /\ Judge
    /\ UNCHANGED <<form, file, place, terminated, lists, card, flag, image, ghosts>>

TakeOff_Kept == UNCHANGED left

TakeOff == left' = [left EXCEPT ![code] = @ - 1]

\* The direction is opened and the code goes from the one list to the other.
Grant ==
    /\ at = "grant"
    /\ SetPass
    /\ used' = Append(used, <<code, uses + 1>>)
    /\ TakeOff
    /\ uses' = uses + 1
    /\ lastUse' = [lastUse EXCEPT ![code] = uses + 1]
    /\ letIn' = IF place[2] = "enter" THEN [letIn EXCEPT ![code] = @ + 1] ELSE letIn
    /\ NextReader
    /\ UNCHANGED <<form, file, terminated, flag, image, starts, presented, given>>

\* SetEnterRed and SetExitRed: a light.
ShowRed ==
    /\ at = "red"
    /\ NextReader
    /\ UNCHANGED <<form, file, terminated, lists, turnstile, ghosts>>

\* UsedCode.ini, one record at a time; a code's record replaces its former one.
SaveOne_New(use) == file' = [file EXCEPT ![use[1]] = IF @ = Never THEN use[2] ELSE @]

SaveOne(use) == file' = [file EXCEPT ![use[1]] = use[2]]

Save ==
    /\ at = "save"
    /\ IF used = << >>
       THEN Forgotten /\ UNCHANGED file
       ELSE /\ SaveOne(Head(used))
            /\ used' = Tail(used)
            /\ UNCHANGED <<at, place, terminated, left, card, given, letIn>>
    /\ UNCHANGED <<form, turnstile, starts, presented, uses, lastUse>>

-----------------------------------------------------------------------------
\* The turnstiles.
Present(p, c) ==
    /\ presented < MaxPresented
    /\ presented' = presented + 1
    /\ image' = [image EXCEPT ![p] = c]
    /\ flag' = [flag EXCEPT ![p] = TRUE]
    /\ UNCHANGED <<form, file, at, place, terminated, lists, card, passes,
                   starts, given, letIn, uses, lastUse>>

\* A pass is used or runs out, or a direction is opened for everybody or closed.
PassesChange(p, n) ==
    /\ n # passes[p] /\ n \in {0, Free}
    /\ passes' = [passes EXCEPT ![p] = n]
    /\ UNCHANGED <<form, file, at, place, terminated, lists, card, flag, image,
                   ghosts>>

-----------------------------------------------------------------------------
Form == (\E c \in Codes : Edit(c)) \/ Start \/ Stop \/ Reopen

Thread ==
    \/ BeginRound
    \/ ReadFlag \/ ReadImage \/ ReadPasses \/ OpenExit
    \/ Grant \/ ShowRed \/ Save

Turnstile(p) ==
    (\E c \in Cards : Present(p, c)) \/ (\E n \in {0, Free} : PassesChange(p, n))

Next == Form \/ Thread \/ \E p \in Places : Turnstile(p)

Spec == Init /\ [][Next]_vars

\* The thread runs, calls return, and a read that is tried again and again
\* succeeds at last.
FairSpec ==
    /\ Spec
    /\ WF_vars(Thread)
    /\ \A p \in Places :
         /\ SF_vars(place = p /\ ReadFlag /\ FlagSeen)
         /\ SF_vars(place = p /\ ReadImage /\ ~flag'[p])

-----------------------------------------------------------------------------
\* A code lets in no more often than the list a thread began with held it, at
\* whatever turnstiles it is shown, however often, and whatever calls fail.
SingleUse == \A c \in Codes : letIn[c] <= given[c]

\* When a thread has ended, UsedCode.ini tells the last use of every code, those
\* aside that a closed program forgot.
UsesAreRecorded == at = "ended" => file = lastUse

\* A pass still to be used is not overwritten by the next card's, unless its
\* read failed.  (Left aside is the second opening of the exit, OpenExit's.)
NoPassOverwritten ==
    at = "first" \/ (at = "grant" /\ place[2] = "enter")
        => passes[place] # 1 \/ guessed

\* No reader is left out: a card shown is read, unless the thread ended before.
ReadersAreServed == \A p \in Places : flag[p] ~> (~flag[p] \/ at = "ended")

\* A thread that was told to terminate ends.
StoppedThreadEnds == terminated ~> at = "ended"
=============================================================================
