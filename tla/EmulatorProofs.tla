--------------------------- MODULE EmulatorProofs ---------------------------
(***************************************************************************)
(* Theorems about Emulator, for all turnstiles, words and numbers of       *)
(* cards: what the host is sent of a card, and what the handlers leave     *)
(* behind that met none of the other thread.                               *)
(***************************************************************************)
EXTENDS Emulator, TLAPS

(***************************************************************************)
(* What is left of a handler: the programs, from each of their accesses.   *)
(***************************************************************************)
Pass7 == <<"testOpen", "testLimited", "load", "store", "change", "testZero", "disable">>
Pass6 == <<"testLimited", "load", "store", "change", "testZero", "disable">>
Pass5 == <<"load", "store", "change", "testZero", "disable">>
Pass4 == <<"store", "change", "testZero", "disable">>
Pass3 == <<"change", "testZero", "disable">>
Pass2 == <<"testZero", "disable">>
Pass1 == <<"disable">>
Timer4 == <<"off", "load", "store", "change">>
Timer3 == <<"load", "store", "change">>
Write2 == <<"store", "change">>
Write1 == <<"change">>
Show2 == <<"putNum", "markNew">>
Show1 == <<"markNew">>
Flag4 == <<"testNew", "getNum", "resetNew", "sendFlag">>
Flag3 == <<"getNum", "resetNew", "sendFlag">>
Flag2 == <<"resetNew", "sendFlag">>
Flag1 == <<"sendFlag">>
Image7 == <<"getNum", "resetNew", "getNum", "resetNew", "clearNum", "markNew", "sendImage">>
Image6 == <<"resetNew", "getNum", "resetNew", "clearNum", "markNew", "sendImage">>
Image5 == <<"getNum", "resetNew", "clearNum", "markNew", "sendImage">>
Image4 == <<"resetNew", "clearNum", "markNew", "sendImage">>
Image3 == <<"clearNum", "markNew", "sendImage">>
Image2 == <<"markNew", "sendImage">>
Image1 == <<"sendImage">>
Indicate1 == <<"indicate">>
IndicateWrite == <<"indicate", "store", "change">>
IndicateDie == <<"indicate", "die">>
Die1 == <<"die">>

PassPrograms == {Pass7, Pass6, Pass5, Pass4, Pass3, Pass2, Pass1}
CardPrograms == {Flag4, Flag3, Flag2, Flag1, Image7, Image6, Image5, Image4, Image3,
                 Image2, Image1}

\* Those that touch the registers of their side, and those that may not have one.
GuiPrograms    == PassPrograms \cup {Timer4, Timer3, Write2, Write1, Show2, Show1}
SidePrograms   == CardPrograms \cup {Write2, Write1, IndicateWrite}
NoSidePrograms == {<< >>, Indicate1, IndicateDie, Die1}

ProgramInv ==
    /\ act["gui"].ops \in GuiPrograms \cup {<< >>}
    /\ act["gui"].ops # << >> => act["gui"].side \in Side
    /\ act["proto"].ops \in SidePrograms \cup NoSidePrograms
    /\ act["proto"].ops \in SidePrograms => act["proto"].side \in Side

(***************************************************************************)
(* The cards: each is in one text at most, and once it was cleared to be   *)
(* sent it is nowhere else.                                                *)
(***************************************************************************)
Got == act["proto"].got

\* The cards shown so far are the numbers up to shown; the last may still be put.
PutLater == act["gui"].ops = Show2

CardsShown ==
    /\ \A s \in Side : num[s] <= shown /\ (PutLater => num[s] # shown)
    /\ Got <= shown /\ (PutLater => Got # shown)
    /\ \A c \in 1 .. MaxShown :
         delivered[c] > 0 => c <= shown /\ (PutLater => c # shown)

OnePlace ==
    \A s, t \in Side : num[s] = num[t] /\ num[s] # 0 => s = t

GoneWhenSent ==
    \A c \in 1 .. MaxShown :
        delivered[c] > 0 => delivered[c] = 1 /\ Got # c /\ \A s \in Side : num[s] # c

Taken ==
    Got # 0 =>
        /\ \A s \in Side : s # act["proto"].side => num[s] # Got
        /\ act["proto"].ops \in {Image2, Image1} => \A s \in Side : num[s] # Got

CardInv == CardsShown /\ OnePlace /\ GoneWhenSent /\ Taken

(***************************************************************************)
(* The handlers that met no other: what each has still to put right.       *)
(***************************************************************************)
OneAtATime == ~overlapped => act["gui"].ops = << >> \/ act["proto"].ops = << >>

\* ChangeTurnState is still to come, and nothing looks at the registers before.
Settling == {Timer3, Write2, Write1, Pass5, Pass4, Pass3}

Settled(s) == \A a \in Actors : act[a].ops \in Settling => act[a].side[1] # s[1]

ButtonInv ==
    ~overlapped => \A s \in Side : Settled(s) => (button[s] <=> state[s] # 0)

\* btnIn and its timer go only when the passes were used up.
ClosingInv ==
    ~overlapped => (act["gui"].ops = Pass1 => state[act["gui"].side] = 0)

TimerInv ==
    ~overlapped =>
        \A s \in Side : Settled(s) /\ Counted(state[s]) => timer[s] \/ paused[s]

\* The side whose text is being changed or sent, between its two accesses.
Moving(s) ==
    \/ act["gui"].ops = Show1 /\ act["gui"].side = s
    \/ act["proto"].ops \in {Image6, Image5, Image4, Image3} /\ act["proto"].side = s

NewsInv ==
    ~overlapped =>
        /\ \A s \in Side : num[s] # 0 /\ ~Moving(s) =>
             \/ isNew[s] \/ num[s] \in reported
             \/ act["proto"].ops = Flag1 /\ act["proto"].side = s /\ num[s] = Got
        /\ act["proto"].ops = Flag2 => num[act["proto"].side] = Got

SettledInv == OneAtATime /\ ButtonInv /\ ClosingInv /\ TimerInv /\ NewsInv

EmulatorInv == TypeOK /\ ProgramInv /\ CardInv /\ SettledInv

-----------------------------------------------------------------------------
(***************************************************************************)
(* Each program: what it begins with, and what is left of it then.  Two of *)
(* them differ in their length or in their first access.                   *)
(***************************************************************************)
Is(p, n, op, rest) == p \in Seq(Ops) /\ Len(p) = n /\ Head(p) = op /\ Tail(p) = rest

PassAccesses ==
    /\ Is(Pass7, 7, "testOpen", Pass6) /\ Is(Pass6, 6, "testLimited", Pass5)
    /\ Is(Pass5, 5, "load", Pass4) /\ Is(Pass4, 4, "store", Pass3)
    /\ Is(Pass3, 3, "change", Pass2) /\ Is(Pass2, 2, "testZero", Pass1)
    /\ Is(Pass1, 1, "disable", << >>)

WriteAccesses ==
    /\ Is(Timer4, 4, "off", Timer3) /\ Is(Timer3, 3, "load", Write2)
    /\ Is(Write2, 2, "store", Write1) /\ Is(Write1, 1, "change", << >>)
    /\ Is(Indicate1, 1, "indicate", << >>) /\ Is(IndicateWrite, 3, "indicate", Write2)
    /\ Is(IndicateDie, 2, "indicate", Die1) /\ Is(Die1, 1, "die", << >>)

CardAccesses ==
    /\ Is(Show2, 2, "putNum", Show1) /\ Is(Show1, 1, "markNew", << >>)
    /\ Is(Flag4, 4, "testNew", Flag3) /\ Is(Flag3, 3, "getNum", Flag2)
    /\ Is(Flag2, 2, "resetNew", Flag1) /\ Is(Flag1, 1, "sendFlag", << >>)
    /\ Is(Image7, 7, "getNum", Image6) /\ Is(Image6, 6, "resetNew", Image5)
    /\ Is(Image5, 5, "getNum", Image4) /\ Is(Image4, 4, "resetNew", Image3)
    /\ Is(Image3, 3, "clearNum", Image2) /\ Is(Image2, 2, "markNew", Image1)
    /\ Is(Image1, 1, "sendImage", << >>)

\* The programs are opaque from here on: this is what the steps know of them.
Accesses ==
    /\ PassAccesses /\ WriteAccesses /\ CardAccesses
    /\ << >> \in Seq(Ops) /\ Len(<< >>) = 0

LEMMA Programs == Accesses
<1>1. PassAccesses
  BY DEF PassAccesses, Is, Ops, Pass7, Pass6, Pass5, Pass4, Pass3, Pass2, Pass1
<1>2. WriteAccesses
  BY DEF WriteAccesses, Is, Ops, Timer4, Timer3, Write2, Write1, Indicate1, IndicateWrite,
         IndicateDie, Die1
<1>3. CardAccesses
  <2>1. /\ Is(Show2, 2, "putNum", Show1) /\ Is(Show1, 1, "markNew", << >>)
        /\ Is(Flag4, 4, "testNew", Flag3) /\ Is(Flag3, 3, "getNum", Flag2)
        /\ Is(Flag2, 2, "resetNew", Flag1) /\ Is(Flag1, 1, "sendFlag", << >>)
    BY DEF Is, Ops, Show2, Show1, Flag4, Flag3, Flag2, Flag1
  <2>2. /\ Is(Image7, 7, "getNum", Image6) /\ Is(Image6, 6, "resetNew", Image5)
        /\ Is(Image5, 5, "getNum", Image4) /\ Is(Image4, 4, "resetNew", Image3)
        /\ Is(Image3, 3, "clearNum", Image2) /\ Is(Image2, 2, "markNew", Image1)
        /\ Is(Image1, 1, "sendImage", << >>)
    BY DEF Is, Ops, Image7, Image6, Image5, Image4, Image3, Image2, Image1
  <2>3. QED
    BY <2>1, <2>2 DEF CardAccesses
<1>4. QED
  BY <1>1, <1>2, <1>3 DEF Accesses

\* No handler turns into another one, but that a timer and a click of the exit
\* end with a write.
LEMMA Families ==
    /\ \A p \in PassPrograms : Tail(p) \in PassPrograms \cup {<< >>}
    /\ \A p \in {Timer4, Timer3, Write2, Write1} : Tail(p) \in {Timer3, Write2, Write1, << >>}
    /\ \A p \in {Write2, Write1} : Tail(p) \in {Write1, << >>}
    /\ \A p \in {Show2, Show1} : Tail(p) \in {Show1, << >>}
    /\ \A p \in {Flag4, Flag3, Flag2, Flag1} : Tail(p) \in {Flag3, Flag2, Flag1, << >>}
    /\ \A p \in CardPrograms : Tail(p) \in CardPrograms \cup {<< >>}
    /\ \A p \in {Indicate1, IndicateWrite, IndicateDie, Die1} : Tail(p) \in {Write2, Die1, << >>}
<1>1. \A p \in PassPrograms : Tail(p) \in PassPrograms \cup {<< >>}
  BY Programs DEF PassPrograms, Accesses, PassAccesses, Is
<1>2. /\ \A p \in {Timer4, Timer3, Write2, Write1} : Tail(p) \in {Timer3, Write2, Write1, << >>}
      /\ \A p \in {Write2, Write1} : Tail(p) \in {Write1, << >>}
      /\ \A p \in {Indicate1, IndicateWrite, IndicateDie, Die1} : Tail(p) \in {Write2, Die1, << >>}
  BY Programs DEF Accesses, WriteAccesses, Is
<1>3. /\ \A p \in {Show2, Show1} : Tail(p) \in {Show1, << >>}
      /\ \A p \in {Flag4, Flag3, Flag2, Flag1} : Tail(p) \in {Flag3, Flag2, Flag1, << >>}
  BY Programs DEF Accesses, CardAccesses, Is
<1>4. \A p \in {Image7, Image6, Image5, Image4, Image3, Image2, Image1} :
        Tail(p) \in {Image6, Image5, Image4, Image3, Image2, Image1, << >>}
  BY Programs DEF Accesses, CardAccesses, Is
<1>5. \A p \in CardPrograms : Tail(p) \in CardPrograms \cup {<< >>}
  BY <1>3, <1>4 DEF CardPrograms
<1>6. QED
  BY <1>1, <1>2, <1>3, <1>5

\* What they begin with.
LEMMA FirstAccesses ==
    /\ \A p \in PassPrograms : Head(p) \in {"testOpen", "testLimited", "load", "store", "change",
                                           "testZero", "disable"}
    /\ \A p \in {Timer4, Timer3, Write2, Write1} : Head(p) \in {"off", "load", "store", "change"}
    /\ \A p \in {Show2, Show1} : Head(p) \in {"putNum", "markNew"}
    /\ \A p \in {Flag4, Flag3, Flag2, Flag1} :
          Head(p) \in {"testNew", "getNum", "resetNew", "sendFlag"}
    /\ \A p \in CardPrograms : Head(p) \in {"testNew", "getNum", "resetNew", "sendFlag", "clearNum",
                                           "markNew", "sendImage"}
    /\ \A p \in {Indicate1, IndicateWrite, IndicateDie, Die1} : Head(p) \in {"indicate", "die"}
<1>1. \A p \in PassPrograms : Head(p) \in {"testOpen", "testLimited", "load", "store", "change",
                                          "testZero", "disable"}
  BY Programs DEF PassPrograms, Accesses, PassAccesses, Is
<1>2. /\ \A p \in {Timer4, Timer3, Write2, Write1} : Head(p) \in {"off", "load", "store", "change"}
      /\ \A p \in {Indicate1, IndicateWrite, IndicateDie, Die1} : Head(p) \in {"indicate", "die"}
  BY Programs DEF Accesses, WriteAccesses, Is
<1>3. /\ \A p \in {Show2, Show1} : Head(p) \in {"putNum", "markNew"}
      /\ \A p \in {Flag4, Flag3, Flag2, Flag1} :
            Head(p) \in {"testNew", "getNum", "resetNew", "sendFlag"}
  BY Programs DEF Accesses, CardAccesses, Is
<1>4. \A p \in {Image7, Image6, Image5, Image4, Image3, Image2, Image1} :
        Head(p) \in {"getNum", "resetNew", "clearNum", "markNew", "sendImage"}
  BY Programs DEF Accesses, CardAccesses, Is
<1>5. \A p \in CardPrograms : Head(p) \in {"testNew", "getNum", "resetNew", "sendFlag", "clearNum",
                                          "markNew", "sendImage"}
  BY <1>3, <1>4 DEF CardPrograms
<1>6. QED
  BY <1>1, <1>2, <1>3, <1>5

LEMMA NotEmpty ==
  ASSUME NEW p, p \in {Pass4, Write2, Flag2, Image6, Image4}
  PROVE  p \in Seq(Ops) /\ p # << >>
  BY Programs DEF Accesses, PassAccesses, WriteAccesses, CardAccesses, Is

\* All there is to know of a program at its access op: what program it may be.
GuiAt(op, p) ==
    \/ op = "testOpen" /\ p = Pass7
    \/ op = "testLimited" /\ p = Pass6
    \/ op = "load" /\ p \in {Pass5, Timer3}
    \/ op = "store" /\ p \in {Pass4, Write2}
    \/ op = "change" /\ p \in {Pass3, Write1}
    \/ op = "testZero" /\ p = Pass2
    \/ op = "disable" /\ p = Pass1
    \/ op = "off" /\ p = Timer4
    \/ op = "putNum" /\ p = Show2
    \/ op = "markNew" /\ p = Show1

ProtoAt(op, p) ==
    \/ op = "testNew" /\ p = Flag4
    \/ op = "getNum" /\ p \in {Flag3, Image7, Image5}
    \/ op = "resetNew" /\ p \in {Flag2, Image6, Image4}
    \/ op = "sendFlag" /\ p = Flag1
    \/ op = "clearNum" /\ p = Image3
    \/ op = "markNew" /\ p = Image2
    \/ op = "sendImage" /\ p = Image1
    \/ op = "store" /\ p = Write2
    \/ op = "change" /\ p = Write1
    \/ op = "indicate" /\ p \in {Indicate1, IndicateWrite, IndicateDie}
    \/ op = "die" /\ p = Die1

LEMMA AtAccess ==
  ASSUME ProgramInv, NEW op
  PROVE  /\ Next1("gui", op) => GuiAt(op, act["gui"].ops)
         /\ Next1("proto", op) => ProtoAt(op, act["proto"].ops)
<1>1. Next1("gui", op) => GuiAt(op, act["gui"].ops)
  BY Programs DEF Accesses, PassAccesses, WriteAccesses, CardAccesses, Is, ProgramInv, GuiPrograms,
                  PassPrograms, Next1, Busy, GuiAt
<1>2. Next1("proto", op) => ProtoAt(op, act["proto"].ops)
  BY Programs DEF Accesses, PassAccesses, WriteAccesses, CardAccesses, Is, ProgramInv,
                  SidePrograms, NoSidePrograms, CardPrograms, Next1, Busy, ProtoAt
<1>3. QED
  BY <1>1, <1>2

-----------------------------------------------------------------------------
(***************************************************************************)
(* What a step does to act.                                                *)
(***************************************************************************)
ActType == [Actors -> [ops : Seq(Ops), side : Addresses \X Directions, val : Word, got : Card]]

\* Actor a is at a later access of its handler, or idle.
Goes(a, ops) ==
    /\ act' \in ActType
    /\ act'[a].ops = ops
    /\ IF ops = << >> THEN act'[a].got = 0 ELSE act'[a].side = act[a].side
    /\ \A b \in Actors : b # a => act'[b] = act[b]

LEMMA IdleType == Idle \in [ops : Seq(Ops), side : Addresses \X Directions, val : Word, got : Card]
<1>1. PICK t \in Turns : TRUE
  BY EmulatorAssumption
<1>2. NoSide \in Addresses \X Directions
  <2>1. <<t, "enter">> \in Side
    BY DEF Side, Directions
  <2>2. NoSide \in Side
    BY <2>1 DEF NoSide
  <2>3. QED
    BY <2>2 DEF Side, Addresses
<1>3. 0 \in Word /\ 0 \in Card
  BY EmulatorAssumption DEF Word, Card
<1>4. QED
  BY <1>2, <1>3, Programs DEF Idle, Accesses

LEMMA ThenGoes ==
  ASSUME TypeOK, NEW a \in Actors, NEW ops \in Seq(Ops), Then(a, ops)
  PROVE  Goes(a, ops) /\ (ops # << >> => act'[a].got = act[a].got /\ act'[a].val = act[a].val)
<1>1. act \in ActType
  BY DEF TypeOK, ActType
<1>2. CASE ops = << >>
  BY <1>1, <1>2, IdleType DEF Then, Goes, ActType, Idle
<1>3. CASE ops # << >>
  BY <1>1, <1>3 DEF Then, Goes, ActType
<1>4. QED
  BY <1>2, <1>3

LEMMA Done1Goes ==
  ASSUME TypeOK, ProgramInv, NEW a \in Actors, NEW op, Next1(a, op), Done1(a)
  PROVE  /\ Goes(a, Tail(act[a].ops))
         /\ Tail(act[a].ops) # << >> =>
              act'[a].got = act[a].got /\ act'[a].val = act[a].val
<1>1. act[a].ops \in Seq(Ops) /\ act[a].ops # << >>
  BY DEF TypeOK, Next1, Busy
<1>2. Tail(act[a].ops) \in Seq(Ops)
  BY <1>1
<1>3. QED
  BY <1>2, ThenGoes DEF Done1

LEMMA BeginsGoes ==
  ASSUME TypeOK, NEW a \in Actors, NEW side \in Addresses \X Directions, NEW ops \in Seq(Ops),
         NEW val \in Word, Begins(a, side, ops, val)
  PROVE  /\ act' \in ActType
         /\ act'[a].ops = ops /\ act'[a].side = side /\ act'[a].got = 0
         /\ \A b \in Actors : b # a => act'[b] = act[b]
  BY EmulatorAssumption DEF TypeOK, ActType, Begins, Card

-----------------------------------------------------------------------------
(***************************************************************************)
(* Each access: where its actor goes on.                                   *)
(***************************************************************************)
\* From a program to what may be left of it.
GoesOn(p, q) ==
    \/ q = Tail(p)
    \/ p \in {Pass7, Pass2} /\ q = << >>
    \/ p = Pass6 /\ q = Pass2
    \/ p = Flag4 /\ q = Flag1

LEMMA AccessGoes ==
  ASSUME TypeOK, ProgramInv, NEW a \in Actors, Access(a)
  PROVE  Goes(a, act'[a].ops) /\ GoesOn(act[a].ops, act'[a].ops) /\ act[a].ops # << >>
<1>1. act \in ActType /\ Actors = {"gui", "proto"}
  BY DEF TypeOK, ActType, Actors
<1>2. ASSUME NEW op, Next1(a, op)
      PROVE  GuiAt(op, act[a].ops) \/ ProtoAt(op, act[a].ops)
  BY <1>1, <1>2, AtAccess
<1>3. ASSUME NEW op, Next1(a, op), Done1(a)
      PROVE  Goes(a, act'[a].ops) /\ GoesOn(act[a].ops, act'[a].ops)
  BY <1>3, Done1Goes DEF Goes, GoesOn
<1>4. ASSUME NEW ops \in Seq(Ops), Then(a, ops), GoesOn(act[a].ops, ops)
      PROVE  Goes(a, act'[a].ops) /\ GoesOn(act[a].ops, act'[a].ops)
  BY <1>4, ThenGoes DEF Goes
<1>5. \A op : Next1(a, op) => act[a].ops # << >>
  BY DEF Next1, Busy
<1>6. CASE Store(a) \/ Change(a) \/ SwitchOff(a) \/ PutNum(a) \/ MarkNew(a) \/ ResetNew(a)
           \/ SendFlag(a) \/ SendImage(a)
  BY <1>3, <1>5, <1>6 DEF Store, Change, Changed, SwitchOff, PutNum, MarkNew, ResetNew, SendFlag,
                          SendImage
<1>7. CASE TestOpen(a)
  <2>1. act[a].ops = Pass7
    BY <1>2, <1>7 DEF TestOpen, GuiAt, ProtoAt
  <2>2. QED
    BY <1>3, <1>4, <1>5, <1>7, <2>1, Programs DEF TestOpen, GoesOn, Accesses
<1>8. CASE TestLimited(a)
  <2>1. act[a].ops = Pass6 /\ Next1(a, "testLimited")
    BY <1>2, <1>7, <1>8 DEF TestLimited, GuiAt, ProtoAt
  <2>2. <<"testZero", "disable">> = Pass2
    BY DEF Pass2
  <2>3. Tail(act[a].ops) \in Seq(Ops) /\ Pass2 \in Seq(Ops)
    BY <2>1, Programs DEF Accesses, PassAccesses, Is
  <2>4. PICK q \in Seq(Ops) : Then(a, q) /\ (q = Tail(act[a].ops) \/ q = Pass2)
    BY <1>8, <2>2, <2>3 DEF TestLimited
  <2>5. QED
    BY <1>4, <1>5, <2>1, <2>4 DEF GoesOn
<1>9. CASE LoadLess1(a)
  <2>1. act[a].ops \in {Pass5, Timer3} /\ Next1(a, "load") /\ a = "gui"
    BY <1>1, AtAccess, <1>9 DEF LoadLess1, GuiAt, ProtoAt
  <2>2. Tail(act[a].ops) \in Seq(Ops) /\ Tail(act[a].ops) # << >>
    <3>1. Tail(act[a].ops) \in {Pass4, Write2}
      BY <2>1, Programs DEF Accesses, PassAccesses, WriteAccesses, Is
    <3>2. QED
      BY <3>1, NotEmpty
  <2>3. (state[act[a].side] + Free) % (Free + 1) \in Word
    <3>1. act[a].side \in Side
      BY <2>1, <1>5 DEF ProgramInv
    <3>2. state[act[a].side] \in Nat /\ Free \in Nat
      BY <3>1, EmulatorAssumption DEF TypeOK, Word
    <3>3. ASSUME NEW n \in Nat PROVE n % (Free + 1) \in 0 .. Free
      BY <3>2
    <3>4. state[act[a].side] + Free \in Nat
      BY <3>2
    <3>5. QED
      BY <3>3, <3>4 DEF Word
  <2>4. /\ act' \in ActType
        /\ act'[a].ops = Tail(act[a].ops) /\ act'[a].side = act[a].side
        /\ \A b \in Actors : b # a => act'[b] = act[b]
    BY <1>1, <1>9, <2>2, <2>3 DEF LoadLess1, ActType
  <2>5. QED
    BY <1>5, <2>1, <2>2, <2>4 DEF Goes, GoesOn
<1>10. CASE DieLate(a) \/ TestZero(a)
  <2>1. << >> \in Seq(Ops)
    BY Programs DEF Accesses
  <2>2. CASE DieLate(a)
    <3>1. Tail(act[a].ops) = << >> /\ Next1(a, "die")
      BY <1>2, <2>2, Programs DEF DieLate, GuiAt, ProtoAt, Accesses, WriteAccesses, Is
    <3>2. QED
      BY <1>4, <1>5, <2>1, <2>2, <3>1 DEF DieLate, GoesOn
  <2>3. CASE TestZero(a)
    <3>1. act[a].ops = Pass2 /\ Next1(a, "testZero")
      BY <1>2, <2>3 DEF TestZero, GuiAt, ProtoAt
    <3>2. QED
      BY <1>3, <1>4, <1>5, <2>1, <2>3, <3>1 DEF TestZero, GoesOn
  <2>4. QED
    BY <1>10, <2>2, <2>3
<1>11. CASE GetNum(a)
  <2>1. act[a].ops \in {Flag3, Image7, Image5} /\ Next1(a, "getNum") /\ a = "proto"
    BY <1>1, AtAccess, <1>11 DEF GetNum, GuiAt, ProtoAt
  <2>2. Tail(act[a].ops) \in Seq(Ops) /\ Tail(act[a].ops) # << >>
    <3>1. Tail(act[a].ops) \in {Flag2, Image6, Image4}
      BY <2>1, Programs DEF Accesses, CardAccesses, Is
    <3>2. QED
      BY <3>1, NotEmpty
  <2>3. num[act[a].side] \in Card
    BY <2>1 DEF TypeOK, ProgramInv, SidePrograms, CardPrograms
  <2>4. /\ act' \in ActType
        /\ act'[a].ops = Tail(act[a].ops) /\ act'[a].side = act[a].side
        /\ \A b \in Actors : b # a => act'[b] = act[b]
    BY <1>1, <1>11, <2>2, <2>3 DEF GetNum, ActType
  <2>5. QED
    BY <1>5, <2>1, <2>2, <2>4 DEF Goes, GoesOn
<1>12. CASE TestNew(a)
  <2>1. act[a].ops = Flag4 /\ Next1(a, "testNew")
    BY <1>2, <1>12 DEF TestNew, GuiAt, ProtoAt
  <2>2. <<"sendFlag">> = Flag1
    BY DEF Flag1
  <2>3. Tail(act[a].ops) \in Seq(Ops) /\ Flag1 \in Seq(Ops)
    BY <2>1, Programs DEF Accesses, CardAccesses, Is
  <2>4. PICK q \in Seq(Ops) : Then(a, q) /\ (q = Tail(act[a].ops) \/ q = Flag1)
    BY <1>12, <2>2, <2>3 DEF TestNew
  <2>5. QED
    BY <1>4, <1>5, <2>1, <2>4 DEF GoesOn
<1>13. QED
  BY <1>6, <1>7, <1>8, <1>9, <1>10, <1>11, <1>12 DEF Access

-----------------------------------------------------------------------------
(***************************************************************************)
(* Each handler that is begun.                                             *)
(***************************************************************************)
\* Actor a, which was idle, is at the beginning of a program of a side.
Starts(a, side, ops) ==
    /\ MayBegin(a)
    /\ act' \in ActType
    /\ act'[a].ops = ops /\ act'[a].side = side /\ act'[a].got = 0
    /\ \A b \in Actors : b # a => act'[b] = act[b]

LEMMA OperatorStarts ==
  ASSUME TypeOK, NEW s \in Side
  PROVE  /\ ShowCard(s) => Starts("gui", s, Show2)
         /\ PassThrough(s) => Starts("gui", s, Pass7)
         /\ TimerFires(s) => Starts("gui", s, Timer4)
<1>1. /\ s \in Addresses \X Directions /\ "gui" \in Actors /\ 0 \in Word
      /\ Show2 \in Seq(Ops) /\ Pass7 \in Seq(Ops) /\ Timer4 \in Seq(Ops)
  BY EmulatorAssumption, Programs
  DEF Side, Addresses, Actors, Word, Accesses, PassAccesses, WriteAccesses, CardAccesses, Is
<1>2. ASSUME NEW ops \in Seq(Ops), Begins("gui", s, ops, 0)
      PROVE  Starts("gui", s, ops)
  <2>1. MayBegin("gui")
    BY <1>2 DEF Begins
  <2>2. QED
    BY <1>1, <1>2, <2>1, BeginsGoes DEF Starts
<1>3. ShowCard(s) => Begins("gui", s, Show2, 0)
  BY DEF ShowCard, Show2
<1>4. PassThrough(s) => Begins("gui", s, Pass7, 0)
  BY DEF PassThrough, Pass7
<1>5. TimerFires(s) => Begins("gui", s, Timer4, 0)
  BY DEF TimerFires, Timer4
<1>6. QED
  BY <1>1, <1>2, <1>3, <1>4, <1>5

\* A request at a turnstile has a side of it, one at an indicator need not.
Requests(side, ops) ==
    /\ Starts("proto", side, ops)
    /\ \/ ops \in {Flag4, Image7, Write2, IndicateWrite} /\ side \in Side
       \/ ops \in {Indicate1, IndicateDie}

LEMMA HostStarts ==
  ASSUME TypeOK, Host
  PROVE  \/ \E side, ops : Requests(side, ops)
         \/ MayBegin("proto") /\ UNCHANGED act
<1>1. /\ "proto" \in Actors /\ 0 \in Word /\ Written \subseteq Word
      /\ Flag4 \in Seq(Ops) /\ Image7 \in Seq(Ops) /\ Write2 \in Seq(Ops)
      /\ Indicate1 \in Seq(Ops) /\ IndicateWrite \in Seq(Ops) /\ IndicateDie \in Seq(Ops)
  BY EmulatorAssumption, Programs
  DEF Actors, Word, Accesses, WriteAccesses, CardAccesses, Is
<1>2. ASSUME NEW side \in Addresses \X Directions, NEW ops \in Seq(Ops), NEW val \in Word,
             Begins("proto", side, ops, val)
      PROVE  Starts("proto", side, ops)
  <2>1. MayBegin("proto")
    BY <1>2 DEF Begins
  <2>2. QED
    BY <1>1, <1>2, <2>1, BeginsGoes DEF Starts
<1>3. Dies => MayBegin("proto") /\ UNCHANGED act
  BY DEF Dies
<1>4. PICK addr \in Addresses :
          \/ \E d \in Directions : FlagRequest(addr, d) \/ ImageRequest(addr, d)
          \/ ReadRequest(addr)
          \/ \E v \in Written : EnterRequest(addr, v) \/ ExitRequest(addr, v)
          \/ IndicatorRequest(addr)
  BY DEF Host
<1>5. \A d \in Directions : /\ <<addr, d>> \in Addresses \X Directions
                            /\ addr \in Turns => <<addr, d>> \in Side
  BY DEF Side
<1>6. "enter" \in Directions /\ "exit" \in Directions
  BY DEF Directions
<1>7. ASSUME NEW d \in Directions, FlagRequest(addr, d) \/ ImageRequest(addr, d)
      PROVE  Dies \/ \E side, ops : Requests(side, ops)
  <2>1. SUFFICES ASSUME ~Dies PROVE Requests(<<addr, d>>, Flag4) \/ Requests(<<addr, d>>, Image7)
    OBVIOUS
  <2>2. addr \in Turns /\ (Begins("proto", <<addr, d>>, Flag4, 0)
                             \/ Begins("proto", <<addr, d>>, Image7, 0))
    BY <1>7, <2>1 DEF FlagRequest, ImageRequest, Flag4, Image7
  <2>3. QED
    BY <1>1, <1>2, <1>5, <2>2 DEF Requests
<1>8. ASSUME NEW v \in Written, EnterRequest(addr, v)
      PROVE  \E side, ops : Requests(side, ops)
  <2>1. addr \in Turns
    <3>1. addr < Offset /\ Known(addr)
      BY <1>8 DEF EnterRequest
    <3>2. addr \in Nat
      BY EmulatorAssumption DEF Addresses
    <3>3. QED
      BY <3>1, <3>2, EmulatorAssumption DEF Known
  <2>2. Begins("proto", <<addr, "enter">>, Write2, v)
    BY <1>8 DEF EnterRequest, Write2
  <2>3. Requests(<<addr, "enter">>, Write2)
    BY <1>1, <1>2, <1>5, <1>6, <2>1, <2>2 DEF Requests
  <2>4. QED
    BY <2>3
<1>9. ASSUME NEW v \in Written, ExitRequest(addr, v)
      PROVE  Dies \/ \E side, ops : Requests(side, ops)
  <2>1. SUFFICES ASSUME ~Dies PROVE \E side, ops : Requests(side, ops)
    OBVIOUS
  <2>2. \/ addr \in Turns /\ Begins("proto", <<addr, "exit">>, IndicateWrite, v)
        \/ Begins("proto", <<addr, "exit">>, IndicateDie, v)
    <3>1. <<"indicate">> \o <<"store", "change">> = IndicateWrite
      <4> DEFINE p == <<"indicate">> \o <<"store", "change">>
      <4>1. p \in Seq(Ops) /\ IndicateWrite \in Seq(Ops)
        BY DEF Ops, IndicateWrite
      <4>2. Len(p) = 3 /\ p[1] = "indicate" /\ p[2] = "store" /\ p[3] = "change"
        OBVIOUS
      <4>3. Len(IndicateWrite) = 3 /\ IndicateWrite[1] = "indicate"
            /\ IndicateWrite[2] = "store" /\ IndicateWrite[3] = "change"
        BY DEF IndicateWrite
      <4> HIDE DEF p
      <4>4. \A i \in 1 .. 3 : p[i] = IndicateWrite[i]
        BY <4>2, <4>3
      <4>5. p = IndicateWrite
        BY <4>1, <4>2, <4>3, <4>4
      <4>6. QED
        BY <4>5 DEF p
    <3>2. <<"indicate">> \o <<"die">> = IndicateDie
      <4> DEFINE p == <<"indicate">> \o <<"die">>
      <4>1. p \in Seq(Ops) /\ IndicateDie \in Seq(Ops)
        BY DEF Ops, IndicateDie
      <4>2. Len(p) = 2 /\ p[1] = "indicate" /\ p[2] = "die"
        OBVIOUS
      <4>3. Len(IndicateDie) = 2 /\ IndicateDie[1] = "indicate" /\ IndicateDie[2] = "die"
        BY DEF IndicateDie
      <4> HIDE DEF p
      <4>4. \A i \in 1 .. 2 : p[i] = IndicateDie[i]
        BY <4>2, <4>3
      <4>5. p = IndicateDie
        BY <4>1, <4>2, <4>3, <4>4
      <4>6. QED
        BY <4>5 DEF p
    <3>3. QED
      BY <1>9, <2>1, <3>1, <3>2 DEF ExitRequest
  <2>3. Requests(<<addr, "exit">>, IndicateWrite) \/ Requests(<<addr, "exit">>, IndicateDie)
    BY <1>1, <1>2, <1>5, <1>6, <2>2 DEF Requests
  <2>4. QED
    BY <2>3
<1>10. ASSUME IndicatorRequest(addr)
       PROVE  Dies \/ \E side, ops : Requests(side, ops)
  <2>1. SUFFICES ASSUME ~Dies PROVE Requests(<<addr, "enter">>, Indicate1)
    OBVIOUS
  <2>2. Begins("proto", <<addr, "enter">>, Indicate1, 0)
    BY <1>10, <2>1 DEF IndicatorRequest, Indicate1
  <2>3. QED
    BY <1>1, <1>2, <1>5, <1>6, <2>2 DEF Requests
<1>11. ReadRequest(addr) => Dies
  BY DEF ReadRequest
<1>12. QED
  BY <1>3, <1>4, <1>7, <1>8, <1>9, <1>10, <1>11

-----------------------------------------------------------------------------
LEMMA ActStep ==
  ASSUME TypeOK, ProgramInv, [Next]_vars
  PROVE  act' \in ActType /\ ProgramInv'
<1>1. act \in ActType /\ Actors = {"gui", "proto"}
  BY DEF TypeOK, ActType, Actors
<1>2. ASSUME UNCHANGED act
      PROVE  act' \in ActType /\ ProgramInv'
  BY <1>1, <1>2 DEF ProgramInv
<1>3. ASSUME NEW s \in Side, ShowCard(s) \/ PassThrough(s) \/ TimerFires(s)
      PROVE  act' \in ActType /\ ProgramInv'
  <2>1. PICK ops \in {Show2, Pass7, Timer4} : Starts("gui", s, ops)
    BY <1>3, OperatorStarts
  <2>2. QED
    BY <1>1, <2>1 DEF Starts, ProgramInv, GuiPrograms, PassPrograms
<1>4. CASE StartService \/ StopService
  BY <1>2, <1>4 DEF StartService, StopService
<1>5. CASE Host
  <2>1. CASE MayBegin("proto") /\ UNCHANGED act
    BY <1>2, <2>1
  <2>2. ASSUME NEW side, NEW ops, Requests(side, ops)
        PROVE  act' \in ActType /\ ProgramInv'
    <3>1. act'["gui"] = act["gui"] /\ act'["proto"].ops = ops /\ act'["proto"].side = side
          /\ act' \in ActType
      BY <1>1, <2>2 DEF Requests, Starts
    <3>2. ops \in SidePrograms \cup NoSidePrograms
      BY <2>2 DEF Requests, SidePrograms, NoSidePrograms, CardPrograms
    <3>3. {Indicate1, IndicateDie} \cap SidePrograms = {}
      BY Programs DEF Accesses, WriteAccesses, CardAccesses, Is, SidePrograms, CardPrograms
    <3>4. QED
      BY <2>2, <3>1, <3>2, <3>3 DEF ProgramInv, Requests
  <2>3. QED
    BY <1>5, <2>1, <2>2, HostStarts
<1>6. ASSUME Access("gui")
      PROVE  act' \in ActType /\ ProgramInv'
  <2>1. Goes("gui", act'["gui"].ops) /\ GoesOn(act["gui"].ops, act'["gui"].ops)
        /\ act["gui"].ops # << >>
    BY <1>1, <1>6, AccessGoes
  <2>2. act'["gui"].ops \in GuiPrograms \cup {<< >>}
    <3>1. act["gui"].ops \in GuiPrograms
      BY <2>1 DEF ProgramInv
    <3>2. Tail(act["gui"].ops) \in GuiPrograms \cup {<< >>}
      BY <3>1, Families DEF GuiPrograms
    <3>3. act["gui"].ops # Flag4
      <4>1. Head(Flag4) = "testNew"
        BY Programs DEF Accesses, CardAccesses, Is
      <4>2. QED
        BY <3>1, <4>1, FirstAccesses DEF GuiPrograms
    <3>4. Pass2 \in GuiPrograms
      BY DEF GuiPrograms, PassPrograms
    <3>5. QED
      BY <2>1, <3>2, <3>3, <3>4 DEF GoesOn
  <2>3. QED
    BY <1>1, <2>1, <2>2 DEF Goes, ProgramInv
<1>7. ASSUME Access("proto")
      PROVE  act' \in ActType /\ ProgramInv'
  <2>1. Goes("proto", act'["proto"].ops) /\ GoesOn(act["proto"].ops, act'["proto"].ops)
        /\ act["proto"].ops # << >>
    BY <1>1, <1>7, AccessGoes
  <2>2. /\ act'["proto"].ops \in SidePrograms \cup NoSidePrograms
        /\ act'["proto"].ops \in SidePrograms => act["proto"].ops \in SidePrograms
    <3>1. act["proto"].ops \in SidePrograms \cup {Indicate1, IndicateDie, Die1}
      BY <2>1 DEF ProgramInv, NoSidePrograms
    <3>2. Tail(act["proto"].ops) \in SidePrograms \cup NoSidePrograms
      BY <3>1, Families DEF SidePrograms, NoSidePrograms
    <3>3. act["proto"].ops \in {Indicate1, IndicateDie, Die1} =>
            Tail(act["proto"].ops) \in {<< >>, Die1}
      BY Programs DEF Accesses, WriteAccesses, Is
    <3>4. {<< >>, Die1} \cap SidePrograms = {}
      <4>1. Head(Die1) = "die" /\ Head(IndicateWrite) = "indicate" /\ Len(IndicateWrite) = 3
        BY Programs DEF Accesses, WriteAccesses, Is
      <4>2. Die1 \notin SidePrograms
        BY <4>1, FirstAccesses DEF SidePrograms
      <4>3. << >> \notin SidePrograms
        BY Programs DEF Accesses, WriteAccesses, CardAccesses, Is, SidePrograms, CardPrograms
      <4>4. QED
        BY <4>2, <4>3
    <3>5. act["proto"].ops \notin {Pass7, Pass6, Pass2}
      <4>1. /\ Len(Pass7) = 7 /\ Head(Pass7) = "testOpen"
            /\ Len(Pass6) = 6 /\ Head(Pass6) = "testLimited"
            /\ Len(Pass2) = 2 /\ Head(Pass2) = "testZero"
        BY Programs DEF Accesses, PassAccesses, Is
      <4>2. \A p \in SidePrograms \cup {Indicate1, IndicateDie, Die1} :
              Head(p) \notin {"testOpen", "testLimited", "testZero"}
        BY Programs DEF SidePrograms, CardPrograms, Accesses, WriteAccesses, CardAccesses, Is
      <4>3. QED
        BY <3>1, <4>1, <4>2
    <3>6. Flag1 \in SidePrograms /\ Flag4 \in SidePrograms
      BY DEF SidePrograms, CardPrograms
    <3>7. QED
      BY <2>1, <3>1, <3>2, <3>3, <3>4, <3>5, <3>6 DEF GoesOn
  <2>3. act'["proto"].ops \in SidePrograms => act'["proto"].ops # << >>
    BY Programs DEF SidePrograms, CardPrograms, Accesses, WriteAccesses, CardAccesses, Is
  <2>4. QED
    BY <1>1, <2>1, <2>2, <2>3 DEF Goes, ProgramInv
<1>8. QED
  BY <1>1, <1>2, <1>3, <1>4, <1>5, <1>6, <1>7 DEF Next, Operator, vars

\* The types of all but act.
RestType ==
    /\ state \in [Side -> Word] /\ num \in [Side -> Card] /\ isNew \in [Side -> BOOLEAN]
    /\ timer \in [Side -> BOOLEAN] /\ button \in [Side -> BOOLEAN]
    /\ isGo \in BOOLEAN /\ service \in {"off", "serving", "last", "ended", "dead"}
    /\ shown \in Card /\ writes \in 0 .. MaxWrites /\ reported \subseteq Card
    /\ delivered \in [1 .. MaxShown -> 0 .. 2] /\ paused \in [Side -> BOOLEAN]
    /\ overlapped \in BOOLEAN

LEMMA AccessRestType ==
  ASSUME TypeOK, ProgramInv, NEW a \in Actors, Access(a)
  PROVE  RestType'
<1>1. RestType /\ act[a].val \in Word /\ act[a].got \in Card
  BY DEF TypeOK, RestType
<1>2. CASE TestOpen(a) \/ TestLimited(a) \/ LoadLess1(a) \/ TestZero(a) \/ GetNum(a) \/ TestNew(a)
           \/ DieLate(a)
  BY <1>1, <1>2 DEF RestType, registers, frame, ghosts, TestOpen, TestLimited, LoadLess1, TestZero,
                    GetNum, TestNew, DieLate
<1>3. CASE Store(a)
  BY <1>1, <1>3 DEF RestType, registers, frame, ghosts, Store
<1>4. ASSUME NEW t, Changed(a, t), Change(a)
      PROVE  RestType'
  <2>1. button' \in [Side -> BOOLEAN]
    BY <1>1, <1>4 DEF RestType, Changed
  <2>2. timer' \in [Side -> BOOLEAN]
    BY <1>1, <1>4 DEF RestType, Changed
  <2>3. paused' \in [Side -> BOOLEAN]
    BY <1>1, <1>4 DEF RestType, Changed
  <2>4. QED
    BY <1>1, <1>4, <2>1, <2>2, <2>3 DEF RestType, Change, registers
<1>5. CASE SwitchOff(a) \/ PutNum(a) \/ MarkNew(a) \/ ResetNew(a)
  <2>1. 0 \in Card
    BY EmulatorAssumption DEF Card
  <2>2. QED
    BY <1>1, <1>5, <2>1 DEF RestType, registers, frame, ghosts, SwitchOff, PutNum, MarkNew, ResetNew
<1>6. CASE SendFlag(a)
  BY <1>1, <1>6 DEF RestType, registers, frame, SendFlag
<1>7. CASE SendImage(a)
  <2>1. \A c \in 1 .. MaxShown : delivered[c] \in 0 .. 2
    BY <1>1 DEF RestType
  <2>2. \A c \in 1 .. MaxShown :
          (IF c = act[a].got /\ delivered[c] < 2 THEN delivered[c] + 1 ELSE delivered[c]) \in 0 .. 2
    BY <2>1
  <2>3. delivered' \in [1 .. MaxShown -> 0 .. 2]
    BY <1>7, <2>2 DEF SendImage
  <2>4. QED
    BY <1>1, <1>7, <2>3 DEF RestType, registers, frame, SendImage
<1>8. CASE Change(a)
  BY <1>4, <1>8 DEF Change
<1>9. QED
  BY <1>2, <1>3, <1>5, <1>6, <1>7, <1>8 DEF Access

\* What no request changes when it begins.
HostLeavesThem ==
    /\ UNCHANGED <<registers, frame, isGo, shown, reported, delivered, paused>>
    /\ service' \in {service, "ended", "dead"}
    /\ writes' = writes \/ (writes < MaxWrites /\ writes' = writes + 1)

LEMMA HostLeaves ==
  ASSUME Host
  PROVE  HostLeavesThem
<1>1. PICK addr \in Addresses :
          \/ \E d \in Directions : FlagRequest(addr, d) \/ ImageRequest(addr, d)
          \/ ReadRequest(addr)
          \/ \E v \in Written : EnterRequest(addr, v) \/ ExitRequest(addr, v)
          \/ IndicatorRequest(addr)
  BY DEF Host
<1>2. Dies => HostLeavesThem
  BY DEF Dies, HostLeavesThem, ghosts
<1>3. ASSUME NEW d, FlagRequest(addr, d) \/ ImageRequest(addr, d)
      PROVE  HostLeavesThem
  BY <1>2, <1>3 DEF FlagRequest, ImageRequest, HostLeavesThem, ghosts, Served
<1>4. ASSUME NEW v, EnterRequest(addr, v) \/ ExitRequest(addr, v)
      PROVE  HostLeavesThem
  BY <1>2, <1>4 DEF EnterRequest, ExitRequest, HostLeavesThem, Served
<1>5. ASSUME ReadRequest(addr) \/ IndicatorRequest(addr)
      PROVE  HostLeavesThem
  BY <1>2, <1>5 DEF ReadRequest, IndicatorRequest, HostLeavesThem, ghosts, Served
<1>6. QED
  BY <1>1, <1>3, <1>4, <1>5

LEMMA StepType ==
  ASSUME TypeOK, ProgramInv, [Next]_vars
  PROVE  TypeOK' /\ ProgramInv'
<1>1. RestType
  BY DEF TypeOK, RestType
<1>2. RestType'
  <2>1. ASSUME NEW a, MayBegin(a)
        PROVE  overlapped' \in BOOLEAN
    BY <1>1, <2>1 DEF MayBegin, RestType, Quiet
  <2>2. ASSUME NEW s \in Side, ShowCard(s) \/ PassThrough(s) \/ TimerFires(s)
        PROVE  RestType'
    <3>1. MayBegin("gui")
      BY <2>2 DEF ShowCard, PassThrough, TimerFires, Begins
    <3>2. shown' \in Card
      BY <1>1, <2>2, EmulatorAssumption
      DEF RestType, Card, ShowCard, PassThrough, TimerFires, ghosts
    <3>3. QED
      BY <1>1, <2>1, <2>2, <3>1, <3>2
      DEF RestType, registers, frame, ghosts, ShowCard, PassThrough, TimerFires
  <2>3. CASE StartService \/ StopService
    <3>1. MayBegin("gui")
      BY <2>3 DEF StartService, StopService
    <3>2. QED
      BY <1>1, <2>1, <2>3, <3>1
      DEF RestType, registers, frame, ghosts, StartService, StopService
  <2>4. CASE Host
    <3>1. MayBegin("proto")
      <4>1. CASE \E side, ops : Requests(side, ops)
        BY <4>1 DEF Requests, Starts
      <4>2. QED
        BY <2>4, <4>1, HostStarts
    <3>2. HostLeavesThem
      BY <2>4, HostLeaves
    <3>3. writes' \in 0 .. MaxWrites
      BY <1>1, <3>2, EmulatorAssumption DEF RestType, HostLeavesThem
    <3>4. QED
      BY <1>1, <2>1, <3>1, <3>2, <3>3 DEF RestType, HostLeavesThem, registers, frame
  <2>5. CASE UNCHANGED vars
    BY <1>1, <2>5 DEF RestType, vars, registers, frame, ghosts
  <2>6. QED
    BY <2>2, <2>3, <2>4, <2>5, AccessRestType DEF Next, Operator
<1>3. QED
  BY <1>2, ActStep DEF RestType, TypeOK, ActType

-----------------------------------------------------------------------------
(***************************************************************************)
(* The cards.                                                              *)
(***************************************************************************)
LEMMA CardNumbers ==
  ASSUME TypeOK
  PROVE  Got \in Nat /\ shown \in Nat /\ \A s \in Side : num[s] \in Nat
  BY EmulatorAssumption DEF TypeOK, Card, Got, Actors

LEMMA SameCards ==
  ASSUME TypeOK, CardInv, UNCHANGED <<num, shown, delivered>>, Got' = Got \/ Got' = 0,
         PutLater' => PutLater,
         Got' # 0 => /\ act'["proto"].side = act["proto"].side
                     /\ act'["proto"].ops \in {Image2, Image1} =>
                          act["proto"].ops \in {Image2, Image1}
  PROVE  CardInv'
<1>1. CardsShown' /\ OnePlace'
  <2>1. Got' <= shown /\ (PutLater' => Got' # shown)
    BY CardNumbers DEF CardInv, CardsShown
  <2>2. QED
    BY <2>1 DEF CardInv, CardsShown, OnePlace
<1>2. GoneWhenSent'
  BY DEF CardInv, GoneWhenSent
<1>3. Taken'
  BY DEF CardInv, Taken
<1>4. QED
  BY <1>1, <1>2, <1>3 DEF CardInv

\* No access is followed by the first one of the program that puts a card.
LEMMA NeverShow2 ==
  ASSUME ProgramInv, NEW q, GoesOn(act["gui"].ops, q), act["gui"].ops # << >>
  PROVE  q # Show2
<1>1. act["gui"].ops \in GuiPrograms
  BY DEF ProgramInv
<1>2. Tail(act["gui"].ops) # Show2
  <2>1. Len(Show2) = 2 /\ Head(Show2) = "putNum"
    BY Programs DEF Accesses, CardAccesses, Is
  <2>2. \A p \in GuiPrograms : Tail(p) = << >> \/ Head(Tail(p)) # "putNum"
    <3>1. \A p \in PassPrograms : Tail(p) = << >> \/ Head(Tail(p)) # "putNum"
      BY Programs DEF PassPrograms, Accesses, PassAccesses, Is
    <3>2. \A p \in {Timer4, Timer3, Write2, Write1, Show2, Show1} :
            Tail(p) = << >> \/ Head(Tail(p)) # "putNum"
      BY Programs DEF Accesses, WriteAccesses, CardAccesses, Is
    <3>3. QED
      BY <3>1, <3>2 DEF GuiPrograms
  <2>3. << >> # Show2
    BY <2>1, Programs DEF Accesses
  <2>4. QED
    BY <1>1, <2>1, <2>2, <2>3
<1>3. << >> # Show2 /\ Pass2 # Show2 /\ Flag1 # Show2
  BY Programs DEF Accesses, PassAccesses, CardAccesses, Is
<1>4. QED
  BY <1>2, <1>3 DEF GoesOn

\* Only the read of a text leads to the accesses that send and clear it.
LEMMA SendingGoesOn ==
  ASSUME NEW p, p \in SidePrograms \cup NoSidePrograms, p # << >>, NEW q, GoesOn(p, q),
         q \in {Image2, Image1}
  PROVE  p \in {Image3, Image2}
<1>1. /\ Len(Image2) = 2 /\ Head(Image2) = "markNew"
      /\ Len(Image1) = 1 /\ Head(Image1) = "sendImage"
      /\ Len(Pass2) = 2 /\ Head(Pass2) = "testZero" /\ Len(Flag1) = 1 /\ Head(Flag1) = "sendFlag"
      /\ Len(<< >>) = 0
  BY Programs DEF Accesses, PassAccesses, CardAccesses, Is
<1>2. q = Tail(p)
  BY <1>1 DEF GoesOn
<1>3. ASSUME p \notin {Image3, Image2}
      PROVE  Tail(p) = << >> \/ Head(Tail(p)) \notin {"markNew", "sendImage"}
  <2>1. CASE p \in {Flag4, Flag3, Flag2, Flag1}
    BY <2>1, Families, FirstAccesses
  <2>2. CASE p \in {Image7, Image6, Image5, Image4, Image1}
    BY <2>2, Programs DEF Accesses, CardAccesses, Is
  <2>3. CASE p \in {Write2, Write1, IndicateWrite, Indicate1, IndicateDie, Die1}
    BY <2>3, Families, FirstAccesses
  <2>4. QED
    BY <1>3, <2>1, <2>2, <2>3 DEF SidePrograms, NoSidePrograms, CardPrograms
<1>4. q # << >> /\ Head(q) \in {"markNew", "sendImage"}
  BY <1>1
<1>5. QED
  BY <1>2, <1>3, <1>4

LEMMA GuiAccessKeepsCards ==
  ASSUME TypeOK, ProgramInv, CardInv, Access("gui")
  PROVE  CardInv'
<1>1. /\ Goes("gui", act'["gui"].ops) /\ GoesOn(act["gui"].ops, act'["gui"].ops)
      /\ act["gui"].ops # << >> /\ Actors = {"gui", "proto"}
  BY AccessGoes DEF Actors
<1>2. act'["proto"] = act["proto"]
  BY <1>1 DEF Goes
<1>3. ~PutLater'
  BY <1>1, NeverShow2 DEF PutLater
<1>4. ASSUME UNCHANGED <<num, shown, delivered>>
      PROVE  CardInv'
  BY <1>2, <1>3, <1>4, SameCards DEF Got
<1>5. CASE PutNum("gui")
  <2>1. act["gui"].ops = Show2 /\ act["gui"].side \in Side /\ Head(Show2) = "putNum"
    BY <1>1, <1>5, AtAccess, Programs
    DEF PutNum, GuiAt, ProgramInv, Accesses, CardAccesses, Is
  <2>2. num' = [num EXCEPT ![act["gui"].side] = shown] /\ UNCHANGED <<shown, delivered>>
    BY <1>5, <2>1 DEF PutNum, ghosts
  <2>3. \A s \in Side : num'[s] = IF s = act["gui"].side THEN shown ELSE num[s]
    BY <2>2 DEF TypeOK
  <2>4. Got' = Got /\ Got # shown /\ \A s \in Side : num[s] # shown
    BY <1>2, <2>1 DEF CardInv, CardsShown, PutLater, Got
  <2>5. CardsShown'
    BY <1>3, <2>2, <2>3, <2>4, CardNumbers DEF CardInv, CardsShown
  <2>6. OnePlace'
    BY <2>3, <2>4 DEF CardInv, OnePlace
  <2>7. GoneWhenSent'
    BY <2>1, <2>2, <2>3, <2>4 DEF CardInv, GoneWhenSent, CardsShown, PutLater
  <2>8. Taken'
    BY <1>2, <2>3, <2>4 DEF CardInv, Taken
  <2>9. QED
    BY <2>5, <2>6, <2>7, <2>8 DEF CardInv
<1>6. CASE SendImage("gui")
  BY <1>6, AtAccess DEF SendImage, GuiAt
<1>7. CASE ~PutNum("gui") /\ ~SendImage("gui")
  <2>1. UNCHANGED <<num, shown, delivered>>
    BY <1>7 DEF Access, registers, ghosts, TestOpen, TestLimited, LoadLess1, Store, Change, DieLate,
                TestZero, SwitchOff, MarkNew, GetNum, ResetNew, TestNew, SendFlag
  <2>2. QED
    BY <1>4, <2>1
<1>8. QED
  BY <1>5, <1>6, <1>7

LEMMA ProtoAccessKeepsCards ==
  ASSUME TypeOK, ProgramInv, CardInv, Access("proto")
  PROVE  CardInv'
<1>1. /\ Goes("proto", act'["proto"].ops) /\ GoesOn(act["proto"].ops, act'["proto"].ops)
      /\ act["proto"].ops # << >> /\ Actors = {"gui", "proto"} /\ "proto" \in Actors
  BY AccessGoes DEF Actors
<1>2. PutLater' = PutLater /\ act["proto"].ops \in SidePrograms \cup NoSidePrograms
  BY <1>1 DEF Goes, PutLater, ProgramInv
<1>3. CASE GetNum("proto")
  <2>1. act["proto"].ops \in {Flag3, Image7, Image5} /\ act["proto"].side \in Side
    BY <1>3, AtAccess DEF GetNum, ProtoAt, ProgramInv, SidePrograms, CardPrograms
  <2>2. Tail(act["proto"].ops) \in {Flag2, Image6, Image4}
    BY <2>1, Programs DEF Accesses, CardAccesses, Is
  <2>3. UNCHANGED <<num, shown, delivered>> /\ Got' = num[act["proto"].side]
        /\ act'["proto"].side = act["proto"].side /\ act'["proto"].ops = Tail(act["proto"].ops)
    BY <1>1, <1>3 DEF GetNum, Got, TypeOK, registers, ghosts
  <2>4. act'["proto"].ops \notin {Image2, Image1}
    BY <2>2, <2>3, Programs DEF Accesses, CardAccesses, Is
  <2>5. CardsShown' /\ OnePlace' /\ GoneWhenSent'
    BY <1>2, <2>1, <2>3 DEF CardInv, CardsShown, OnePlace, GoneWhenSent
  <2>6. Taken'
    BY <2>1, <2>3, <2>4 DEF CardInv, Taken, OnePlace
  <2>7. QED
    BY <2>5, <2>6 DEF CardInv
<1>4. CASE PutNum("proto")
  <2>1. act["proto"].ops = Image3 /\ act["proto"].side \in Side /\ Head(Image3) = "clearNum"
        /\ Tail(Image3) = Image2 /\ Next1("proto", "clearNum")
    BY <1>4, AtAccess, Programs
    DEF PutNum, ProtoAt, ProgramInv, SidePrograms, CardPrograms, Accesses, CardAccesses, Is
  <2>2. num' = [num EXCEPT ![act["proto"].side] = 0] /\ UNCHANGED <<shown, delivered>>
        /\ Done1("proto")
    BY <1>4, <2>1 DEF PutNum, ghosts
  <2>3. \A s \in Side : num'[s] = IF s = act["proto"].side THEN 0 ELSE num[s]
    BY <2>2 DEF TypeOK
  <2>4. Image2 # << >>
    BY Programs DEF Accesses, CardAccesses, Is
  <2>5. Got' = Got /\ act'["proto"].side = act["proto"].side
    BY <1>1, <2>1, <2>2, <2>4, Done1Goes DEF Goes, Got
  <2>6. CardsShown'
    <3>1. PutLater => shown # 0
      BY <2>1, CardNumbers DEF CardInv, CardsShown
    <3>2. QED
      BY <1>2, <2>2, <2>3, <2>5, <3>1, CardNumbers DEF CardInv, CardsShown
  <2>7. OnePlace'
    BY <2>3 DEF CardInv, OnePlace
  <2>8. GoneWhenSent'
    BY <2>2, <2>3, <2>5 DEF CardInv, GoneWhenSent
  <2>9. Taken'
    BY <2>3, <2>5 DEF CardInv, Taken
  <2>10. QED
    BY <2>6, <2>7, <2>8, <2>9 DEF CardInv
<1>5. CASE SendImage("proto")
  <2>1. act["proto"].ops = Image1 /\ Tail(Image1) = << >> /\ Next1("proto", "sendImage")
    BY <1>5, AtAccess, Programs DEF SendImage, ProtoAt, Accesses, CardAccesses, Is
  <2>2. Got' = 0 /\ UNCHANGED <<num, shown>>
    BY <1>1, <1>5, <2>1, Done1Goes DEF SendImage, Goes, Got, registers
  <2>3. \A c \in 1 .. MaxShown :
          delivered'[c] = IF c = Got /\ delivered[c] < 2 THEN delivered[c] + 1 ELSE delivered[c]
    BY <1>5 DEF SendImage, Got
  <2>4. \A c \in 1 .. MaxShown : delivered[c] \in Nat /\ (c = Got => delivered[c] = 0)
    <3>1. \A c \in 1 .. MaxShown : delivered[c] \in 0 .. 2 /\ (delivered[c] > 0 => c # Got)
      BY DEF TypeOK, CardInv, GoneWhenSent
    <3>2. QED
      BY <3>1
  <2>5. CardsShown'
    <3>1. Got' <= shown /\ (PutLater => Got' # shown)
      BY <2>2, CardNumbers DEF CardInv, CardsShown
    <3>2. \A c \in 1 .. MaxShown : delivered'[c] > 0 => c = Got \/ delivered[c] > 0
      BY <2>3
    <3>3. QED
      BY <1>2, <2>2, <3>1, <3>2 DEF CardInv, CardsShown
  <2>6. GoneWhenSent'
    <3>1. ASSUME NEW c \in 1 .. MaxShown, delivered'[c] > 0
          PROVE  delivered'[c] = 1 /\ \A s \in Side : num[s] # c
      <4>1. CASE c = Got
        BY <2>1, <2>3, <2>4, <4>1 DEF CardInv, Taken
      <4>2. CASE c # Got
        BY <2>3, <3>1, <4>2 DEF CardInv, GoneWhenSent
      <4>3. QED
        BY <4>1, <4>2
    <3>2. QED
      BY <2>2, <3>1 DEF GoneWhenSent
  <2>7. OnePlace' /\ Taken'
    BY <2>2 DEF CardInv, OnePlace, Taken
  <2>8. QED
    BY <2>5, <2>6, <2>7 DEF CardInv
<1>6. CASE ~GetNum("proto") /\ ~PutNum("proto") /\ ~SendImage("proto")
  <2>1. UNCHANGED <<num, shown, delivered>>
    BY <1>6 DEF Access, registers, ghosts, TestOpen, TestLimited, LoadLess1, Store, Change, DieLate,
                TestZero, SwitchOff, MarkNew, ResetNew, TestNew, SendFlag
  <2>2. Got' = Got \/ Got' = 0
    <3>1. ASSUME NEW ops \in Seq(Ops), Then("proto", ops)
          PROVE  Got' = Got \/ Got' = 0
      BY <1>1, <3>1, ThenGoes DEF Goes, Got
    <3>2. CASE LoadLess1("proto")
      BY <3>2, AtAccess DEF LoadLess1, ProtoAt
    <3>3. CASE TestLimited("proto") \/ TestOpen("proto") \/ TestZero("proto")
      BY <3>3, AtAccess DEF TestLimited, TestOpen, TestZero, ProtoAt
    <3>4. CASE TestNew("proto") \/ DieLate("proto")
      <4>1. << >> \in Seq(Ops) /\ <<"sendFlag">> \in Seq(Ops)
        BY Programs DEF Accesses, Ops
      <4>2. Tail(act["proto"].ops) \in Seq(Ops)
        BY <1>1 DEF TypeOK
      <4>3. QED
        BY <3>1, <3>4, <4>1, <4>2 DEF TestNew, DieLate
    <3>5. ASSUME NEW op, Next1("proto", op), Done1("proto")
          PROVE  Got' = Got \/ Got' = 0
      BY <1>1, <3>5, Done1Goes DEF Goes, Got
    <3>6. QED
      BY <1>6, <3>2, <3>3, <3>4, <3>5
      DEF Access, Store, Change, Changed, SwitchOff, MarkNew, ResetNew, SendFlag
  <2>3. act'["proto"].ops # << >> => act'["proto"].side = act["proto"].side
    BY <1>1 DEF Goes
  <2>4. act'["proto"].ops = << >> => Got' = 0
    BY <1>1 DEF Goes, Got
  <2>5. act["proto"].ops # Image3
    <3>1. Head(Image3) = "clearNum" /\ Tail(Image3) = Image2 /\ Image3 # << >>
      BY Programs DEF Accesses, CardAccesses, Is
    <3>2. ASSUME act["proto"].ops = Image3, NEW op, Next1("proto", op)
          PROVE  op = "clearNum"
      BY <3>1, <3>2 DEF Next1
    <3>3. QED
      BY <1>6, <3>2
      DEF Access, TestOpen, TestLimited, LoadLess1, Store, Change, DieLate,
          TestZero, SwitchOff, MarkNew, ResetNew, TestNew, SendFlag
  <2>6. act'["proto"].ops \in {Image2, Image1} => act["proto"].ops \in {Image2, Image1}
    BY <1>1, <1>2, <2>5, SendingGoesOn
  <2>7. QED
    BY <1>2, <2>1, <2>2, <2>3, <2>4, <2>6, SameCards
<1>7. QED
  BY <1>3, <1>4, <1>5, <1>6

LEMMA CardStep ==
  ASSUME TypeOK, ProgramInv, CardInv, [Next]_vars
  PROVE  CardInv'
<1>1. "gui" \in Actors /\ "proto" \in Actors
  BY DEF Actors
<1>2. ASSUME NEW s \in Side, ShowCard(s)
      PROVE  CardInv'
  <2>1. Starts("gui", s, Show2) /\ shown' = shown + 1 /\ UNCHANGED <<num, delivered>>
    BY <1>2, OperatorStarts DEF ShowCard, registers
  <2>2. act'["proto"] = act["proto"]
    BY <1>1, <2>1 DEF Starts
  <2>3. Got' = Got /\ Got <= shown /\ \A t \in Side : num[t] <= shown
    BY <2>2 DEF Got, CardInv, CardsShown
  <2>4. CardsShown'
    <3>1. \A c \in 1 .. MaxShown : delivered'[c] > 0 => c <= shown
      BY <2>1 DEF CardInv, CardsShown
    <3>2. QED
      BY <2>1, <2>3, <3>1, CardNumbers DEF CardsShown
  <2>5. OnePlace' /\ GoneWhenSent' /\ Taken'
    BY <2>1, <2>2, <2>3 DEF CardInv, OnePlace, GoneWhenSent, Taken
  <2>6. QED
    BY <2>4, <2>5 DEF CardInv
<1>3. ASSUME NEW s \in Side, PassThrough(s) \/ TimerFires(s)
      PROVE  CardInv'
  <2>1. PICK ops \in {Pass7, Timer4} : Starts("gui", s, ops)
    BY <1>3, OperatorStarts
  <2>2. act'["gui"].ops # Show2
    BY <1>1, <2>1, Programs DEF Starts, Accesses, PassAccesses, WriteAccesses, CardAccesses, Is
  <2>3. act'["proto"] = act["proto"]
    BY <1>1, <2>1 DEF Starts
  <2>4. QED
    BY <1>3, <2>2, <2>3, SameCards DEF PassThrough, TimerFires, registers, ghosts, PutLater, Got
<1>4. CASE StartService \/ StopService
  BY <1>4, SameCards DEF StartService, StopService, registers, ghosts, PutLater, Got
<1>5. CASE Host
  <2>1. UNCHANGED <<num, shown, delivered>>
    BY <1>5, HostLeaves DEF HostLeavesThem, registers
  <2>2. CASE UNCHANGED act
    BY <2>1, <2>2, SameCards DEF PutLater, Got
  <2>3. ASSUME NEW side, NEW ops, Requests(side, ops)
        PROVE  CardInv'
    <3>1. Got' = 0 /\ act'["gui"] = act["gui"]
      BY <1>1, <2>3 DEF Requests, Starts, Got
    <3>2. QED
      BY <2>1, <3>1, SameCards DEF PutLater
  <2>4. QED
    BY <1>5, <2>2, <2>3, HostStarts
<1>6. CASE UNCHANGED vars
  BY <1>6, SameCards DEF vars, registers, ghosts, PutLater, Got
<1>7. QED
  BY <1>2, <1>3, <1>4, <1>5, <1>6, GuiAccessKeepsCards, ProtoAccessKeepsCards
  DEF Next, Operator, Actors

-----------------------------------------------------------------------------
(***************************************************************************)
(* The handlers that meet no other.                                        *)
(***************************************************************************)
LEMMA BeginsAlone ==
  ASSUME MayBegin("gui") \/ MayBegin("proto"), ~overlapped'
  PROVE  ~overlapped /\ act["gui"].ops = << >> /\ act["proto"].ops = << >>
  BY DEF MayBegin, Quiet, Busy, Actors

LEMMA GoesAlone ==
  ASSUME SettledInv, ~overlapped, NEW a \in Actors, act[a].ops # << >>
  PROVE  \A b \in Actors : b # a => act[b].ops = << >>
  BY DEF SettledInv, OneAtATime, Actors

\* Which programs have ChangeTurnState still before them, and which end a pass.
LEMMA WhichSettle ==
    /\ << >> \notin Settling /\ << >> # Pass1 /\ << >> # Show1 /\ << >> # Flag1 /\ << >> # Flag2
    /\ << >> \notin {Image6, Image5, Image4, Image3}
    /\ {Show2, Pass7, Timer4, Flag4, Image7, Indicate1, IndicateWrite, IndicateDie}
         \cap (Settling \cup {Pass1, Show1, Flag1, Flag2, Image6, Image5, Image4, Image3})
         \subseteq {}
  BY Programs DEF Settling, Accesses, PassAccesses, WriteAccesses, CardAccesses, Is

LEMMA StartsSettled ==
  ASSUME SettledInv, NEW a \in Actors, NEW side, NEW ops, Starts(a, side, ops),
         ops \in {Show2, Pass7, Timer4, Flag4, Image7, Write2, Indicate1, IndicateWrite, IndicateDie},
         UNCHANGED <<registers, frame, reported, paused>>
  PROVE  SettledInv'
<1>1. SUFFICES ASSUME ~overlapped' PROVE SettledInv'
  BY DEF SettledInv, OneAtATime, ButtonInv, ClosingInv, TimerInv, NewsInv
<1>2. ~overlapped /\ (\A b \in Actors : act[b].ops = << >>) /\ Actors = {"gui", "proto"}
  BY <1>1, BeginsAlone DEF Starts, Actors
<1>3. /\ act'[a].ops = ops /\ \A b \in Actors : b # a => act'[b].ops = << >>
      /\ \A b \in Actors : act'[b].ops \in {ops, << >>}
  BY <1>2 DEF Starts
<1>4. /\ ops # Pass1 /\ ops # Show1 /\ ops # Flag1 /\ ops # Flag2
      /\ ops \notin {Image6, Image5, Image4, Image3}
  <2>1. CASE ops = Write2
    BY <2>1, Programs DEF Accesses, PassAccesses, WriteAccesses, CardAccesses, Is
  <2>2. QED
    BY <2>1, WhichSettle
<1>5. \A s \in Side : Settled(s) /\ ~Moving(s)
  BY <1>2, WhichSettle DEF Settled, Moving
<1>6. \A s \in Side : ~Moving(s)'
  BY <1>2, <1>3, <1>4, WhichSettle DEF Moving
<1>7. OneAtATime'
  BY <1>2, <1>3 DEF OneAtATime
<1>8. ButtonInv' /\ TimerInv'
  BY <1>2, <1>5 DEF registers, frame, SettledInv, ButtonInv, TimerInv
<1>9. ClosingInv'
  BY <1>2, <1>3, <1>4, WhichSettle DEF ClosingInv
<1>10. NewsInv'
  <2>1. \A s \in Side : num[s] # 0 => isNew[s] \/ num[s] \in reported
    BY <1>2, <1>5, WhichSettle DEF SettledInv, NewsInv
  <2>2. act'["proto"].ops # Flag2
    BY <1>2, <1>3, <1>4, WhichSettle
  <2>3. QED
    BY <2>1, <2>2 DEF registers, NewsInv
<1>11. QED
  BY <1>7, <1>8, <1>9, <1>10 DEF SettledInv

LEMMA OtherSettled ==
  ASSUME SettledInv, MayBegin("gui") \/ MayBegin("proto"),
         UNCHANGED <<registers, button, act, reported>>,
         \/ UNCHANGED <<timer, paused>>
         \/ \A s \in Side : paused'[s]
  PROVE  SettledInv'
<1>1. SUFFICES ASSUME ~overlapped' PROVE SettledInv'
  BY DEF SettledInv, OneAtATime, ButtonInv, ClosingInv, TimerInv, NewsInv
<1>2. ~overlapped /\ act["gui"].ops = << >> /\ act["proto"].ops = << >>
  BY <1>1, BeginsAlone
<1>3. \A s \in Side : (Settled(s)' <=> Settled(s)) /\ (Moving(s)' <=> Moving(s))
  BY DEF Settled, Moving
<1>4. OneAtATime' /\ ButtonInv' /\ ClosingInv'
  BY <1>2, <1>3 DEF SettledInv, OneAtATime, ButtonInv, ClosingInv, registers
<1>5. TimerInv'
  BY <1>2, <1>3 DEF SettledInv, TimerInv, registers
<1>6. NewsInv'
  BY <1>2, <1>3 DEF SettledInv, NewsInv, registers, Got
<1>7. QED
  BY <1>4, <1>5, <1>6 DEF SettledInv

\* An access of a handler that is alone: the other actor is and stays idle.
Alone(a) ==
    /\ ~overlapped /\ ~overlapped'
    /\ Actors = {"gui", "proto"}
    /\ Goes(a, act'[a].ops) /\ GoesOn(act[a].ops, act'[a].ops) /\ act[a].ops # << >>
    /\ \A b \in Actors : b # a => act[b].ops = << >> /\ act'[b].ops = << >>

LEMMA AccessAlone ==
  ASSUME TypeOK, ProgramInv, SettledInv, NEW a \in Actors, Access(a), ~overlapped'
  PROVE  Alone(a) /\ OneAtATime'
<1>1. overlapped' = overlapped
  BY DEF Access, TestOpen, TestLimited, LoadLess1, Store, Change, DieLate, TestZero, SwitchOff,
         PutNum, MarkNew, GetNum, ResetNew, TestNew, SendFlag, SendImage
<1>2. Goes(a, act'[a].ops) /\ GoesOn(act[a].ops, act'[a].ops) /\ act[a].ops # << >>
  BY AccessGoes
<1>3. \A b \in Actors : b # a => act[b].ops = << >>
  BY <1>1, <1>2, GoesAlone
<1>4. QED
  BY <1>1, <1>2, <1>3 DEF Alone, Goes, OneAtATime, Actors

\* Then it alone decides which sides are settled, before and after.
LEMMA SettledAlone ==
  ASSUME NEW a \in Actors, Alone(a), NEW s
  PROVE  /\ Settled(s) <=> (act[a].ops \in Settling => act[a].side[1] # s[1])
         /\ Settled(s)' <=> (act'[a].ops \in Settling => act[a].side[1] # s[1])
<1>1. \A b \in Actors : b # a => act[b].ops \notin Settling /\ act'[b].ops \notin Settling
  BY WhichSettle DEF Alone
<1>2. Settled(s) <=> (act[a].ops \in Settling => act[a].side[1] # s[1])
  BY <1>1 DEF Settled
<1>3. Settled(s)' <=> (act'[a].ops \in Settling => act'[a].side[1] # s[1])
  BY <1>1 DEF Settled
<1>4. act'[a].ops \in Settling => act'[a].side = act[a].side
  BY WhichSettle DEF Alone, Goes
<1>5. QED
  BY <1>2, <1>3, <1>4

-----------------------------------------------------------------------------
\* The passage of a side: its button and its timer.
PassageInv == ButtonInv /\ TimerInv /\ ClosingInv

\* Accesses that leave the passages alone, but for what a test finds.
LEMMA SamePassage ==
  ASSUME TypeOK, ProgramInv, SettledInv, NEW a \in Actors, Alone(a),
         UNCHANGED <<state, button, timer, paused>>,
         act[a].ops \in Settling => act'[a].ops \in Settling,
         act'["gui"].ops = Pass1 => state[act'["gui"].side] = 0
  PROVE  PassageInv'
<1>1. \A s \in Side : Settled(s)' => Settled(s)
  BY SettledAlone
<1>2. ButtonInv' /\ TimerInv'
  BY <1>1 DEF Alone, SettledInv, ButtonInv, TimerInv
<1>3. QED
  BY <1>2 DEF PassageInv, ClosingInv

LEMMA StorePassage ==
  ASSUME TypeOK, ProgramInv, SettledInv, NEW a \in Actors, Alone(a), Store(a)
  PROVE  PassageInv'
<1>1. act[a].ops \in {Pass4, Write2}
  BY AtAccess DEF Store, GuiAt, ProtoAt, Alone
<1>2. act'[a].ops \in {Pass3, Write1}
  BY <1>1, Done1Goes, Programs
  DEF Store, Goes, Accesses, PassAccesses, WriteAccesses, Is
<1>3. act[a].ops \in Settling /\ act'[a].ops \in Settling
  BY <1>1, <1>2 DEF Settling
<1>4. \A s \in Side : Settled(s)' => Settled(s) /\ state'[s] = state[s]
  BY <1>3, SettledAlone DEF Store, TypeOK
<1>5. ButtonInv' /\ TimerInv'
  BY <1>4 DEF Alone, SettledInv, ButtonInv, TimerInv, Store, frame, ghosts
<1>6. act'["gui"].ops # Pass1
  <2>1. Pass3 # Pass1 /\ Write1 # Pass1 /\ << >> # Pass1
    BY Programs DEF Accesses, PassAccesses, WriteAccesses, Is
  <2>2. QED
    BY <1>2, <2>1 DEF Alone
<1>7. QED
  BY <1>5, <1>6 DEF PassageInv, ClosingInv

LEMMA ChangePassage ==
  ASSUME TypeOK, ProgramInv, SettledInv, NEW a \in Actors, Alone(a), Change(a)
  PROVE  PassageInv'
<1>1. PICK t : /\ Changed(a, t)
               /\ \/ act[a].ops \in {Pass3, Write1} /\ t = act[a].side[1]
                  \/ act[a].ops \in {Indicate1, IndicateWrite, IndicateDie}
  BY AtAccess DEF Change, GuiAt, ProtoAt, Alone
<1>2. {Indicate1, IndicateWrite, IndicateDie} \cap Settling = {}
  BY WhichSettle
<1>3. /\ state' = state
      /\ \A s \in Side : button'[s] = IF s[1] = t THEN state[s] # 0 ELSE button[s]
      /\ \A s \in Side : timer'[s] = (timer[s] \/ (s[1] = t /\ Counted(state[s])))
      /\ \A s \in Side : paused'[s] = (paused[s] /\ s[1] # t)
  BY <1>1 DEF Change, Changed, registers
<1>4. \A s \in Side : s[1] # t /\ Settled(s)' => Settled(s)
  BY <1>1, <1>2, SettledAlone
<1>5. ButtonInv'
  BY <1>3, <1>4 DEF Alone, SettledInv, ButtonInv
<1>6. TimerInv'
  BY <1>3, <1>4 DEF Alone, SettledInv, TimerInv
<1>7. act'["gui"].ops # Pass1
  <2>1. CASE a = "gui"
    <3>1. act["gui"].ops \in {Pass3, Write1} /\ Next1("gui", "change")
      BY <2>1, AtAccess DEF Change, GuiAt
    <3>2. Tail(act["gui"].ops) \in {Pass2, << >>} /\ Pass2 # Pass1 /\ << >> # Pass1
      <4>1. /\ Tail(Pass3) = Pass2 /\ Tail(Write1) = << >>
            /\ Len(Pass2) = 2 /\ Len(Pass1) = 1
        BY Programs DEF Accesses, PassAccesses, WriteAccesses, Is
      <4>2. << >> # Pass1
        BY WhichSettle
      <4>3. CASE act["gui"].ops = Pass3
        BY <4>1, <4>2, <4>3
      <4>4. CASE act["gui"].ops = Write1
        BY <4>1, <4>2, <4>4
      <4>5. QED
        BY <3>1, <4>3, <4>4
    <3>3. act'["gui"].ops = Tail(act["gui"].ops)
      BY <1>1, <2>1, <3>1, Done1Goes DEF Changed, Goes
    <3>4. QED
      BY <3>2, <3>3
  <2>2. QED
    BY <2>1, WhichSettle DEF Alone
<1>8. QED
  BY <1>5, <1>6, <1>7 DEF PassageInv, ClosingInv

LEMMA SwitchOffPassage ==
  ASSUME TypeOK, ProgramInv, SettledInv, NEW a \in Actors, Alone(a), SwitchOff(a)
  PROVE  PassageInv'
<1>1. a = "gui" /\ act["gui"].ops \in {Pass1, Timer4} /\ act["gui"].side \in Side
  BY AtAccess DEF SwitchOff, GuiAt, ProtoAt, Alone, ProgramInv
<1>2. act'["gui"].ops = Tail(act["gui"].ops)
  BY <1>1, Done1Goes DEF SwitchOff, Goes
<1>3. /\ UNCHANGED <<state, paused>>
      /\ \A s \in Side : button'[s] = IF s = act["gui"].side THEN FALSE ELSE button[s]
      /\ \A s \in Side : timer'[s] = IF s = act["gui"].side THEN FALSE ELSE timer[s]
  BY <1>1 DEF SwitchOff, registers, ghosts, TypeOK
<1>4. Pass1 \notin Settling /\ Timer4 \notin Settling /\ Timer3 \in Settling /\ Timer3 # Pass1
      /\ Tail(Pass1) = << >> /\ Tail(Timer4) = Timer3 /\ << >> # Pass1
  <2>1. /\ Tail(Pass1) = << >> /\ Tail(Timer4) = Timer3
        /\ Len(Pass1) = 1 /\ Len(Timer3) = 3 /\ Head(Pass1) = "disable"
    BY Programs DEF Accesses, PassAccesses, WriteAccesses, Is
  <2>2. \A p \in Settling : Head(p) # "disable"
    BY Programs DEF Settling, Accesses, PassAccesses, WriteAccesses, Is
  <2>3. Timer4 \notin Settling /\ << >> # Pass1
    BY WhichSettle
  <2>4. Timer3 \in Settling
    BY DEF Settling
  <2>5. QED
    BY <2>1, <2>2, <2>3, <2>4
<1>5. \A s \in Side : Settled(s)
  BY <1>1, <1>4, SettledAlone
<1>6. CASE act["gui"].ops = Pass1
  <2>1. state[act["gui"].side] = 0
    BY <1>6 DEF Alone, SettledInv, ClosingInv
  <2>2. ~Counted(0)
    BY DEF Counted
  <2>3. ButtonInv' /\ TimerInv'
    BY <1>3, <1>5, <2>1, <2>2 DEF Alone, SettledInv, ButtonInv, TimerInv
  <2>4. QED
    BY <1>2, <1>4, <1>6, <2>3 DEF PassageInv, ClosingInv
<1>7. CASE act["gui"].ops = Timer4
  <2>1. \A s \in Side : Settled(s)' => s # act["gui"].side
    BY <1>1, <1>2, <1>4, <1>7, SettledAlone
  <2>2. ButtonInv' /\ TimerInv'
    BY <1>3, <1>5, <2>1 DEF Alone, SettledInv, ButtonInv, TimerInv
  <2>3. QED
    BY <1>2, <1>4, <1>7, <2>2 DEF PassageInv, ClosingInv
<1>8. QED
  BY <1>1, <1>6, <1>7

\* From a handler's last but one access to the one that closes the passage.
LEMMA ClosesGoesOn ==
  ASSUME NEW p, p \in GuiPrograms, NEW q, GoesOn(p, q), q = Pass1
  PROVE  p = Pass2
<1>1. Len(Pass1) = 1 /\ Head(Pass1) = "disable"
  BY Programs DEF Accesses, PassAccesses, Is
<1>2. << >> # Pass1 /\ Pass2 # Pass1 /\ Flag1 # Pass1
  BY Programs DEF Accesses, PassAccesses, CardAccesses, Is
<1>3. q = Tail(p)
  BY <1>2 DEF GoesOn
<1>4. ASSUME p \in PassPrograms, p # Pass2
      PROVE  Tail(p) = << >> \/ Head(Tail(p)) # "disable"
  BY <1>4, Programs DEF PassPrograms, Accesses, PassAccesses, Is
<1>5. ASSUME p \in {Timer4, Timer3, Write2, Write1, Show2, Show1}
      PROVE  Tail(p) = << >> \/ Head(Tail(p)) # "disable"
  BY <1>5, Programs DEF Accesses, WriteAccesses, CardAccesses, Is
<1>6. q # << >> /\ Head(q) = "disable"
  BY <1>1, <1>2
<1>7. QED
  BY <1>3, <1>4, <1>5, <1>6 DEF GuiPrograms

LEMMA PassageStep ==
  ASSUME TypeOK, ProgramInv, SettledInv, NEW a \in Actors, Access(a), Alone(a)
  PROVE  PassageInv'
<1>1. CASE Store(a) \/ Change(a) \/ SwitchOff(a)
  BY <1>1, StorePassage, ChangePassage, SwitchOffPassage
<1>2. CASE ~(Store(a) \/ Change(a) \/ SwitchOff(a))
  <2>1. UNCHANGED <<state, button, timer, paused>>
    BY <1>2 DEF Access, registers, frame, ghosts, TestOpen, TestLimited, LoadLess1, DieLate, TestZero,
                PutNum, MarkNew, GetNum, ResetNew, TestNew, SendFlag, SendImage
  <2>2. PICK op : /\ Next1(a, op) /\ op \notin {"store", "change"}
                  /\ op = "testZero" => TestZero(a)
    BY <1>2 DEF Access, TestOpen, TestLimited, LoadLess1, DieLate, TestZero,
                PutNum, MarkNew, GetNum, ResetNew, TestNew, SendFlag, SendImage
  <2>3. ASSUME act[a].ops \in Settling
        PROVE  act'[a].ops \in Settling
    <3>1. act[a].ops \notin {Pass4, Pass3, Write2, Write1}
      BY <2>2, Programs DEF Next1, Accesses, PassAccesses, WriteAccesses, Is
    <3>2. act[a].ops \in {Pass5, Timer3}
      BY <2>3, <3>1 DEF Settling
    <3>3. /\ Tail(Pass5) = Pass4 /\ Tail(Timer3) = Write2
          /\ Head(Pass5) = "load" /\ Head(Timer3) = "load" /\ Head(Pass7) = "testOpen"
          /\ Head(Pass6) = "testLimited" /\ Head(Pass2) = "testZero" /\ Head(Flag4) = "testNew"
      BY Programs DEF Accesses, PassAccesses, WriteAccesses, CardAccesses, Is
    <3>4. act'[a].ops \in {Pass4, Write2}
      <4>1. act[a].ops \notin {Pass7, Pass6, Pass2, Flag4}
        <5>1. Head(act[a].ops) = "load"
          BY <3>2, <3>3
        <5>2. QED
          BY <3>3, <5>1
      <4>2. act'[a].ops = Tail(act[a].ops)
        BY <4>1 DEF Alone, GoesOn
      <4>3. QED
        BY <3>2, <3>3, <4>2
    <3>5. QED
      BY <3>4 DEF Settling
  <2>4. ASSUME act'["gui"].ops = Pass1
        PROVE  state[act'["gui"].side] = 0
    <3>1. a = "gui" /\ Pass1 # << >>
      BY <2>4, WhichSettle DEF Alone
    <3>2. act["gui"].ops = Pass2
      BY <2>4, <3>1, ClosesGoesOn DEF Alone, ProgramInv
    <3>3. op = "testZero" /\ TestZero("gui")
      BY <2>2, <3>1, <3>2, Programs DEF Next1, Accesses, PassAccesses, Is
    <3>4. act'["gui"].side = act["gui"].side
      BY <2>4, <3>1 DEF Alone, Goes
    <3>5. state[act["gui"].side] = 0
      <4>1. SUFFICES ASSUME Then("gui", << >>) PROVE FALSE
        BY <3>3 DEF TestZero
      <4>2. act'["gui"].ops = << >>
        BY <3>1, <4>1, ThenGoes, Programs DEF Goes, Accesses
      <4>3. QED
        BY <2>4, <3>1, <4>2
    <3>6. QED
      BY <3>4, <3>5
  <2>5. QED
    BY <2>1, <2>3, <2>4, SamePassage
<1>3. QED
  BY <1>1, <1>2

-----------------------------------------------------------------------------
(* The news of a card. *)

\* Where a handler that is alone is, that moves a card.
LEMMA MovingAlone ==
  ASSUME NEW a \in Actors, Alone(a), NEW s
  PROVE  /\ Moving(s) <=> /\ act[a].side = s
                          /\ \/ a = "gui" /\ act[a].ops = Show1
                             \/ a = "proto" /\ act[a].ops \in {Image6, Image5, Image4, Image3}
         /\ Moving(s)' <=> /\ act[a].side = s
                           /\ \/ a = "gui" /\ act'[a].ops = Show1
                              \/ a = "proto" /\ act'[a].ops \in {Image6, Image5, Image4, Image3}
<1>1. act'[a].ops = Show1 \/ act'[a].ops \in {Image6, Image5, Image4, Image3}
        => act'[a].side = act[a].side
  BY WhichSettle DEF Alone, Goes
<1>2. CASE a = "gui"
  <2>1. act["proto"].ops = << >> /\ act'["proto"].ops = << >>
    BY <1>2 DEF Alone
  <2>2. QED
    BY <1>1, <1>2, <2>1, WhichSettle DEF Moving
<1>3. CASE a = "proto"
  <2>1. act["gui"].ops = << >> /\ act'["gui"].ops = << >>
    BY <1>3 DEF Alone
  <2>2. QED
    BY <1>1, <1>3, <2>1, WhichSettle DEF Moving
<1>4. QED
  BY <1>2, <1>3 DEF Alone

\* Every card is news but the one that is moved, or that a flag is sent of.
Told(s) == isNew[s] \/ num[s] \in reported

LEMMA GuiNews ==
  ASSUME TypeOK, ProgramInv, SettledInv, Access("gui"), Alone("gui")
  PROVE  NewsInv'
<1>1. /\ "gui" \in Actors /\ act["proto"].ops = << >> /\ act'["proto"].ops = << >>
      /\ act["gui"].side \in Side /\ ~overlapped
  BY DEF Alone, ProgramInv, Actors
<1>2. \A s \in Side : num[s] # 0 /\ ~Moving(s) => Told(s)
  BY <1>1, WhichSettle DEF SettledInv, NewsInv, Told
<1>3. SUFFICES ASSUME NEW s \in Side, num'[s] # 0, ~Moving(s)' PROVE Told(s)'
  BY <1>1, WhichSettle DEF NewsInv, Told
<1>4. CASE PutNum("gui")
  <2>1. act["gui"].ops = Show2 /\ Next1("gui", "putNum")
    BY <1>4, AtAccess DEF PutNum, GuiAt
  <2>2. act'["gui"].ops = Show1
    BY <1>1, <1>4, <2>1, Done1Goes, Programs DEF PutNum, Goes, Accesses, CardAccesses, Is
  <2>3. s # act["gui"].side
    BY <1>1, <1>3, <2>2, MovingAlone
  <2>4. num'[s] = num[s] /\ isNew' = isNew /\ reported' = reported
    BY <1>4, <2>3 DEF PutNum, ghosts, TypeOK
  <2>5. ~Moving(s)
    BY <1>1, <2>3, MovingAlone
  <2>6. QED
    BY <1>2, <1>3, <2>4, <2>5 DEF Told
<1>5. CASE MarkNew("gui")
  <2>1. /\ \A t \in Side : isNew'[t] = (t = act["gui"].side \/ isNew[t])
        /\ num' = num /\ reported' = reported
    BY <1>5 DEF MarkNew, ghosts, TypeOK
  <2>2. CASE s = act["gui"].side
    BY <2>1, <2>2 DEF Told
  <2>3. CASE s # act["gui"].side
    BY <1>1, <1>2, <1>3, <2>1, <2>3, MovingAlone DEF Told
  <2>4. QED
    BY <2>2, <2>3
<1>6. CASE ~PutNum("gui") /\ ~MarkNew("gui")
  <2>1. PICK op : Next1("gui", op) /\ op \notin {"putNum", "markNew"}
    BY <1>6 DEF Access, TestOpen, TestLimited, LoadLess1, Store, Change, DieLate, TestZero,
                SwitchOff, GetNum, ResetNew, TestNew, SendFlag, SendImage
  <2>2. UNCHANGED <<num, isNew, reported>>
    <3>1. ~ResetNew("gui") /\ ~SendFlag("gui") /\ ~SendImage("gui")
      BY AtAccess DEF ResetNew, SendFlag, SendImage, GuiAt
    <3>2. QED
      BY <1>6, <3>1 DEF Access, TestOpen, TestLimited, LoadLess1, Store, Change, DieLate, TestZero,
                SwitchOff, GetNum, TestNew, registers, ghosts
  <2>3. act["gui"].ops # Show1
    BY <2>1, Programs DEF Next1, Accesses, CardAccesses, Is
  <2>4. ~Moving(s)
    BY <1>1, <2>3, MovingAlone
  <2>5. QED
    BY <1>2, <1>3, <2>2, <2>4 DEF Told
<1>7. QED
  BY <1>4, <1>5, <1>6

LEMMA ProtoNews ==
  ASSUME TypeOK, ProgramInv, SettledInv, Access("proto"), Alone("proto")
  PROVE  NewsInv'
<1>1. /\ "proto" \in Actors /\ act["gui"].ops = << >> /\ act'["gui"].ops = << >> /\ ~overlapped
      /\ Goes("proto", act'["proto"].ops) /\ act["proto"].ops # << >>
  BY DEF Alone, Actors
<1>2. \A s \in Side : num[s] # 0 /\ ~Moving(s) =>
         Told(s) \/ (act["proto"].ops = Flag1 /\ act["proto"].side = s /\ num[s] = Got)
  BY <1>1 DEF SettledInv, NewsInv, Told
<1>3. ASSUME NEW op, Next1("proto", op), Done1("proto")
      PROVE  act'["proto"].ops = Tail(act["proto"].ops)
  BY <1>1, <1>3, Done1Goes DEF Goes
<1>4. CASE GetNum("proto")
  <2>1. act["proto"].ops \in {Flag3, Image7, Image5} /\ act["proto"].side \in Side
    BY <1>4, AtAccess DEF GetNum, ProtoAt, ProgramInv, SidePrograms, CardPrograms
  <2>2. /\ UNCHANGED <<num, isNew, reported>> /\ Got' = num[act["proto"].side]
        /\ act'["proto"].side = act["proto"].side /\ act'["proto"].ops = Tail(act["proto"].ops)
    BY <1>1, <1>4 DEF GetNum, Got, TypeOK, registers, ghosts
  <2>3. \/ /\ act["proto"].ops # Flag1
           /\ act["proto"].ops \notin {Image6, Image5, Image4, Image3}
        \/ act["proto"].ops = Image5
    BY <2>1, Programs DEF Accesses, CardAccesses, Is
  <2>4. act["proto"].ops = Image5 => act'["proto"].ops \in {Image6, Image5, Image4, Image3}
    BY <2>2, Programs DEF Accesses, CardAccesses, Is
  <2>5. Image5 # Flag1
    BY Programs DEF Accesses, CardAccesses, Is
  <2>6. ASSUME NEW s \in Side, num[s] # 0, ~Moving(s)'
        PROVE  Told(s)
    <3>1. ~Moving(s)
      BY <1>1, <2>3, <2>4, <2>6, MovingAlone
    <3>2. QED
      BY <1>2, <2>3, <2>5, <2>6, <3>1
  <2>7. QED
    BY <2>2, <2>6 DEF NewsInv, Told
<1>5. CASE ResetNew("proto")
  <2>1. /\ act["proto"].ops \in {Flag2, Image6, Image4} /\ act["proto"].side \in Side
        /\ Next1("proto", "resetNew") /\ Done1("proto")
    BY <1>5, AtAccess DEF ResetNew, ProtoAt, ProgramInv, SidePrograms, CardPrograms
  <2>2. /\ Tail(Flag2) = Flag1 /\ Tail(Image6) = Image5 /\ Tail(Image4) = Image3
        /\ Head(Flag2) = "resetNew" /\ Head(Image6) = "resetNew" /\ Head(Image4) = "resetNew"
        /\ Head(Flag1) = "sendFlag" /\ Head(Image5) = "getNum" /\ Head(Image3) = "clearNum"
        /\ Flag1 # << >> /\ Image5 # << >> /\ Image3 # << >>
    BY Programs DEF Accesses, CardAccesses, Is
  <2>3. act'["proto"].ops = Tail(act["proto"].ops)
    BY <1>3, <2>1
  <2>4. act'["proto"].ops \in {Flag1, Image5, Image3}
    BY <2>1, <2>2, <2>3
  <2>5. act'["proto"].ops # << >> /\ act'["proto"].ops # Flag2 /\ act["proto"].ops # Flag1
    <3>1. /\ Head(act'["proto"].ops) \in {"sendFlag", "getNum", "clearNum"}
          /\ Head(act["proto"].ops) = "resetNew"
      BY <2>1, <2>2, <2>4
    <3>2. QED
      BY <2>2, <2>4, <3>1
  <2>6. Got' = Got /\ act'["proto"].side = act["proto"].side
    BY <1>1, <2>1, <2>3, <2>5, Done1Goes DEF Goes, Got
  <2>7. /\ \A s \in Side : isNew'[s] = (s # act["proto"].side /\ isNew[s])
        /\ UNCHANGED <<num, reported>>
    BY <1>5 DEF ResetNew, ghosts, TypeOK
  <2>8. ASSUME NEW s \in Side, num[s] # 0, ~Moving(s)'
        PROVE  Told(s)' \/ (act'["proto"].ops = Flag1 /\ act'["proto"].side = s /\ num[s] = Got)
    <3>1. CASE s # act["proto"].side
      <4>1. ~Moving(s)
        BY <1>1, <3>1, MovingAlone
      <4>2. QED
        BY <1>2, <2>7, <2>8, <3>1, <4>1 DEF Told
    <3>2. CASE s = act["proto"].side
      <4>1. act'["proto"].ops = Flag1
        BY <1>1, <2>4, <2>8, <3>2, MovingAlone
      <4>2. act["proto"].ops = Flag2
        <5>1. act["proto"].ops = Image6 => Head(act'["proto"].ops) = "getNum"
          BY <2>2, <2>3
        <5>2. act["proto"].ops = Image4 => Head(act'["proto"].ops) = "clearNum"
          BY <2>2, <2>3
        <5>3. QED
          BY <2>1, <2>2, <4>1, <5>1, <5>2
      <4>3. num[act["proto"].side] = Got
        BY <1>1, <4>2 DEF SettledInv, NewsInv
      <4>4. QED
        BY <2>6, <3>2, <4>1, <4>3
    <3>3. QED
      BY <3>1, <3>2
  <2>9. QED
    BY <2>5, <2>6, <2>7, <2>8 DEF NewsInv, Told
<1>6. CASE PutNum("proto")
  <2>1. /\ act["proto"].ops = Image3 /\ Head(Image3) = "clearNum" /\ Tail(Image3) = Image2
        /\ Next1("proto", "clearNum") /\ act["proto"].side \in Side
    BY <1>6, AtAccess, Programs
    DEF PutNum, ProtoAt, ProgramInv, SidePrograms, CardPrograms, Accesses, CardAccesses, Is
  <2>2. /\ \A s \in Side : num'[s] = IF s = act["proto"].side THEN 0 ELSE num[s]
        /\ UNCHANGED <<isNew, reported>> /\ Done1("proto")
    BY <1>6, <2>1 DEF PutNum, ghosts, TypeOK
  <2>3. act'["proto"].ops = Image2
    BY <1>3, <2>1, <2>2
  <2>4. Image2 # Flag2 /\ Image3 # Flag1
    BY Programs DEF Accesses, CardAccesses, Is
  <2>5. ASSUME NEW s \in Side, num'[s] # 0
        PROVE  Told(s)'
    <3>1. s # act["proto"].side /\ num'[s] = num[s]
      BY <2>2, <2>5
    <3>2. ~Moving(s)
      BY <1>1, <3>1, MovingAlone
    <3>3. QED
      BY <1>2, <2>1, <2>2, <2>4, <2>5, <3>1, <3>2 DEF Told
  <2>6. QED
    BY <2>3, <2>4, <2>5 DEF NewsInv, Told
<1>7. CASE ~GetNum("proto") /\ ~ResetNew("proto") /\ ~PutNum("proto")
  <2>1. PICK op : /\ Next1("proto", op)
                  /\ op \notin {"getNum", "resetNew", "clearNum"}
                  /\ op = "sendFlag" => SendFlag("proto")
    BY <1>7, AtAccess DEF Access, TestOpen, TestLimited, LoadLess1, Store, Change, DieLate, TestZero,
                SwitchOff, MarkNew, TestNew, SendFlag, SendImage, PutNum, ProtoAt
  <2>2. /\ num' = num /\ reported \subseteq reported'
        /\ \A s \in Side : isNew[s] => isNew'[s]
    BY <1>7 DEF Access, TestOpen, TestLimited, LoadLess1, Store, Change, DieLate, TestZero,
                SwitchOff, MarkNew, TestNew, SendFlag, SendImage, registers, ghosts, TypeOK
  <2>3. act["proto"].ops \notin {Flag3, Flag2, Image7, Image6, Image5, Image4, Image3}
    BY <2>1, Programs DEF Next1, Accesses, CardAccesses, Is
  <2>4. \A s \in Side : ~Moving(s)
    BY <1>1, <2>3, MovingAlone
  <2>5. act["proto"].ops = Flag1 => Got \in reported' \cup {0}
    <3>1. ASSUME act["proto"].ops = Flag1
          PROVE  Got \in reported' \cup {0}
      <4>1. SendFlag("proto")
        BY <2>1, <3>1, Programs DEF Next1, Accesses, CardAccesses, Is
      <4>2. QED
        BY <4>1 DEF SendFlag, Got
    <3>2. QED
      BY <3>1
  <2>6. act'["proto"].ops # Flag2
    <3>1. Len(Flag2) = 2 /\ Head(Flag2) = "resetNew"
      BY Programs DEF Accesses, CardAccesses, Is
    <3>2. Pass2 # Flag2 /\ Flag1 # Flag2 /\ << >> # Flag2
      BY Programs DEF Accesses, PassAccesses, CardAccesses, Is
    <3>3. act["proto"].ops \in (SidePrograms \cup NoSidePrograms) \ {Flag3, Image7, Image5, << >>}
      BY <1>1, <2>3 DEF ProgramInv
    <3>4. Tail(act["proto"].ops) = << >> \/ Head(Tail(act["proto"].ops)) # "resetNew"
      <4>1. \A p \in {Flag4, Flag2, Flag1} : Tail(p) = << >> \/ Head(Tail(p)) # "resetNew"
        BY Programs DEF Accesses, CardAccesses, Is
      <4>2. \A p \in {Image6, Image4, Image3, Image2, Image1} :
            Tail(p) = << >> \/ Head(Tail(p)) # "resetNew"
        BY Programs DEF Accesses, CardAccesses, Is
      <4>3. \A p \in {Write2, Write1, IndicateWrite, Indicate1, IndicateDie, Die1} :
              Tail(p) = << >> \/ Head(Tail(p)) # "resetNew"
        BY Programs DEF Accesses, WriteAccesses, Is
      <4>4. QED
        BY <3>3, <4>1, <4>2, <4>3 DEF SidePrograms, NoSidePrograms, CardPrograms
    <3>5. Tail(act["proto"].ops) # Flag2
      BY <3>1, <3>2, <3>4
    <3>6. QED
      BY <3>2, <3>5 DEF Alone, GoesOn
  <2>7. \A s \in Side : num[s] # 0 => Told(s)'
    BY <1>2, <2>2, <2>4, <2>5 DEF Told
  <2>8. QED
    BY <2>2, <2>6, <2>7 DEF NewsInv, Told
<1>8. QED
  BY <1>4, <1>5, <1>6, <1>7

-----------------------------------------------------------------------------
LEMMA SettledStep ==
  ASSUME TypeOK, ProgramInv, SettledInv, [Next]_vars
  PROVE  SettledInv'
<1>1. Actors = {"gui", "proto"}
  BY DEF Actors
<1>2. ASSUME NEW s \in Side, ShowCard(s) \/ PassThrough(s) \/ TimerFires(s)
      PROVE  SettledInv'
  <2>1. PICK ops \in {Show2, Pass7, Timer4} : Starts("gui", s, ops)
    BY <1>2, OperatorStarts
  <2>2. UNCHANGED <<registers, frame, reported, paused>>
    BY <1>2 DEF ShowCard, PassThrough, TimerFires, ghosts
  <2>3. QED
    BY <1>1, <2>1, <2>2, StartsSettled
<1>3. CASE StartService \/ StopService
  BY <1>3, OtherSettled DEF StartService, StopService, frame, ghosts
<1>4. CASE Host
  <2>1. UNCHANGED <<registers, frame, reported, paused>>
    BY <1>4, HostLeaves DEF HostLeavesThem
  <2>2. CASE MayBegin("proto") /\ UNCHANGED act
    BY <2>1, <2>2, OtherSettled DEF frame
  <2>3. ASSUME NEW side, NEW ops, Requests(side, ops)
        PROVE  SettledInv'
    <3>1. ops \in {Flag4, Image7, Write2, Indicate1, IndicateWrite, IndicateDie}
      BY <2>3 DEF Requests
    <3>2. QED
      BY <1>1, <2>1, <2>3, <3>1, StartsSettled DEF Requests
  <2>4. QED
    BY <1>4, <2>2, <2>3, HostStarts
<1>5. ASSUME NEW a \in Actors, Access(a)
      PROVE  SettledInv'
  <2>1. SUFFICES ASSUME ~overlapped' PROVE SettledInv'
    BY DEF SettledInv, OneAtATime, ButtonInv, ClosingInv, TimerInv, NewsInv
  <2>2. Alone(a) /\ OneAtATime'
    BY <1>5, <2>1, AccessAlone
  <2>3. PassageInv'
    BY <1>5, <2>2, PassageStep
  <2>4. NewsInv'
    BY <1>1, <1>5, <2>2, GuiNews, ProtoNews
  <2>5. QED
    BY <2>2, <2>3, <2>4 DEF PassageInv, SettledInv
<1>6. CASE UNCHANGED vars
  <2>1. UNCHANGED <<registers, frame, act, reported, paused, overlapped>>
    BY <1>6 DEF vars, ghosts
  <2>2. \A s \in Side : (Settled(s)' <=> Settled(s)) /\ (Moving(s)' <=> Moving(s))
    BY <2>1 DEF Settled, Moving
  <2>3. QED
    BY <2>1, <2>2
    DEF SettledInv, OneAtATime, ButtonInv, ClosingInv, TimerInv, NewsInv, registers, frame, Got
<1>7. QED
  BY <1>2, <1>3, <1>4, <1>5, <1>6 DEF Next, Operator

-----------------------------------------------------------------------------
LEMMA InitInv == Init => EmulatorInv
<1> SUFFICES ASSUME Init PROVE EmulatorInv
  OBVIOUS
<1>1. 0 \in Word /\ 0 \in Card /\ 0 \in Nat /\ 0 \in 0 .. MaxWrites
  BY EmulatorAssumption DEF Word, Card
<1>2. TypeOK
  <2>1. act \in ActType
    BY IdleType DEF Init, ActType
  <2>2. /\ state \in [Side -> Word] /\ num \in [Side -> Card]
        /\ isNew \in [Side -> BOOLEAN] /\ timer \in [Side -> BOOLEAN]
        /\ button \in [Side -> BOOLEAN] /\ paused \in [Side -> BOOLEAN]
    BY <1>1 DEF Init
  <2>3. delivered \in [1 .. MaxShown -> 0 .. 2]
    BY DEF Init
  <2>4. /\ isGo \in BOOLEAN /\ service \in {"off", "serving", "last", "ended", "dead"} /\ shown \in Card
        /\ writes \in 0 .. MaxWrites /\ reported \subseteq Card /\ overlapped \in BOOLEAN
    BY <1>1 DEF Init
  <2>5. QED
    BY <2>1, <2>2, <2>3, <2>4 DEF TypeOK, ActType
<1>3. /\ act["gui"].ops = << >> /\ act["proto"].ops = << >> /\ Got = 0
  BY DEF Init, Idle, Actors, Got
<1>4. ProgramInv
  BY <1>3, Programs DEF ProgramInv, NoSidePrograms, SidePrograms, CardPrograms, Accesses,
                        WriteAccesses, CardAccesses, Is
<1>5. CardInv
  <2>1. ~PutLater
    BY <1>3, Programs DEF PutLater, Accesses, CardAccesses, Is
  <2>2. QED
    BY <1>3, <2>1 DEF Init, CardInv, CardsShown, OnePlace, GoneWhenSent, Taken
<1>6. SettledInv
  <2>1. OneAtATime /\ ClosingInv
    BY <1>3, WhichSettle DEF OneAtATime, ClosingInv
  <2>2. ButtonInv /\ TimerInv
    BY DEF Init, ButtonInv, TimerInv, Counted
  <2>3. NewsInv
    BY <1>3, WhichSettle DEF Init, NewsInv
  <2>4. QED
    BY <2>1, <2>2, <2>3 DEF SettledInv
<1>7. QED
  BY <1>2, <1>4, <1>5, <1>6 DEF EmulatorInv

LEMMA EmulatorInvHolds == Spec => []EmulatorInv
<1>1. EmulatorInv /\ [Next]_vars => EmulatorInv'
  BY StepType, CardStep, SettledStep DEF EmulatorInv
<1>2. QED
  BY <1>1, InitInv, PTL DEF Spec

\* Whatever the two threads' accesses to the registers find, each register keeps
\* to its values (uTurnDef.pas), and each handler to its program.
THEOREM EmulatorTypes == Spec => []TypeOK
<1>1. EmulatorInv => TypeOK
  BY DEF EmulatorInv
<1>2. QED
  BY <1>1, EmulatorInvHolds, PTL

\* No card's image is sent to the host twice (Deserialize, $101 and $201), though
\* the operator may show the next card between any two of its accesses.
THEOREM ImageIsSentOnce == Spec => []DeliveredOnce
<1>1. EmulatorInv => DeliveredOnce
  <2> SUFFICES ASSUME EmulatorInv, NEW c \in 1 .. MaxShown PROVE delivered[c] <= 1
    BY DEF DeliveredOnce
  <2>1. delivered[c] \in 0 .. 2
    BY DEF EmulatorInv, TypeOK
  <2>2. delivered[c] > 0 => delivered[c] = 1
    BY DEF EmulatorInv, CardInv, GoneWhenSent
  <2>3. QED
    BY <2>1, <2>2
<1>2. QED
  BY <1>1, EmulatorInvHolds, PTL

LEMMA CalmIsSettled ==
  ASSUME Calm, NEW s \in Side
  PROVE  Settled(s) /\ ~Moving(s)
  BY WhichSettle DEF Calm, Quiet, Busy, Settled, Moving, Actors

\* Handlers that met none of the other thread leave every button enabled exactly
\* while its passage may be used (ChangeTurnState, btnInClick, Timer1Timer).
THEOREM ButtonIsRight == Spec => []ButtonTellsState
<1>1. EmulatorInv => ButtonTellsState
  BY CalmIsSettled DEF EmulatorInv, SettledInv, ButtonInv, ButtonTellsState, Calm
<1>2. QED
  BY <1>1, EmulatorInvHolds, PTL

\* They leave the timer of every counted pass running, unless it was stopped with
\* the service (ChangeTurnState, btnGoClick).
THEOREM ExpiryStaysArmed == Spec => []ExpiryIsArmed
<1>1. EmulatorInv => ExpiryIsArmed
  BY CalmIsSettled DEF EmulatorInv, SettledInv, TimerInv, ExpiryIsArmed, Calm
<1>2. QED
  BY <1>1, EmulatorInvHolds, PTL

\* They leave no card that the host neither knows of nor will be told of
\* (SetEnterCardNum, GetEnterCardNum, Deserialize).
THEOREM NewsStaysFlagged == Spec => []NewsIsFlagged
<1>1. EmulatorInv => NewsIsFlagged
  <2> SUFFICES ASSUME EmulatorInv, Calm, NEW s \in Side, num[s] # 0
               PROVE  isNew[s] \/ num[s] \in reported
    BY DEF NewsIsFlagged
  <2>1. act["proto"].ops # Flag1
    BY WhichSettle DEF Calm, Quiet, Busy, Actors
  <2>2. QED
    BY <2>1, CalmIsSettled DEF EmulatorInv, SettledInv, NewsInv, Calm
<1>2. QED
  BY <1>1, EmulatorInvHolds, PTL
=============================================================================
