------------------------------ MODULE Emulator ------------------------------
(***************************************************************************)
(* The turnstile emulator (TurnstileDelphi/emul): the registers of its     *)
(* turnstiles (uTurnDef.pas), the buttons and timers of their frames, run  *)
(* by the main thread (uTurnFrame.pas, uMain.pas), and the protocol thread *)
(* that executes the host's requests (uModbusProtocol.pas).  The two       *)
(* threads share the registers and have no lock.                           *)
(*                                                                         *)
(* Each handler is a sequence of accesses to the registers, and the two    *)
(* threads' accesses interleave: act[a].ops is what actor a has still to   *)
(* do.  A card is the number of its click, 0 is the empty text.  Counters  *)
(* of passes are left out, as nothing here depends on them.                *)
(***************************************************************************)
EXTENDS Naturals, Sequences

CONSTANTS
    Turns,     \* the addresses of the turnstiles, once there are some
    Offset,    \* 100 in the code: indicators answer at address + Offset
    Free,      \* $FFFF in the code: registers are words 0 .. Free
    Written,   \* the words the host writes
    MaxShown,  \* bound: cards shown to the readers
    MaxWrites  \* bound: words the host writes

ASSUME EmulatorAssumption ==
    /\ Turns \subseteq Nat \ {0} /\ Turns # {}
    /\ Offset \in Nat
    /\ Free \in Nat /\ Free >= 2
    /\ Written \subseteq 0 .. Free
    /\ MaxShown \in Nat /\ MaxWrites \in Nat

Directions == {"enter", "exit"}
Side       == Turns \X Directions
Word       == 0 .. Free
Card       == 0 .. MaxShown
Actors     == {"gui", "proto"}

VARIABLES
    state,      \* FEnterState, FExitState
    num,        \* FEnterCardNum, FExitCardNum
    isNew,      \* FIsEnterNew, FIsExitNew
    timer,      \* Timer1.Enabled, Timer2.Enabled
    button,     \* btnIn.Enabled, btnOut.Enabled
    act,        \* what each thread is doing
    isGo,       \* FIsGo
    service,    \* the protocol thread
    shown,      \* ghost: cards shown so far
    writes,     \* ghost: words written so far
    reported,   \* ghost: cards whose flag or image the host was sent
    delivered,  \* ghost: how often the host was sent a card's image, up to 2
    paused,     \* ghost: timers switched off with the service, not since on
    overlapped  \* ghost: a handler has begun while the other thread was in one

registers == <<state, num, isNew>>
frame     == <<timer, button>>
ghosts    == <<shown, writes, reported, delivered, paused>>
vars      == <<registers, frame, act, isGo, service, ghosts, overlapped>>

Ops == {"off", "load", "store", "change", "testOpen", "testLimited", "testZero",
        "disable", "putNum", "testNew", "getNum", "resetNew", "clearNum",
        "markNew", "sendFlag", "sendImage", "indicate", "die"}

\* Where a request may go: to a turnstile, or to its indicator.
Addresses == Turns \cup {t + Offset : t \in Turns}

NoSide == CHOOSE s \in Side : TRUE

Idle == [ops |-> << >>, side |-> NoSide, val |-> 0, got |-> 0]

TypeOK ==
    /\ state \in [Side -> Word]
    /\ num \in [Side -> Card]
    /\ isNew \in [Side -> BOOLEAN]
    /\ timer \in [Side -> BOOLEAN]
    /\ button \in [Side -> BOOLEAN]
    /\ act \in [Actors -> [ops : Seq(Ops), side : Addresses \X Directions,
                          val : Word, got : Card]]
    /\ isGo \in BOOLEAN
    /\ service \in {"off", "serving", "last", "ended", "dead"}
    /\ shown \in Card
    /\ writes \in 0 .. MaxWrites
    /\ reported \subseteq Card
    /\ delivered \in [1 .. MaxShown -> 0 .. 2]
    /\ paused \in [Side -> BOOLEAN]
    /\ overlapped \in BOOLEAN

Init ==
    /\ state = [s \in Side |-> 0]
    /\ num = [s \in Side |-> 0]
    /\ isNew = [s \in Side |-> FALSE]
    /\ timer = [s \in Side |-> FALSE]
    /\ button = [s \in Side |-> FALSE]
    /\ act = [a \in Actors |-> Idle]
    /\ isGo = FALSE
    /\ service = "off"
    /\ shown = 0
    /\ writes = 0
    /\ reported = {}
    /\ delivered = [c \in 1 .. MaxShown |-> 0]
    /\ paused = [s \in Side |-> FALSE]
    /\ overlapped = FALSE

-----------------------------------------------------------------------------
Busy(a) == act[a].ops # << >>

Quiet == \A a \in Actors : ~Busy(a)

\* Actor a begins a handler.
MayBegin(a) ==
    /\ ~Busy(a)
    /\ overlapped' = (overlapped \/ ~Quiet)

Begins(a, side, ops, val) ==
    /\ MayBegin(a)
    /\ act' = [act EXCEPT ![a] = [ops |-> ops, side |-> side, val |-> val,
                                  got |-> 0]]

\* Its next access is op; what it has to do then are the others.
Next1(a, op) == Busy(a) /\ Head(act[a].ops) = op

Then(a, ops) ==
    act' = [act EXCEPT ![a] = IF ops = << >> THEN Idle ELSE [@ EXCEPT !.ops = ops]]

Done1(a) == Then(a, Tail(act[a].ops))

-----------------------------------------------------------------------------
(* The main thread: the programs of its handlers.                          *)

\* btnCardEnterClick, btnCardExitClick: the setter of the text.
ShowCard(s) ==
    /\ shown < MaxShown
    /\ shown' = shown + 1
    /\ Begins("gui", s, <<"putNum", "markNew">>, 0)
    /\ UNCHANGED <<registers, frame, isGo, service, writes, reported, delivered, paused>>

\* btnInClick, btnOutClick: somebody passes.
PassThrough(s) ==
    /\ button[s]
    /\ Begins("gui", s, <<"testOpen", "testLimited", "load", "store", "change",
                          "testZero", "disable">>, 0)
    /\ UNCHANGED <<registers, frame, isGo, service, ghosts>>

\* Timer1Timer, Timer2Timer: a pass nobody used.
TimerFires(s) ==
    /\ timer[s]
    /\ Begins("gui", s, <<"off", "load", "store", "change">>, 0)
    /\ UNCHANGED <<registers, frame, isGo, service, ghosts>>

\* btnGoClick: "Старт" makes a protocol thread, which holds the port until the
\* program ends, as Destroy overrides nothing: a second one does not connect.
StartService ==
    /\ ~isGo
    /\ service = "off"
    /\ MayBegin("gui")
    /\ isGo' = TRUE
    /\ service' = "serving"
    /\ UNCHANGED <<registers, frame, act, ghosts>>

\* "Стоп": the timers stop at once.  Terminate does not wait: the thread ends
\* when it next tests Terminated, so that a request it is executing is executed
\* to the end, and the one it is waiting for in ReadData, the last one, may
\* still come and be executed.
StopService ==
    /\ isGo
    /\ MayBegin("gui")
    /\ isGo' = FALSE
    /\ timer' = [s \in Side |-> FALSE]
    /\ paused' = [s \in Side |-> TRUE]
    /\ service' = IF service # "serving" THEN service
                  ELSE IF Busy("proto") THEN "ended" ELSE "last"
    /\ UNCHANGED <<registers, button, act, shown, writes, reported, delivered>>

-----------------------------------------------------------------------------
(* The protocol thread: Deserialize.                                       *)

Serves == service \in {"serving", "last"} /\ ~Busy("proto")

\* A request begins: after Terminate the thread begins no other.
Served == service' = IF service = "last" THEN "ended" ELSE service

\* Neither a turnstile nor an indicator is at the address: no answer.
Known(addr) == addr \in Turns \/ (addr >= Offset /\ addr - Offset \in Turns)

\* A register of a turnstile that is not in the list: ByAddr is nil, and the
\* access ends the thread.
Dies ==
    /\ MayBegin("proto")
    /\ service' = "dead"
    /\ UNCHANGED <<registers, frame, act, isGo, ghosts>>

\* $100 and $200: is there a new card.  Reading the text for its length resets
\* the flag.
FlagRequest_ResetFirst(addr, d) ==
    /\ Serves /\ Known(addr)
    /\ IF addr \in Turns
       THEN /\ Begins("proto", <<addr, d>>, <<"resetNew", "testNew", "getNum", "sendFlag">>, 0)
            /\ Served
            /\ UNCHANGED <<registers, frame, isGo, ghosts>>
       ELSE Dies

FlagRequest(addr, d) ==
    /\ Serves /\ Known(addr)
    /\ IF addr \in Turns
       THEN /\ Begins("proto", <<addr, d>>, <<"testNew", "getNum", "resetNew", "sendFlag">>, 0)
            /\ Served
            /\ UNCHANGED <<registers, frame, isGo, ghosts>>
       ELSE Dies

\* $101 and $201: the text is read for its length and again for itself, and
\* emptied, which sets the flag.
ImageRequest_NotEmptied(addr, d) ==
    /\ Serves /\ Known(addr)
    /\ IF addr \in Turns
       THEN /\ Begins("proto", <<addr, d>>,
                      <<"getNum", "resetNew", "getNum", "resetNew", "sendImage">>, 0)
            /\ Served
            /\ UNCHANGED <<registers, frame, isGo, ghosts>>
       ELSE Dies

ImageRequest(addr, d) ==
    /\ Serves /\ Known(addr)
    /\ IF addr \in Turns
       THEN /\ Begins("proto", <<addr, d>>,
                      <<"getNum", "resetNew", "getNum", "resetNew",
                        "clearNum", "markNew", "sendImage">>, 0)
            /\ Served
            /\ UNCHANGED <<registers, frame, isGo, ghosts>>
       ELSE Dies

\* $40, $41 and the counters: reading them changes nothing, where there are any.
ReadRequest(addr) ==
    /\ Serves /\ Known(addr)
    /\ addr \notin Turns
    /\ Dies

\* $40 is written: the entrance is set.
EnterRequest(addr, v) ==
    /\ Serves /\ Known(addr)
    /\ addr < Offset
    /\ writes < MaxWrites
    /\ writes' = writes + 1
    /\ Begins("proto", <<addr, "enter">>, <<"store", "change">>, v)
    /\ Served
    /\ UNCHANGED <<registers, frame, isGo, shown, reported, delivered, paused>>

\* Any other register, or any register of an address from Offset on, is taken
\* for an indicator first; only then is $41 looked at: the exit is set.
Indicated(addr) == addr >= Offset /\ addr - Offset \in Turns

IndicatorRequest(addr) ==
    /\ Serves /\ Known(addr)
    /\ IF Indicated(addr)
       THEN /\ Begins("proto", <<addr, "enter">>, <<"indicate">>, 0)
            /\ Served
            /\ UNCHANGED <<registers, frame, isGo, ghosts>>
       ELSE Dies

ExitRequest(addr, v) ==
    /\ Serves /\ Known(addr)
    /\ IF Indicated(addr)
       THEN /\ writes < MaxWrites
            /\ writes' = writes + 1
            /\ Begins("proto", <<addr, "exit">>,
                      <<"indicate">> \o (IF addr \in Turns THEN <<"store", "change">>
                                                            ELSE <<"die">>), v)
            /\ Served
            /\ UNCHANGED <<registers, frame, isGo, shown, reported, delivered, paused>>
       ELSE Dies

-----------------------------------------------------------------------------
(* The accesses, of either thread.                                         *)

\* EnterState <> 0 at the beginning of the click.
TestOpen(a) ==
    /\ Next1(a, "testOpen")
    /\ IF state[act[a].side] # 0 THEN Done1(a) ELSE Then(a, << >>)
    /\ UNCHANGED <<registers, frame, isGo, service, ghosts, overlapped>>

\* EnterState < $FFFF: free pass is not used up.
TestLimited(a) ==
    /\ Next1(a, "testLimited")
    /\ Then(a, IF state[act[a].side] < Free THEN Tail(act[a].ops)
                                           ELSE <<"testZero", "disable">>)
    /\ UNCHANGED <<registers, frame, isGo, service, ghosts, overlapped>>

\* EnterState - 1, in a word.
LoadLess1_Wide(a) ==
    /\ Next1(a, "load")
    /\ act' = [act EXCEPT ![a].ops = Tail(@), ![a].val = state[act[a].side] + Free]
    /\ UNCHANGED <<registers, frame, isGo, service, ghosts, overlapped>>

LoadLess1(a) ==
    /\ Next1(a, "load")
    /\ act' = [act EXCEPT ![a].ops = Tail(@),
                          ![a].val = (state[act[a].side] + Free) % (Free + 1)]
    /\ UNCHANGED <<registers, frame, isGo, service, ghosts, overlapped>>

Store(a) ==
    /\ Next1(a, "store")
    /\ state' = [state EXCEPT ![act[a].side] = act[a].val]
    /\ Done1(a)
    /\ UNCHANGED <<num, isNew, frame, isGo, service, ghosts, overlapped>>

\* ChangeTurnState, called by the setters: buttons follow both registers, and a
\* timer is switched on for every counted pass but $FFFE, never off.
Counted(n) == 0 < n /\ n < Free - 1

Changed_NeverOff(a, t) ==
    /\ button' = [s \in Side |-> button[s] \/ (s[1] = t /\ state[s] # 0)]
    /\ timer' = [s \in Side |-> timer[s] \/ (s[1] = t /\ Counted(state[s]))]
    /\ paused' = [s \in Side |-> paused[s] /\ s[1] # t]
    /\ Done1(a)

Changed_NotTheLast(a, t) ==
    /\ button' = [s \in Side |-> IF s[1] = t THEN state[s] # 0 ELSE button[s]]
    /\ timer' = [s \in Side |-> timer[s] \/ (s[1] = t /\ Counted(state[s]) /\ state[s] # 1)]
    /\ paused' = [s \in Side |-> paused[s] /\ s[1] # t]
    /\ Done1(a)

Changed(a, t) ==
    /\ button' = [s \in Side |-> IF s[1] = t THEN state[s] # 0 ELSE button[s]]
    /\ timer' = [s \in Side |-> timer[s] \/ (s[1] = t /\ Counted(state[s]))]
    /\ paused' = [s \in Side |-> paused[s] /\ s[1] # t]
    /\ Done1(a)

Change(a) ==
    /\ \/ Next1(a, "change") /\ Changed(a, act[a].side[1])
       \/ Next1(a, "indicate") /\ Changed(a, act[a].side[1] - Offset)
    /\ UNCHANGED <<registers, isGo, service, shown, writes, reported, delivered, overlapped>>

\* ByAddr(addr).ExitState, where only the indicator's turnstile exists.
DieLate(a) ==
    /\ Next1(a, "die")
    /\ service' = "dead"
    /\ Then(a, << >>)
    /\ UNCHANGED <<registers, frame, isGo, ghosts, overlapped>>

\* EnterState = 0 at the end of the click ...
TestZero(a) ==
    /\ Next1(a, "testZero")
    /\ IF state[act[a].side] = 0 THEN Done1(a) ELSE Then(a, << >>)
    /\ UNCHANGED <<registers, frame, isGo, service, ghosts, overlapped>>

\* ... switches timer and button off, as the timer does before it counts.
SwitchOff(a) ==
    /\ Next1(a, "disable") \/ Next1(a, "off")
    /\ timer' = [timer EXCEPT ![act[a].side] = FALSE]
    /\ button' = [button EXCEPT ![act[a].side] = FALSE]
    /\ Done1(a)
    /\ UNCHANGED <<registers, isGo, service, ghosts, overlapped>>

\* SetEnterCardNum, SetExitCardNum: the text, then the flag.
PutNum(a) ==
    /\ Next1(a, "putNum") \/ Next1(a, "clearNum")
    /\ num' = [num EXCEPT ![act[a].side] = IF Head(act[a].ops) = "putNum" THEN shown ELSE 0]
    /\ Done1(a)
    /\ UNCHANGED <<state, isNew, frame, isGo, service, ghosts, overlapped>>

MarkNew(a) ==
    /\ Next1(a, "markNew")
    /\ isNew' = [isNew EXCEPT ![act[a].side] = TRUE]
    /\ Done1(a)
    /\ UNCHANGED <<state, num, frame, isGo, service, ghosts, overlapped>>

\* GetEnterCardNum, GetExitCardNum: the text, then the flag is reset.
GetNum(a) ==
    /\ Next1(a, "getNum")
    /\ act' = [act EXCEPT ![a].ops = Tail(@), ![a].got = num[act[a].side]]
    /\ UNCHANGED <<registers, frame, isGo, service, ghosts, overlapped>>

ResetNew(a) ==
    /\ Next1(a, "resetNew")
    /\ isNew' = [isNew EXCEPT ![act[a].side] = FALSE]
    /\ Done1(a)
    /\ UNCHANGED <<state, num, frame, isGo, service, ghosts, overlapped>>

\* IsEnterNew, IsExitNew: without a new card the text is not read.
TestNew(a) ==
    /\ Next1(a, "testNew")
    /\ Then(a, IF isNew[act[a].side] THEN Tail(act[a].ops) ELSE <<"sendFlag">>)
    /\ UNCHANGED <<registers, frame, isGo, service, ghosts, overlapped>>

SendFlag(a) ==
    /\ Next1(a, "sendFlag")
    /\ reported' = reported \cup ({act[a].got} \ {0})
    /\ Done1(a)
    /\ UNCHANGED <<registers, frame, isGo, service, shown, writes, delivered, paused, overlapped>>

SendImage(a) ==
    /\ Next1(a, "sendImage")
    /\ reported' = reported \cup ({act[a].got} \ {0})
    /\ delivered' = [c \in 1 .. MaxShown |->
                       IF c = act[a].got /\ delivered[c] < 2 THEN delivered[c] + 1
                                                             ELSE delivered[c]]
    /\ Done1(a)
    /\ UNCHANGED <<registers, frame, isGo, service, shown, writes, paused, overlapped>>

-----------------------------------------------------------------------------
Operator ==
    \/ \E s \in Side : ShowCard(s) \/ PassThrough(s) \/ TimerFires(s)
    \/ StartService \/ StopService

Host ==
    \E addr \in Addresses :
        \/ \E d \in Directions : FlagRequest(addr, d) \/ ImageRequest(addr, d)
        \/ ReadRequest(addr)
        \/ \E v \in Written : EnterRequest(addr, v) \/ ExitRequest(addr, v)
        \/ IndicatorRequest(addr)

Access(a) ==
    \/ TestOpen(a) \/ TestLimited(a) \/ LoadLess1(a) \/ Store(a)
    \/ Change(a) \/ DieLate(a) \/ TestZero(a) \/ SwitchOff(a)
    \/ PutNum(a) \/ MarkNew(a) \/ GetNum(a) \/ ResetNew(a) \/ TestNew(a)
    \/ SendFlag(a) \/ SendImage(a)

Next == Operator \/ Host \/ \E a \in Actors : Access(a)

Spec == Init /\ [][Next]_vars

-----------------------------------------------------------------------------
\* No handler is under way, and none ever met one of the other thread.
Calm == Quiet /\ ~overlapped

\* The host gets the image of a card once at most, however the operator's
\* clicks and the host's requests interleave.
DeliveredOnce == \A c \in 1 .. MaxShown : delivered[c] <= 1

\* Between handlers the button of a passage is enabled exactly while the passage
\* may be used: nobody passes a closed one, nobody is kept out of an open one.
ButtonTellsState == Calm => \A s \in Side : button[s] <=> state[s] # 0

\* Between handlers every pass that is counted has its timer running, so that it
\* expires, unless the timers were stopped with the service.
ExpiryIsArmed ==
    Calm => \A s \in Side : Counted(state[s]) => timer[s] \/ paused[s]

\* Between handlers a card that the host knows nothing of has its flag set; an
\* answer 0 says "Новых данных нет" (no new data, uModbusProtocol.pas:143).
NewsIsFlagged ==
    Calm => \A s \in Side : num[s] # 0 => isNew[s] \/ num[s] \in reported

\* Only the host opens a passage: what it set is used up, and never grows by
\* itself ("0 - pass closed", "number of valid passes", uController.h:24-26).
OnlyHostOpens ==
    [][\A s \in Side : state'[s] > state[s] => Next1("proto", "store")]_vars
=============================================================================
