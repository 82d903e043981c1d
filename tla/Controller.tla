----------------------------- MODULE Controller ------------------------------
(***************************************************************************)
(* A client of the library at a known address: TfmMain (TurnstileCPP/      *)
(* uMain.cpp) over TController (uController.cpp).  StartRTU and StartTCP   *)
(* open the channel, the setters write the turnstile's registers, SetEnter *)
(* and SetExit read back, GetEnterCount and GetExitCount put a counter     *)
(* together from two reads while the turnstile goes on counting.           *)
(*                                                                         *)
(* A step is one Modbus call.  What a call may come to is what ModbusCall  *)
(* promises: on a bad line it may fail, executed or not, or succeed with   *)
(* the answer to an earlier call of the same function.                     *)
(***************************************************************************)
EXTENDS Naturals, Channel

CONSTANTS
    WordSize,   \* 65536 in the code
    MaxPasses,  \* bound: passes of both directions
    MaxOps      \* bound: operations of the client

ASSUME ControllerAssumption ==
    /\ WordSize \in Nat \ {0, 1}
    /\ MaxPasses \in Nat
    /\ MaxOps \in Nat

Directions == {"enter", "exit"}

\* First register and number of registers of each setting (WriteState's
\* callers).
Place == [
    EnterGreen          |-> [reg |-> \h1000, qty |-> 3],
    EnterRed            |-> [reg |-> \h1003, qty |-> 3],
    ExitGreen           |-> [reg |-> \h1008, qty |-> 3],
    ExitRed             |-> [reg |-> \h1009, qty |-> 3],
    EngineTime          |-> [reg |-> \h48,   qty |-> 1],
    Demo                |-> [reg |-> \h666,  qty |-> 1],
    PassState           |-> [reg |-> \h3000, qty |-> 1],
    AccumulPas          |-> [reg |-> \h3010, qty |-> 1],
    AfterPermissionTime |-> [reg |-> \h3011, qty |-> 1],
    AfterStartPassTime  |-> [reg |-> \h3012, qty |-> 1],
    ControllerSpeed     |-> [reg |-> \h4310, qty |-> 2],
    ScannerSpeed        |-> [reg |-> \h4350, qty |-> 1]]

Settings == DOMAIN Place

Registers_OneMore(s) == Place[s].reg .. Place[s].reg + Place[s].qty

Registers(s) == Place[s].reg .. Place[s].reg + Place[s].qty - 1

AllRegisters == UNION {Registers(s) : s \in Settings}

\* A passage that is open for everybody is 0xFFFF.
Free == WordSize - 1

Nothing == [func |-> "none", qty |-> 0, word |-> 0]
OfRead(w)  == [func |-> "read", qty |-> 1, word |-> w]
OfWrite(q) == [func |-> "write", qty |-> q, word |-> 0]

Underway == {Nothing} \cup {OfRead(w) : w \in 0 .. WordSize - 1}
                      \cup {OfWrite(q) : q \in 1 .. 3}

Counter == [hi : 0 .. WordSize - 1, lo : 0 .. WordSize - 1]

VARIABLES
    FController, \* "new", with no TModbus yet, "open", or "null"
    next,        \* the read an operation makes next, or "idle"
    op,          \* the operation, with its direction
    ModbusError, \* of the last operation, or the Error it handed over
    high,        \* the high word GetEnterCount read, 0 outside of it
    EnterCount,  \* the last counter handed over, of either direction
    rgState,     \* rgEnterState and rgExitState
    passages,    \* turnstile: registers 0x40 and 0x41
    counters,    \* turnstile: registers 0x44 .. 0x47
    holds,       \* turnstile: the setting whose word a register holds
    underway,    \* an answer that has not come yet
    clean,       \* ghost: nothing was under way when the operation began
    before,      \* ghost: the counter when the operation began
    highRead,    \* ghost: the read of the high word succeeded
    confirmed,   \* ghost: settings written with success, and cleanly
    ops,         \* bound: operations so far
    passed       \* bound: passes so far

program   == <<FController, next, op, ModbusError, high, EnterCount, rgState>>
turnstile == <<passages, counters, holds, passed>>
ghosts    == <<clean, before, highRead, confirmed, ops>>
client    == <<program, turnstile, underway, ghosts>>

NoOp == [name |-> "none", dir |-> "enter", to |-> "none"]
Zero == [hi |-> 0, lo |-> 0]

Operations == [name : {"none", "set", "passage", "count", "start"},
               dir : Directions, to : Settings \cup {"none", "eClosed", "eFree"}]

ClientTypeOK ==
    /\ ChannelTypeOK
    /\ FController \in {"new", "null", "open"}
    /\ next \in {"idle", "low", "readback"}
    /\ op \in Operations
    /\ ModbusError \in {"merNone", "merTimeout", "merFuncError", "merCantOpenPort",
                "merAddressError"}
    /\ high \in 0 .. WordSize - 1
    /\ EnterCount \in Counter
    /\ rgState \in [Directions -> {"eClosed", "eFree"}]
    /\ passages \in [Directions -> {0, Free}]
    /\ counters \in [Directions -> Counter]
    /\ holds \in [AllRegisters -> Settings \cup {"factory"}]
    /\ underway \in Underway
    /\ clean \in BOOLEAN
    /\ before \in Counter
    /\ highRead \in BOOLEAN
    /\ confirmed \subseteq Settings
    /\ ops \in Nat
    /\ passed \in Nat

\* TfmMain's constructor.  The TController made there has no TModbus, which no
\* operation looks at: a client starts it before anything else.
ClientInit ==
    /\ ChannelTypeOK
    /\ FController = "new"
    /\ next = "idle"
    /\ op = NoOp
    /\ ModbusError = "merNone"
    /\ high = 0
    /\ EnterCount = Zero
    /\ rgState = [d \in Directions |-> "eClosed"]
    /\ passages = [d \in Directions |-> 0]
    /\ counters = [d \in Directions |-> Zero]
    /\ holds = [r \in AllRegisters |-> "factory"]
    /\ underway = Nothing
    /\ clean = TRUE
    /\ before = Zero
    /\ highRead = FALSE
    /\ confirmed = {}
    /\ ops = 0
    /\ passed = 0

-----------------------------------------------------------------------------
\* What a call may come to when its own answer does not come in time.  It has
\* been executed or not; its answer is lost, or comes later.  Meanwhile the
\* answer under way is dropped by the flush, stays under way, or is taken for
\* the call's own.
TimesOut(own) ==
    LET lost(done, left) == [err |-> "merTimeout", word |-> 0, done |-> done, left |-> left]
    IN  {lost(TRUE, own)} \cup {lost(b, l) : b \in BOOLEAN, l \in {Nothing, underway}}

\* Neither the register nor, for a read, their number is compared.
Mixed(own) ==
    LET fits == underway.func = own.func /\ (own.func = "write" => underway.qty = own.qty)
        taken(done, left) == [err  |-> IF fits THEN "merNone" ELSE "merFuncError",
                              word |-> IF fits THEN underway.word ELSE 0,
                              done |-> done, left |-> left]
    IN  {taken(TRUE, own), taken(TRUE, Nothing), taken(FALSE, Nothing)}

Results(own) ==
    {[err |-> "merNone", word |-> own.word, done |-> TRUE, left |-> l] :
       l \in {Nothing, underway}}
     \cup (IF medium = "good" THEN {} ELSE TimesOut(own))
     \cup (IF underway = Nothing THEN {} ELSE Mixed(own))

\* A client begins an operation.
Begins(o) ==
    /\ next = "idle"
    /\ ops < MaxOps
    /\ ops' = ops + 1
    /\ op' = o
    /\ clean' = (underway = Nothing)
    /\ before' = counters[o.dir]

\* The start failed: every operation first looks whether there is a controller.
NoController(o) ==
    /\ Begins(o)
    /\ FController = "null"
    /\ ModbusError' = "merCantOpenPort"
    /\ UNCHANGED <<channel, medium, FController, next, high, EnterCount, rgState,
                   turnstile, underway, highRead, confirmed>>

-----------------------------------------------------------------------------
\* StartRTU and StartTCP: a new controller opens the channel and identifies the
\* device at its address; a device that says nothing is accepted.
Start ==
    /\ Begins([NoOp EXCEPT !.name = "start"])
    /\ \E e \in {"merNone"} \cup (IF medium = "good" THEN {}
                                  ELSE {"merTimeout", "merFuncError", "merCantOpenPort"}) :
         IF e \in {"merNone", "merTimeout"}
         THEN /\ FController' = "open"
              /\ ModbusError' = IF channel = "rtu" THEN "merNone" ELSE ModbusError
         ELSE FController' = "null" /\ ModbusError' = "merCantOpenPort"
    /\ underway' \in IF channel = "tcp" THEN {Nothing} ELSE {Nothing, underway}
    /\ UNCHANGED <<channel, medium, next, high, EnterCount, rgState, turnstile,
                   highRead, confirmed>>

\* A setter of TfmMain.
Set(s) ==
    /\ Begins([NoOp EXCEPT !.name = "set", !.to = s])
    /\ FController = "open"
    /\ \E o \in Results(OfWrite(Place[s].qty)) :
         /\ ModbusError' = o.err
         /\ underway' = o.left
         /\ holds' = IF o.done THEN [r \in AllRegisters |->
                                       IF r \in Registers(s) THEN s ELSE holds[r]]
                     ELSE holds
         /\ confirmed' = IF o.err = "merNone" /\ underway = Nothing
                         THEN confirmed \cup {s} ELSE confirmed \ {s}
    /\ UNCHANGED <<channel, medium, FController, next, high, EnterCount, rgState,
                   passages, counters, passed, highRead>>

\* SetEnter and SetExit open or close a passage; SetExit returns when the write
\* failed, SetEnter goes on.
WriteFailed_Ignored(d, e) == FALSE

WriteFailed(d, e) == d = "exit" /\ e # "merNone"

SetPassage(d, to) ==
    /\ Begins([name |-> "passage", dir |-> d, to |-> to])
    /\ FController = "open"
    /\ \E o \in Results(OfWrite(1)) :
         /\ ModbusError' = o.err
         /\ underway' = o.left
         /\ passages' = IF o.done
                        THEN [passages EXCEPT ![d] = IF to = "eFree" THEN Free ELSE 0]
                        ELSE passages
         /\ next' = IF WriteFailed(d, o.err) THEN "idle" ELSE "readback"
    /\ UNCHANGED <<channel, medium, FController, high, EnterCount, rgState,
                   counters, holds, passed, highRead, confirmed>>

\* Then SetExit reads what it wrote; SetEnter reads another register, whether
\* somebody is in the entrance now.  Any error is that of this read.
ReadBack ==
    /\ next = "readback"
    /\ \E w \in IF op.dir = "exit" THEN {passages["exit"]} ELSE {0, 1} :
       \E o \in Results(OfRead(w)) :
         /\ ModbusError' = o.err
         /\ underway' = o.left
         /\ rgState' = [rgState EXCEPT ![op.dir] = IF o.word = 0 THEN "eClosed" ELSE "eFree"]
    /\ next' = "idle"
    /\ UNCHANGED <<channel, medium, FController, op, high, EnterCount, turnstile, ghosts>>

\* GetEnterCount and GetExitCount: the high word first, whatever the error ...
ReadHigh(d) ==
    /\ Begins([NoOp EXCEPT !.name = "count", !.dir = d])
    /\ FController = "open"
    /\ \E o \in Results(OfRead(counters[d].hi)) :
         /\ high' = o.word
         /\ underway' = o.left
         /\ highRead' = (o.err = "merNone")
    /\ next' = "low"
    /\ UNCHANGED <<channel, medium, FController, ModbusError, EnterCount, rgState,
                   turnstile, confirmed>>

\* ... then the low one, whose error is returned.
ReadLow_WordsSwapped ==
    /\ next = "low"
    /\ \E o \in Results(OfRead(counters[op.dir].lo)) :
         /\ ModbusError' = o.err
         /\ underway' = o.left
         /\ EnterCount' = IF o.err = "merNone" THEN [hi |-> o.word, lo |-> high]
                          ELSE EnterCount
    /\ high' = 0
    /\ next' = "idle"
    /\ UNCHANGED <<channel, medium, FController, op, rgState, turnstile, ghosts>>

ReadLow ==
    /\ next = "low"
    /\ \E o \in Results(OfRead(counters[op.dir].lo)) :
         /\ ModbusError' = o.err
         /\ underway' = o.left
         /\ EnterCount' = IF o.err = "merNone" THEN [hi |-> high, lo |-> o.word]
                          ELSE EnterCount
    /\ high' = 0
    /\ next' = "idle"
    /\ UNCHANGED <<channel, medium, FController, op, rgState, turnstile, ghosts>>

-----------------------------------------------------------------------------
\* The turnstile counts a pass.  That its 32 bits start again at 0 is left out.
Plus1(c) == IF c.lo = WordSize - 1 THEN [hi |-> c.hi + 1, lo |-> 0]
                                   ELSE [hi |-> c.hi, lo |-> c.lo + 1]

Pass(d) ==
    /\ passed < MaxPasses
    /\ passed' = passed + 1
    /\ counters[d].hi < WordSize - 1 \/ counters[d].lo < WordSize - 1
    /\ counters' = [counters EXCEPT ![d] = Plus1(@)]
    /\ UNCHANGED <<channel, medium, program, passages, holds, underway, ghosts>>

Client ==
    \/ Start
    \/ \E s \in Settings : Set(s)
    \/ \E d \in Directions, to \in {"eClosed", "eFree"} : SetPassage(d, to)
    \/ ReadBack
    \/ \E d \in Directions : ReadHigh(d)
    \/ ReadLow
    \/ \E n \in {"set", "passage"} : NoController([NoOp EXCEPT !.name = n])

ClientNext == Client \/ \E d \in Directions : Pass(d)

ClientSpec == ClientInit /\ [][ClientNext]_<<channel, medium, client>>

-----------------------------------------------------------------------------
\* The operation that was begun with nothing under way returned without error.
Returned(name, d) ==
    /\ next = "idle" /\ op.name = name /\ op.dir = d
    /\ ModbusError = "merNone" /\ clean

\* A count handed over never exceeds what the turnstile counted, although
\* passes are counted between its two reads; and when both reads succeeded its
\* high word is not one of before the call.
CountIsPlausible ==
    \A d \in Directions : Returned("count", d) =>
        /\ \/ EnterCount.hi < counters[d].hi
           \/ EnterCount.hi = counters[d].hi /\ EnterCount.lo <= counters[d].lo
        /\ highRead => EnterCount.hi >= before.hi

\* SetExit returns without error only when the exit is as it was told to be,
\* and shows that state.
ExitShown ==
    Returned("passage", "exit") =>
        /\ passages["exit"] = IF op.to = "eFree" THEN Free ELSE 0
        /\ rgState["exit"] = op.to

\* A setting that was written with success keeps its registers until it is set
\* again, whatever else is set; only the exit's two indicators share some.
SettingsStay ==
    \A s \in confirmed : \A r \in Registers(s) :
        holds[r] = s \/ {s, holds[r]} = {"ExitGreen", "ExitRed"}
=============================================================================
