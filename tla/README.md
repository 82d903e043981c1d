# TLA+ models of the turnstile Modbus SDK

The repository holds a C++ service (`TurnstileCPP`) and a Delphi client, a
Delphi demo and an emulator (`TurnstileDelphi`) for a turnstile with two card
readers that speaks Modbus over RS-485 or TCP. The host polls the turnstile;
when a reader has a new card image, the host reads the image, looks the card
up, and writes a permission to pass. This directory models the parts of that
program that carry its logic, checks them with TLC, and proves the most
important results for every value of the constants with TLAPS.

Paths below are relative to `src/`. `PROJECT.json` maps every definition to the
lines it stands for.

## 1. Inventory

| Component | State it keeps | Operations | Talks to |
|---|---|---|---|
| `TModbus::Send` and its callers (`TurnstileCPP/uModbus.cpp`) | none between calls but the transport | `ReadHoldingRegisters`, `WriteMultipleRegisters`, `ReadCoilStatus`, `CallFunction`, `FindFirst`, `FindNext` | transport below, `TCommonDevice` above |
| TCP transport (`uTtcp.cpp`, `SendTCP`) | `FSocket`, the kernel's receive buffer | `Open`, `Close`, `Connect`, `Flush`, `writeToTcpSocket`, `waitAndReadAnswer` | the slave, over a byte stream that can be closed, reset or slow |
| RTU transport (`uSerial.cpp`, `SendRTU`) | `FPort`, the tty's buffer | `Flush`, `writeToSerPort`, `waitForAnswer`, `readFromSerPort` | the slaves on the line |
| CRC (`uCrc16.cpp`) | two tables | `modbus_crc16` | RTU transport |
| Discovery and start (`uMain.cpp`, `uCommonDevice.cpp`) | `Addr`, `DevId`, serving or not | `StartFirstRTU/TCP`, `StartRTU/TCP`, `Open`, `Close`, `ReadDeviceIdentification` | `TModbus` |
| Service threads (`rtu_thread`, `tcp_thread`) | direction, `IsNew`, `Count`, card, passes | the loop: flag, image, check, grant, wait | `TController`, the card list, the screen |
| Registers (`TController`) | none | `GetEnterCard`, `SetEnterPass`, `GetEnterStatus`, counters, indication | `TModbus` |
| Card list (`getConfigInfo`, `CardStorageRef`) | the images | `loadConfigFile`, `doSplitConfig`, `FindCard` | read by both threads, written before they start |
| Status screen (`main`) | cells guarded by a mutex | `printState` and what the threads store | both threads |
| Delphi client: session (`source/uMain.pas`, `uControllerThread.pas`, `uCommonDevice.pas`) | `FControllerThread`, `FController`, `Terminated`, the port | the connect button, `Execute`, `JobError` | user, port |
| Delphi client: Modbus and registers (`source/uModbus.pas`, `uController.pas`) | `FSection`, `FPort` or `FSocket` | `Send`, `SendRTU`, `SendTCP`, register calls | port, called by thread and form at once |
| Demo (`demo/uControllerThread.pas`) | the codes not used yet | the polling loop | port |
| Emulator (`emul/*.pas`) | registers, images, flags, timers | protocol thread, buttons, timers | any host |
| Forms, archives, manuals | | | not modelled |

### What is hard, and what makes each part correct

* **Transport.** The answer of a call that timed out comes later. Neither
  transport numbers its requests (the TCP transaction identifier is always 1),
  so only the flush at the start of the next call keeps it from being taken for
  that call's answer, and a flush takes only what has arrived by then. A TCP connection may be closed or reset between or within
  calls; the resend after a failed write must not run a request twice. Both
  wait loops must end. *Correct*: a call that succeeds hands over an answer of
  the slave and function asked for; if its flush left nothing of older calls
  under way, the answer to that very request; nothing runs twice; every call
  returns.
* **Service threads.** Flag, count and image of a card are read by two calls,
  between which another card may come; every call may fail, before or after
  the turnstile executed it, and a read may be handed the late answer to an
  earlier one; `IsNew` keeps its value over a failed call; the
  loop has no time limit. *Correct*: no pass without a card shown, none but for
  known cards, no open pass overwritten, and no reader starved - each but for
  what an answer mixed up or a failed read of the passes does, which the
  properties name.
* **Delphi session.** `JobError` presses the connect button from the polling
  thread, so the button's handler interleaves with the user's clicks.
  *Correct*: one thread polls the port, an ended thread gives it back, a
  terminated one ends, a disconnected client stays disconnected.
* **Start.** The channel is opened, the addresses are probed one after the
  other until one answers, round after round; the device found is then asked to
  identify itself, and the thread ends if it does not. Late answers, noise, devices
  that are no turnstile and devices that come up or go off in the middle of a round
  may stop the search at the wrong address, or end it. *Correct*: the device served is
  there; on a good line it is the first turnstile; one is found in the end; and the
  thread gives up only at a device that is none or went off meanwhile.
* **Card list.** Limits of the file's size, of a line and of the number of lines;
  zeros, blanks and foreign characters in it; a buffer without a final zero.
  *Correct*: a list that is used is complete, a card is accepted exactly if the
  file names it, and a file is not dropped, as an empty list accepts everybody.
* **Registers.** `TfmMain` sets registers, and reads a counter in two halves while
  the turnstile counts; answers carry no register number; errors of a first call
  are dropped for those of a second. *Correct*: a counter handed over is one the
  turnstile has reached, the exit's state is what `SetExit` made it, and no setting
  changes another.
* **Screen.** `main` clears the cells without the mutex after it has started the
  threads that fill them; a row is stored and formatted cell by cell. *Correct*: a
  status stands beside its own count, a card is shown only if it was let in, and a
  connection is shown in the end.
* **Delphi transport.** The polling thread and the form call one `TModbus`; only the
  critical section keeps their frames apart, and it must be left on every way out.
  *Correct*: neither gets the answer of the other, and both get their turn.
* **Demo.** The list of codes, the passes of the turnstile and the file of codes
  used change at different moments, each after a call that may fail. *Correct*:
  a code lets in once per entry of the list, its use is recorded, no pass is
  overwritten, no reader left out, and a stopped thread ends.
* **Emulator.** Buttons, timers and the protocol thread read and write the same
  registers, flags and texts without a lock. *Correct*: a card's image is sent
  once, and between handlers the button, the timer and the flag agree with the
  registers.

The hazards, at their lines and with the properties about them, are in
`PROJECT.json`; a few that no property can be stated of are under "Seen on the way"
in section 5.

## 2. Modules

| Module | Models | Composes / implements |
|---|---|---|
| `ModbusPdu` | requests, answers, what `Send` and its callers check of an answer | |
| `ModbusCall` | the abstract promise of `Send` | |
| `ModbusTcp` | `SendTCP` over `TTcpClient`, the stream, the slave and the peer | extends `ModbusPdu`, implements `ModbusCall` (`KeepsPromise`) |
| `ModbusRtu` | `SendRTU` over `TComPort`, the line, the slaves | extends `ModbusPdu`, implements `ModbusCall` |
| `ModbusSend` | the `Send` of one `TModbus`, over TCP or over a serial line | `ModbusTcp` and `ModbusRtu` on common variables; both keep `ModbusCall` |
| `DelphiModbus` | the client's `Send`, `SendRTU`, `SendTCP` and their two callers | extends `ModbusPdu` |
| `TModbus` | the class in both libraries | `ModbusSend`, `DelphiModbus` |
| `CardService` | the loop of `rtu_thread` / `tcp_thread`, `GetEnterCard`, `checkCard`, and the turnstile | extends `CardList`, implements it (`ServiceMakesList`) |
| `Channel` | serial or TCP, good line or bad | |
| `Discovery` | the phase of both threads before that loop | extends `Channel` |
| `Controller` | `TfmMain`'s operations over the registers at a known address | extends `Channel`; calls as `ModbusCall` promises them |
| `TfmMain` | the two uses of the class | `Discovery`, `Controller` |
| `Screen` | the cells of a row, the thread that fills them, `main`, the mutex | |
| `CardList` | `getConfigInfo` and the look-up in the list | |
| `DelphiSession` | connect button, polling threads, the port | |
| `DemoPasses` | the demo's thread, its lists and records, and the turnstiles | |
| `Emulator` | the emulator's registers, buttons, timers and protocol thread | |
| `TModbusProofs` (with `ModbusTcp` and `ModbusRtu`), `DelphiModbusProofs`, `CardServiceProofs` (with `CardList`), `TfmMainProofs` (with `Discovery` and `Controller`), `ScreenProofs`, `DelphiSessionProofs`, `DemoPassesProofs`, `EmulatorProofs` | theorems about the module in the name | |
| `MCCardService`, `MCCardList`, `MCDemoPasses` | values for TLC that a `.cfg` cannot write | |

In every module an operator whose name has a suffix after an underscore
(`Enter_Unlocked`) is not part of the specification: it is the definition of the
same name with a plausible mistake, named in `PROJECT.json` "mutants" with the
property it breaks.

### ModbusPdu, ModbusCall

A frame is what the code compares: the slave (`unit`), the function, the number
of registers and the form of the body (complete, too short, wrong byte count,
wrong TCP header, disturbed, or one of the exceptions). The field `id` is a
ghost that says which call a frame belongs to; the code cannot see it and no
guard of the transports looks at it. `SentVerdict` is the order of checks in
`Send`; `ReadAccepts` and `WriteAccepts` are what the two callers add: a read
compares the answer's byte count with its own length, never with the count
asked for; a write compares the echoed count.

`ModbusCall` is what a caller may rely on: a slave runs a call at most once, and
a success hands over an answer to a call that was run, of the slave and function
asked for (and, for a write, of that many registers). It does not say that it
is the *latest* call: with late answers that is not true of the code.

### ModbusTcp

`pc` walks through `SendTCP`: `connect`, `flush`, `write`, after a failed write
`reconnect` and `rewrite`, then `header` and `body` in `waitAndReadAnswer`.
`sock` is `FSocket` and what the kernel knows of the connection. `pipe` is the
stream to the master in parts of half a frame, of which `arrived` are in the
receive buffer: a flush takes what has arrived and not what is under way, so it
may cut a frame. `ReadBody` has the code's comparison of the bytes read with the
bytes waiting. The slave answers in any form, executes and says nothing, or
does neither; the peer closes or resets at any time. The ghost `flushed` says
whether the flush of the current call left something of older calls under way;
`SuccessIsFresh` speaks of the calls whose flush left nothing.

### ModbusRtu

The same without a connection: `Poll` is one turn of `waitForAnswer`, which ends
when the count stands still; a pause within a frame lets it end early. The
result of `write` is not looked at, so `Write` may send nothing. Without a port
(`FPort` NULL) a call is refused at once.

### ModbusSend, TModbus

A `TModbus` is over TCP or over a serial line for its whole life. `ModbusSend` gives
the two transports one set of variables, so that one run asks both the same
questions. `TModbus` adds the class of the Delphi client, which shares the channel
and the line with it: `library` says which of the two a behaviour is about.

### DelphiModbus

`call` is what each caller, the polling thread and the form, has on its stack;
`FSection` is who is inside. `Enter` and `Leave` (`Fail`, `Judge`) are the critical
section with its `finally`. `SendRTU` flushes into `dataout`, counts, sleeps out its
time, reads as much as it counted, and goes on reading until the CRC is right or
`Tries` is used up; an exception of the port ends in an error whatever `dataout`
holds (`Raises`). `SendTCP` takes whatever has arrived for one frame, waits once
more if nothing has, and then, if the connection is lost, finds its own request in
the variable it looks at (`OwnRequest`): a write so answered passes every check.
Of the results only success is told apart, and the quantity of a read, which
nothing checks, is left out.

### CardService

One step per Modbus call, with the computation up to the next. `ReadFlag` reads
flag and count, `ReadImage` the image (of whatever card is there by then), cut
or filled to the count that was read, with CR LF cut off at the count of 15;
`Decide` is `checkCard`; `Grant` writes a pass and looks at no error;
`ReadStatus` and `ReadState` are the wait loop, in which a failed read is 0. A
failing call may have been executed, and its answer may come `late`: the next
read then takes it for its own (`Mixed`), as no answer to a read says which
register it is of, or its flush drops it. Such an answer may be the flag of the
other reader, the passes left, or half an image (`MixFlag`, `MixImage`,
`ReadStatus`, `ReadState`); a first one may be left of the reads before the loop.
One answer at most is late. Only a flag so mixed up can have a count of more bytes
than `Card` holds: `GetEnterCard` then writes behind it, and the model stops at
the step `undefined`. The ghost `paidBy` says what the pass of a turn would be for,
a card that was shown (`unread`) or an answer mixed up, and `misread` whether the
last read of the passes left got its own answer. The two threads run the same loop on a
turnstile each and share only the list, which neither writes: one is modelled.
The list is that of `CardList`, made by its steps (`MakeList`); the thread is
created when they are over (`pc = "ready"`), so that `OnlyKnownGranted` reaches
from the characters of the file to the register of the turnstile.

### Discovery

One step per Modbus call of the search: `StartFirst...` opens the channel,
`FindFirst` probes the addresses, `ReadDeviceIdentification` asks for up to four
objects. A call gives the device's answer, or, on a bad line, what a late answer,
noise or silence gives; devices are switched on and off at any time. A device of
`Turnstiles` answers a probe as `StartFirstTCP` expects and identifies itself; any
other answers whatever `OtherAnswers` has: it refuses what it is asked, or answers
too short. The ghost `offIn` is where the thread was when the device it had found
was switched off. The two
channels differ in what they do with an error: the serial thread sleeps and
tries again, the TCP thread ends on any error of its search that is not a
timeout. The ghost `early` is the set of devices that have been on since the round
began and that the round will come to. A search that has an address to begin with is
`FindNext`.

### Controller, TfmMain

One step per Modbus call of a client that opened a turnstile at a known address.
`Results` is what a call may come to: on a good line its own answer; on a bad one
what `ModbusCall` promises and no more, among it an answer under way to an earlier
call of the same function (`underway`). The properties are about operations that
began with nothing under way (`clean`); within one, an answer to its first call may
come late. `Place` has the registers of all the
setters; `SetPassage` and `ReadBack` are `SetEnter` and `SetExit`, which differ in
what they do with the error of the write; `ReadHigh` and `ReadLow` are the halves of
a counter, between which `Pass` counts on. `TfmMain` is one or the other: a thread
that searches (`Discovery`), or such a client.

### Screen

One step per Modbus call, and per cell stored, cleared or formatted. `Stored` lists
the cells of the thread's four locked sections, `todo` and `todraw` what the holder
of the mutex has still to do. `Clear` takes no mutex, as in `main`. `side` chooses
the entrance's cells or the exit's: `GetExitStatus` leaves the old text when its call
fails, `GetEnterStatus` blanks it. `shown` is the row as formatted, and it is on the
screen when no cell of it is left to format (`Printed`).

### CardList

The phases of `getConfigInfo`: `Load` (or `NoFile`), `Mark` with its search for
the buffer's end, then `doSplitConfig` in the steps of its loop (`BeginLine`,
`SkipNul`, `AddLength`, `EndSplit`), `Fill`, and the threads' look-up as
operators. A character is a hex digit's value or one of the four kinds the code
tells apart. A file that fills the buffer leaves no zero behind it: what may
follow in memory is the constant `Overrun`.

### DelphiSession

The button's handler is two steps, the test of `FControllerThread` and what
follows. A worker begins, opens, polls (test of `Terminated`, call), shows an
error and presses the button, and ends; `Released` is `Close`.

### DemoPasses

One step per Modbus call of the demo's thread (`ReadFlag`, `ReadImage`,
`ReadPasses`, `OpenExit`, `Grant`, `ShowRed`) and one per record it writes
(`Save`). Unlike the C++ service, a failed read leaves 0 and never an old value, and
an image whose read failed is dealt with as a card of zeros. `Terminated` is
tested before a round of all turnstiles (`BeginRound`). `Reopen` closes the
program at any step, which keeps the form's list (`Settings.ini`) and forgets
what was not written to `UsedCode.ini`. A list is modelled by how often it holds
each code, a record by the number of the use it tells; codes are taken to
contain no `;`. A thread that is started while its predecessor is on its last
round gets no port and asks the turnstile nothing; it is left out.

### Emulator

Every handler is a sequence of accesses to the shared registers, taken from the
code line by line, and `act` is what each of the two threads has still to do:
the main thread's (buttons, timers, start and stop) and the protocol thread's
(one request of the host). "Стоп" does not wait for the thread: a request it
is executing is executed to the end, and one it is waiting for may still come
(`service = "last"`). The ghost `overlapped` is set once a handler began
while the other thread was in one. `DeliveredOnce` holds however they
overlap; `ButtonTellsState`, `ExpiryIsArmed` and `NewsIsFlagged` are about
handlers that ran one after the other (`Calm`), as the code has no lock.

## 3. Runs

| Run | Question | Bounds |
|---|---|---|
| `send` | Does `Send` of the service keep the promise of `ModbusCall`, hand over the answer to the very request after a complete flush, never run a request twice, and return? Does `Send` of the client, with two callers, keep their answers apart and let both return? | 2 units, 2 counts, 2 calls, 5 forms, late and cut answers; 1 further read |
| `tcp_sigpipe` (violated) | Is a connection the peer closed noticed and replaced (`uModbus.cpp:467`)? | 1 unit, 2 calls |
| `cards` | No grant without a card or an answer mixed up, none for an unknown card, none over an open pass, and every card is read | a file of two lines, 2 images: one that is a line's card once CR LF is cut off, one that only begins like a line's; any number of cards; the exit is shown the first only, and only it is opened for everybody; one answer late |
| `device` | Is the device served there, is it the first turnstile, is one found, and for what does the thread give up on a good line? Are a client's counters, exit state and settings what the calls said? | addresses 1 to 4, turnstiles at 1 and 4, another device at 2 with four answers, good and bad lines, both channels; words of one bit, 3 passes, 3 operations |
| `screen` | Do status and count on the screen belong together, was a shown card let in, and is a connection shown? | 2 cards (one known), entrance and exit |
| `card_list` | Is a list that is used complete, is a card accepted exactly if the file names it, and is a file used that fits? | every file of up to 6 characters of 5 kinds, and of up to 8 of a digit and a line end; 2 lines, cards of 2 bytes, buffer of 7 |
| `card_limit` (violated) | Is a file refused only if it has too many lines (`uMain.cpp:486`)? | as `card_list` |
| `delphi_session` | Port, termination and ends, with clicks in every order | 3 threads, 3 clicks |
| `delphi_reconnect` (violated) | Does a disconnect last? | 3 threads, 3 clicks |
| `demo` | Single use, records, passes, fairness to readers, and the end of a stopped thread | 1 turnstile, 2 entries of a code, 2 threads, 2 cards |
| `emul` | Is an image sent once, and do button, timer and flag agree with the registers? | 2 turnstiles one of which has the address of the other's indicator, 1 card, 2 writes of the words 0, 1, `$FFFF` |
| `emul_cancel` (violated) | Does only the host open a passage (`uController.h:24-26`)? | 1 turnstile, 2 writes of any word |

Every module's type invariant is a theorem; those of `card_list`, `emul` and `send`
are checked by the run as well. A behaviour of `send` is one of the service or of the
client: `RunsOnce` speaks of the requests of both.

**Why the bounds are enough.**

* *Transports.* A stale answer needs two calls, one to time out and one to meet
  its answer. Two units and two counts tell right from wrong; the forms left out
  of a run take the path of one that is in it (every exception code that `Send`
  knows differs only in the error returned). Two calls put the client's two callers
  inside `Send` together, or one after an answer the other left; a second further
  read of its `SendRTU` does what the first did.
* *Cards.* Cards are shown without end, as the flag says no more than that there is
  one; two images give one that overtakes another between flag and image. One late
  answer is what a flush leaves of a call that timed out; of two the flush drops the
  first. The exit has one image, as the thread does the same for both. What the file may be is `card_list`'s
  question; here one with a list that is used is enough, and the empty list comes of
  the file that cannot be read. Bytes other than 0, CR and LF are
  interchangeable, and a line length of 3 has every case that 15 has (shorter,
  equal with and without CR LF).
* *Device.* Four addresses give a first, a last, a gap and neighbours. Words of
  one bit carry at every second pass, so that three passes have two carries, one of
  which may fall between the two reads; three operations are one that leaves an
  answer under way, one that meets it, and one that reads the effect. The device
  that is no turnstile lies between the two that are; it answers as if it were one, with an
  exception, with one that counts as a timeout, or too short.
* *Screen.* A card that is known and one that is not; a row's cells and a thread's
  sections are all there.
* *Card list.* The limits are small and the files exceed them: more lines than
  fit, a longer line than a card, a full buffer.
* *Session.* Three threads and three clicks give the user and two failing threads
  at the button together.
* *Demo.* Two entries of one code and two cards let a code be used twice in one
  thread and once in each of two; the second card is longer than the first, so
  each may be read with the other's count. A second turnstile adds readers that
  are served in turn as the two of the first; the proofs are for any number.
* *Emulator.* The word 2 stands for every count above 1 and is left out of `emul`,
  as a count that a timer has reduced to 1 takes the way of 1; `Free` is 3, so
  that 0 minus one is `Free` as in 16 bits. With addresses 1 and 3 and an offset
  of 2 a request to 3 is one to a turnstile and to the indicator of another.

No safety property rests on these bounds but those the findings refute: each is proved
for every value of the constants (section 4). The bounds matter for liveness. `CHECK_DEADLOCK FALSE` stands where calls, clicks, cards or
the phases run out.

**Fairness.** `ModbusSend`: the calling thread runs; both wait
loops look at the clock at every turn, so `WaitExpires` happens on the serial
line even while bytes keep coming. Nothing is assumed of slave, network or
peer. `TModbus` adds that each of the client's callers goes on; it may call no more
than `MaxCalls` times, so whoever waits for the critical section is let in once the
other has left. `CardService`: the thread runs; a read of flag or image that is tried for ever
gets its own answer at last (strong fairness; a line that never works again serves nobody); who
began to pass ends it, and an unused permission expires; the list is made in the
end (`MakeList` waits for nothing). Nothing is assumed of how often cards are
shown. `CardsAreRead` has premises instead: no direction stays open for everybody,
as the wait loop after a grant there would not end; no count is written behind
`Card` (`undefined`); and, for the exit, unknown cards do not come at the entrance
for ever, as each starts the loop again there (`continue`, `uMain.cpp:147`), so that
they starve the exit. `TfmMain`: the thread runs, nothing is
assumed of the devices or the client; `DeviceIsFound` is about a good line with
turnstiles only, none of which is switched off between its probe and its
identification, and about one that stays on from some time on.
`Screen`: whoever holds the mutex goes on and unlocks (weak fairness); a thread
that keeps trying to lock gets the mutex in the end (strong fairness), as the others
sleep or wait for the line between two sections. Nothing is assumed of the calls. `DelphiSession`: threads run, calls return (they have
a timeout), messages are confirmed. `DemoPasses`: the thread runs, and a read
that is tried for ever succeeds at last. `CardList` and `Emulator` have no
liveness property: the first is a sequence without waiting, and the second does
nothing by itself but expire.

## 4. Theorems

`TModbusProofs` has three parts. Of `ModbusTcp`, for every set of units, counts and forms
and any number of calls (assumption `PduAssumption`):

* `TypeCorrect`: `arrived <= Len(pipe)` is its substance.
* `RunAtMostOnce`: `NeverRunTwice` is not inductive alone; `RunInv` adds
  that a request in `toSlave` was not run, that no two there are the same call,
  that a call that was run or is under way has at most the latest number, and
  that a call before its first or second write has neither run nor a request
  under way.
* `SuccessMatches`: what `Verdict` lets pass matches; no other step reports
  success or changes the request of a call that succeeded.
* `SuccessFresh`: `FreshInv` adds that after a flush that left nothing every part
  in the stream and every request under way belong to the current call. That
  flush is seen only when it happens; until then the current call has no answer
  (`Unanswered`).
* `TcpKeepsPromise`: initial states map to initial states of `ModbusCall`, and
  under `RunInv` each step is a step of it or a stutter.

Of `ModbusRtu` the same, with `RtuRunInv` and `RtuFreshInv`. The two transports are
instances over common variables; that the definitions they share are the same is
stated once (`SharedWithRtu`), and so what was proved of requests, answers and runs
for one serves for the other. There is no connection to lose and no resend, but the
write may send nothing, so that a call that was never under way may be waited for, and what
`Poll` counts is what has arrived.

Of `TModbus`: a behaviour is one of the client, over either channel, or of the service
over one of the two, and stays of that kind (`KindStays`). `ClassInv` is the
invariant of the kind, and of it follow `ClassRunsOnce` (`RunsOnce`: of the service's
counter `runs` and of the client's `ran`), `ClassSuccessIsFresh`,
`ClassTypeCorrect` and the refinement `ClassKeepsPromise` of the abstract call, for
the service over TCP and over the serial line. `ClientAnswersAreOwn` and
`ClientSuccessIsTrue` carry over what `DelphiModbusProofs` shows of that module alone;
`SameDelphi` shows that the client within `TModbus` is the same, definition by
definition.

`DelphiModbusProofs`, for every set of units, counts and forms, any number of calls of both
callers and of further reads, and both channels (assumption `PduAssumption`):

* `TypeCorrect`; `OneInside` (`Spec => []SectionInv`): who is between entry and return, and
  nobody else, holds the critical section.
* `AnswersAreOwn` (`Spec => []OwnAnswer`): `FreshInv` says that after a flush that left nothing
  every request and answer under way, and every part read, are the call's own. It is kept
  because of `SectionInv`: while a call is there, the other caller takes no step but to ask to
  be let in.
* `SuccessIsTrue` (`Spec => []SuccessIsAnswer`): `RunInv` adds that requests under way are of
  different calls and were not executed, that what is in the line or was read answers one
  executed once, that a call before its sends is neither under way nor executed, and that the
  two callers' numbers differ.
* `ClientRunsOnce` (`Spec => []ExecutedOnce`), of the same invariant: no request runs twice.

`CardServiceProofs` begins with the list, for every set of files and all limits
(assumption `CardListAssumption`); the buffer may be full and have anything behind it.
`ListInv` says that from `Mark` on the
buffer is the file with a 0 for every line end, and no longer than it unless the file
fills it; that the lines found so far are exactly the beginnings up to where
`doSplitConfig` has come, in order; that a count above 0 comes only of a split
that reached the end; and that the lines already stored have their cards.

* `ListTypeCorrect`, `SplitIsComplete`, `ReadFileIsUsed`: type correctness, with the
  cards stored no longer than their places and the pointer within the file, unless the
  file fills the buffer and is closed by a 0 behind it; and `ListIsComplete` and `FileIsUsed`.
* `LookupIsRight` (`ListSpec => []AcceptsFile`): the string at a beginning in the buffer is
  the line there in the file (`StringIsLine`), so that the cards are those of the lines, and the
  look-up finds a card exactly if it is there (`FindCardFinds`). That a string has an
  end and a look-up a first hit is the well-foundedness of the naturals
  (`LeastNat`, `EndExists`).
* `HexLinesAreAccepted`: the card of the line that `IntToHex` makes of some bytes is those
  bytes (`HexLineIsCard`), so that every card that fits into a line can be entered as
  the screen shows it.

Then of the service, for every set of images, every line length and number of
cards (assumption `CardAssumption`):

* `ServiceMakesList` (`Spec => ListSpec`): each step of the service is one of the
  list or leaves it alone, so `ListInv` holds here too.
* `TypeCorrect`: in particular what is taken of an image are bytes, whichever
  image and whichever answer the count was of.
* `GrantsAreOfCards`: `CardInv` says that a flag that is set stands for a card whose
  image was not read yet; that between flag and image the thread has a count that is of
  a card shown or mixed up; and that `paidBy` is empty but then and before a grant.
* `GrantsAreOfShownImages`: of the same invariant, with or without a list: a grant no
  mixed up answer has paid for is for an image that a reader showed, cut or filled to
  the length of one. No failed call puts an older card or none in its place.
* `GrantsAreOfKnownCards`: `KnownInv` says that a card about to be granted was
  accepted by a list that no longer changes; with `ListInv` that is a card of a line.
* `PassesAreNotOverwritten`: `PassInv` says that an unused pass has the thread in
  the wait loop of its direction, which has not seen it used up, unless the last read
  of the passes failed or was handed another's answer.

`EnteredIsAccepted` and `GrantedWasShown` are defined beside these theorems; no run
names them.

`TfmMainProofs` has three parts. Of `Discovery`, for every number of addresses and set
of devices (assumption `DiscoveryAssumption`): `TypeCorrect` (no probe goes beyond the last address)
and `OnlyDevicesAreServed` (`Spec => []ServesDevice`): whatever stopped the search, a thread
that serves has been answered by the device at that very address. `FirstIsServed` and
`EndsOnGoodLine` rest on `GoodSearch`: on a good line no answer is late, none of the
turnstiles that have been on since the round began has been passed by the probe, and
the device found is not behind any of them and on, or was switched off meanwhile.

Of `Controller`, for every word size and any number of passes and operations
(assumption `ControllerAssumption`): `ClientTypeCorrect`; `CountsArePlausible`, with
`CountInv`: between the two reads the high word is one the counter has had since the
operation began and nothing is under way, or the read failed, the high word is 0 and
its answer, if it is still to come, is no more than the counter's;
`ExitIsShown`, with `ExitInv`: between the write and the read back the exit is as it was
written and nothing is under way; `SettingsAreKept`, from the registers of `Place` being apart but for the two
indicators of the exit (`RegistersDisjoint`).

Of `TfmMain`: every step of `MainSpec` is a step of the search or of the client and a stutter
of the other (`MainIsSearch`, `MainIsClient`), so that the results carry over to the
composition (`SearchIsSafe`, `ClientIsToldTheTruth`).

`ScreenProofs`, for all sets of cards (assumption `ScreenAssumption`): `SectionsApart`,
with `LockInv`: who has cells to store or to format holds the mutex, and both are the
rests of their sections; `TypeCorrect`; `StatusFits`, with `FitInv`: status and count belong together in the row but while the
thread is between the two, when the status is already the new one; and in what is
formatted but while `main` is between them, when its status is the row's; `CardsWereGranted`, with `CardInv`.

`DelphiSessionProofs`, for any number of threads and clicks: `TypeCorrect`,
`PollersHoldPort`, `EndReleasesPort`, `OneLateCall`. `SessionInv` says at which places a
thread's controller is live, that a thread that polls holds the port and one that ended
does not, and that a thread that returned late was terminated and is about to end. The button's handler enters as `ToggleEffect`, once
for the user and for every thread.

`DemoPassesProofs`, for every number of turnstiles, images, codes, threads and
cards (assumption `DemoAssumption`):

* `TypeCorrect`: with `GrantIsListed`, that a code about to be granted is listed
  and still there, the list never counts below zero.
* `CodesLetInOnce`: `UseInv`, entries asked for and entries of the list left are
  together no more than the list had.
* `UsesRecorded`: `RecordInv` says what is so while records wait to be written: the
  last that waits of a code is of its last use, and a code of which none waits is
  up to date in the file. Adding at the end and writing from the front keep it.
* `PassesAreNotOverwritten`: with it, that only an exit is opened before the code
  is looked at.

`EmulatorProofs`, for every set of turnstiles but the empty one, any offset of the indicators,
size of a word, number of cards and of writes (assumption `EmulatorAssumption`).
`EmulatorInv` has four parts:

* `TypeOK` and `ProgramInv`: what is left of a handler is one of the tails of the
  code's handlers, and the buttons' run on a turnstile that is there. `Programs` and
  `AtAccess` say once which access comes first in which tail, and what follows it.
* `CardInv`, for `ImageIsSentOnce`: a card is in one text at most; one the protocol
  thread has taken is in no text but that it was taken from, and in none once that
  was emptied; one that was sent is nowhere. It holds however the two threads
  overlap.
* `SettledInv`, for `ButtonIsRight`, `ExpiryStaysArmed` and `NewsStaysFlagged`: as long as no
  two handlers overlapped, one of them is idle (`OneAtATime`); the button of a turnstile
  agrees with its register but between the write and `ChangeTurnState`
  (`Settled`), a counted pass has its timer but there, and a card's text is flagged
  but while it is being put there or sent (`Moving`).

`EmulatorTypes` is its type invariant.

The inductive invariants were checked with TLC before they were proved. Every safety
property that a run finds to hold is a theorem. Only model-checked is liveness
(`SendReturns`, `CallsReturn`, `CardsAreRead`, `DeviceIsFound`, `ConnectedIsShown`,
`TerminatedEnds`, `ReadersAreServed`, `StoppedThreadEnds`), which is out of the
prover's reach; and the four properties of section 5 are refuted by TLC.

## 5. Findings

Each is a run that TLC finds violated:

* `tcp_sigpipe`: a peer that closes while a call waits: the next `write` raises
  SIGPIPE, which nothing handles, so the resend announced at `uModbus.cpp:467` is not
  reached.
* `delphi_reconnect`: an error of a thread the user has just disconnected presses
  the button again and connects.
* `emul_cancel`: a passage the host closes while a pass's timer runs becomes
  free when it expires, 0 minus one being `$FFFF`.
* `card_limit`: a list with exactly as many lines as fit is refused when anything
  follows the last one, such as its line end, and an empty list lets everybody in.

Seen on the way, and contradicting no line of the repository:

* `GetEnterStatus` and `GetExitStatus` (`uMain.cpp`) show "closed" for `$FFFF`, the
  free pass of `uController.h:24-26`.
* The demo opens the exit before it looks at the code, and for a listed one twice
  (`demo/uControllerThread.pas:151`, `:166`); a failed `SetEnter` uses the code
  up; the form's list keeps the codes used, so the next thread admits them again.
* The emulator's protocol thread resets the flag it reads in several accesses: a
  card that is shown meanwhile may be forgotten; the flag may tell of new data
  whose text was emptied; a write of the exit register to an address without a
  turnstile 100 below ends the protocol thread; `$FFFE` passes never expire.
* The TCP thread ends for good if the last address probed gives an error that is
  not a timeout, and both threads if the device found does not identify itself: also on
  a good line, at a device that is no turnstile or is switched off just then
  (`EndsOnlyForCause`).
* A late answer to an earlier read is taken for the flag of a card: with an empty list
  (or a listed card at that reader) a pass is then asked for though no card was shown
  there, and that card's own flag is still set. A count so mixed up may be of more
  bytes than `Card` has room for (`uController.cpp:97`).
* A 0 that another read was answered with, or a failed read, ends the wait loop over a pass
  that is still open, and the next card overwrites it.
* Unknown cards at the entrance, one after the other, keep the thread from the exit
  (`uMain.cpp:147`).
* A configuration file of exactly 16,000 bytes is closed by a zero one byte
  behind the buffer.
* In the client's `SendTCP` a write whose peer closed the connection takes its own
  request for the answer (`source/uModbus.pas:562-573`) and succeeds; the form
  then says that the setting was made. `SuccessIsAnswer` holds but for this case, and names it.
* `SetEnter` reads back register 0x42 where it wrote 0x40 and lets the read's error
  replace the write's, so it may report success for a write that failed; `SetExit`
  returns the write's error (`uMain.cpp:980`, `:1003`). `GetExitCount` stores into
  `EnterCount` (`uMain.cpp:1235`).
* The registers of the two exit indicators overlap (0x1008 and 0x1009, three each,
  `uController.cpp:322`), so one setting changes the other.
* `StartRTU` and `StartTCP` take a device that does not answer for opened.
* A counter whose high word could not be read is handed over as a success without it
  (`uController.cpp:110`).
* `main` may wipe the YES of a device that was ready before the screen was cleared, and
  nothing writes it again; the exit's status may be one of an earlier read, or whatever
  was on the stack, beside a count of 0.
* `FPort`, or `FSocket` after its `delete` (`uModbus.cpp:126`), is used while NULL when the
  port cannot be opened (`uModbus.cpp:536`), and `FModbusTCP` is not set when the port's
  number is not valid (`uModbus.cpp:42-46`, `:102-106`); each round of the search makes a
  new controller and deletes none (`uMain.cpp:702`); `getSockPort` and `getSockIP` are
  each other's names (`uTtcp.cpp:256-263`).
* A card shown between the two reads of `GetEnterCard` is looked up with the count of the
  one before (`uController.cpp:86-99`): the image a pass is granted for may then be one that
  no reader was shown. `GrantsAreOfShownImages` says what it is made of.
* A card of 20 bytes or more would not fit into `Card.data` in hexadecimal
  (`uMain.cpp:1269`); the register description knows none.
* The emulator executes frames whose CRC is wrong (`emul/uModbusProtocol.pas:236`), and a
  protocol thread that ended keeps the port, so that the service cannot be started
  again (`:37`).
* The demo's constructor lets the thread run before `OnJobError` is set
  (`demo/uMain.pas:82`): an error of its first `Open` may be shown to nobody.

## 6. Not modelled

* `modbus_crc16`: a pure function over two tables of 256 bytes. A model would be a copy
  of the tables; what the check does, refuse a frame that was disturbed or is not whole,
  is in `ModbusRtu` and `DelphiModbus`.
* The commands of the Delphi main form. They use `FControllerThread.Controller`, which is
  nil until the thread has opened and freed when it fails; what a call on nil or on a
  freed object does is undefined, and no text of the repository promises anything of
  it. Their Modbus calls are the form's calls of `DelphiModbus`.
* The rest of the client's `uController.pas`, each one call of `DelphiModbus`; its
  `FindFirst` and `FindNext`, which no program calls.
* The fixed addresses and speeds of `getConfigInfo`, and pairs of characters that
  `strtol` takes for a number with a sign.
* The emulator's TCP server: its handler (`Accept` with a `Deserialize` of its own,
  `emul/uModbusProtocol.pas:243-363`) runs in a thread for each connection, beside the
  protocol thread, which reads from the server's socket at the same time; which of them gets a
  request is the library's affair. The handler has the accesses of the modelled one, without
  the test of the address and with the text's emptiness in place of the flag.
* The emulator's lists of turnstiles and codes, the generator that presses its
  buttons, and frames cut or disturbed on the way to it: what a cut `AnsiString` holds
  behind its end is nowhere said.
* A thread of the demo that is started while its predecessor is on its last round: it
  gets no port and asks the turnstile nothing.
* Address parsing of `Open`, termios settings, the non-blocking mode of `TTcpClient` (never
  used), `ReadCoilStatus` and `CallFunction` (no state of their own), the texts of the
  identification, the screen's cells of the passage's state, logging and layout, forms
  and archives.

What is left of the repository is of these kinds: nothing more of it can be
modelled without making up what the code does.
