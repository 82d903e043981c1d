----------------------------- MODULE Discovery ------------------------------
(***************************************************************************)
(* How rtu_thread and tcp_thread (TurnstileCPP/uMain.cpp) find the device  *)
(* they serve: StartFirstRTU or StartFirstTCP opens the channel and probes *)
(* one address after the other (FindFirst, uModbus.cpp); the device found  *)
(* is then asked to identify itself (ReadDeviceIdentification,             *)
(* uCommonDevice.cpp).  A step is one Modbus call.  Both threads start     *)
(* with no address; a client that has one searches from there (FindNext).  *)
(***************************************************************************)
EXTENDS Naturals, Channel

CONSTANTS
    LastProbe,     \* 250 in the code
    Devices,       \* the addresses that may have a device
    Turnstiles,    \* those of them that identify themselves when asked, and whose
                   \* answers to a probe are of
    ProbeAnswers,  \* - a read of no register succeeds, or is refused with one of
                   \* two errors
    OtherAnswers   \* what the answers of any other device may give

\* What Send makes of an answer that came whole and from the device asked: an
\* exception that it does not know counts as none.
SlaveErrors == {"merNone", "merMBFunctionCode", "merMBDataAddress", "merMBDataValue",
                "merMBFuncExecute", "merTimeout", "merFuncError",
                "merWrongFromLength", "merWrongDataLenFrom"}

Errors == SlaveErrors \cup {"merAddressError", "merCRCError", "merCantOpenPort"}

ASSUME DiscoveryAssumption ==
    /\ LastProbe \in Nat \ {0}
    /\ Devices \subseteq 1 .. LastProbe
    /\ Turnstiles \subseteq Devices
    /\ ProbeAnswers \subseteq {"merNone", "merMBDataAddress", "merMBDataValue"}
    /\ OtherAnswers \subseteq SlaveErrors

VARIABLES
    pc,       \* where the thread is
    probe,    \* i of FindFirst
    err,      \* ModbusError
    addr,     \* Addr: 0, or where to search from, then the device found
    k,        \* the object read by ReadDeviceIdentification
    online,   \* the devices that are switched on
    early,    \* ghost: those of them this round will probe and that have been
              \* switched on since it began
    late,     \* devices whose answer to an earlier call is still under way
    offIn     \* ghost: where the thread was when the device that it found was
              \* switched off last

vars == <<channel, medium, pc, probe, err, addr, k, online, early, late, offIn>>

TypeOK ==
    /\ ChannelTypeOK
    /\ pc \in {"open", "probe", "asleep", "identify", "serving",
               "noChannel", "noDevice", "crashed"}
    /\ probe \in 1 .. LastProbe
    /\ err \in Errors
    /\ addr \in 0 .. LastProbe
    /\ k \in 0 .. 3
    /\ online \subseteq Devices
    /\ early \subseteq Devices
    /\ late \subseteq Devices
    /\ offIn \in {"nowhere", "identify", "serving"}

Init ==
    /\ ChannelTypeOK
    /\ pc = "open"
    /\ probe = 1
    /\ err = "merNone"
    /\ addr \in 0 .. LastProbe
    /\ k = 0
    /\ online \in SUBSET Devices
    /\ early = online
    /\ late = {}
    /\ offIn = "nowhere"

-----------------------------------------------------------------------------
\* What a call to device d may come to: an answer (with one of the results ok),
\* nothing, an answer that is late, and one that is taken for another's.
Answers(d, ok) == IF d \in Turnstiles THEN ok ELSE OtherAnswers

Answered(d, ok) ==
    {[err |-> e, late |-> late] : e \in IF d \in online THEN Answers(d, ok) ELSE {}}

Silent(d) ==
    IF d \notin online THEN {[err |-> "merTimeout", late |-> late]}
    ELSE IF medium = "good" THEN {}
    ELSE {[err |-> "merTimeout", late |-> late],
          [err |-> "merTimeout", late |-> late \cup {d}]}

\* An earlier answer of d itself is one to a probe.
Mistaken(d, earlier) ==
    {[err |-> "merAddressError", late |-> late \ {j}] : j \in late \ {d}}
        \cup {[err |-> e, late |-> late \ {d}] : e \in IF d \in late THEN earlier ELSE {}}

Disturbed ==
    IF medium = "good" THEN {}
    ELSE IF channel = "rtu" THEN {[err |-> "merCRCError", late |-> late]}
                            ELSE {[err |-> "merCantOpenPort", late |-> {}]}

Outcomes(d, ok, earlier) ==
    Answered(d, ok) \cup Silent(d) \cup Mistaken(d, earlier) \cup Disturbed

-----------------------------------------------------------------------------
\* A new TController opens the channel; a TCP connection leaves the answers to
\* the one before behind.  FindFirst probes from 1, FindNext from Addr.
FirstProbe_AfterAddr == IF addr < LastProbe THEN addr + 1 ELSE LastProbe

FirstProbe == IF addr = 0 THEN 1 ELSE addr

Open ==
    /\ pc = "open"
    /\ pc' = "probe"
    /\ probe' = FirstProbe
    /\ early' = {d \in online : d >= IF addr = 0 THEN 1 ELSE addr}
    /\ late' = IF channel = "tcp" THEN {} ELSE late
    /\ offIn' = "nowhere"
    /\ UNCHANGED <<channel, medium, err, addr, k, online>>

\* It does not: the thread ends.
OpenFails ==
    /\ medium = "bad"
    /\ pc = "open"
    /\ pc' = "noChannel"
    /\ UNCHANGED <<channel, medium, probe, err, addr, k, online, early, late, offIn>>

\* The constructor of TModbus cannot open the serial port and sets FPort to
\* NULL; RTUConnect then opens FPort again.
PortMissing ==
    /\ medium = "bad"
    /\ pc = "open" /\ channel = "rtu"
    /\ pc' = "crashed"
    /\ UNCHANGED <<channel, medium, probe, err, addr, k, online, early, late, offIn>>

\* Every other error counts as an answer of somebody.
Heard(e) == e \notin {"merCantOpenPort", "merTimeout"}

\* FindFirst returned i, or 0: StartFirstRTU looks at i alone ...
FoundRTU(i) ==
    /\ addr' = i
    /\ pc' = IF i = 0 THEN "asleep" ELSE "identify"

\* ... StartFirstTCP also at the error, and gives up on most.
FoundTCP_EndsOnTimeout(i, e) ==
    IF i # 0 /\ e \in {"merNone", "merMBDataAddress", "merMBDataValue"}
    THEN addr' = i /\ pc' = "identify"
    ELSE addr' = 0 /\ pc' = "noChannel"

FoundTCP(i, e) ==
    IF i # 0 /\ e \in {"merNone", "merMBDataAddress", "merMBDataValue"}
    THEN addr' = i /\ pc' = "identify"
    ELSE addr' = 0 /\ pc' = IF e = "merTimeout" THEN "asleep" ELSE "noChannel"

Found(i, e) == IF channel = "rtu" THEN FoundRTU(i) ELSE FoundTCP(i, e)

\* One turn of the loop of FindFirst.
Probe_ButLast ==
    /\ pc = "probe"
    /\ \E o \in Outcomes(probe, ProbeAnswers, Answers(probe, ProbeAnswers)) :
         /\ err' = o.err
         /\ late' = o.late
         /\ CASE Heard(o.err)           -> Found(probe, o.err) /\ UNCHANGED probe
              [] ~Heard(o.err) /\ probe >= LastProbe - 1 -> Found(0, o.err) /\ UNCHANGED probe
              [] OTHER                  -> probe' = probe + 1 /\ UNCHANGED <<addr, pc>>
    /\ k' = 0
    /\ UNCHANGED <<channel, medium, online, early, offIn>>

Probe ==
    /\ pc = "probe"
    /\ \E o \in Outcomes(probe, ProbeAnswers, Answers(probe, ProbeAnswers)) :
         /\ err' = o.err
         /\ late' = o.late
         /\ CASE Heard(o.err)           -> Found(probe, o.err) /\ UNCHANGED probe
              [] ~Heard(o.err) /\ probe = LastProbe -> Found(0, o.err) /\ UNCHANGED probe
              [] OTHER                  -> probe' = probe + 1 /\ UNCHANGED <<addr, pc>>
    /\ k' = 0
    /\ UNCHANGED <<channel, medium, online, early, offIn>>

\* Nobody answered: try again.
Retry ==
    /\ pc = "asleep"
    /\ pc' = "open"
    /\ UNCHANGED <<channel, medium, probe, err, addr, k, online, early, late, offIn>>

\* The device sends up to four objects, each saying whether more follow; any
\* error ends the thread, also that of an answer too short for an object.
Identify_TimeoutIsFine ==
    /\ pc = "identify"
    /\ \E o \in Outcomes(addr, {"merNone"}, {"merFuncError"}) :
         /\ err' = o.err
         /\ late' = o.late
         /\ IF o.err \notin {"merNone", "merTimeout"}
            THEN pc' = "noDevice" /\ UNCHANGED k
            ELSE \/ k < 3 /\ k' = k + 1 /\ UNCHANGED pc
                 \/ pc' = "serving" /\ UNCHANGED k
    /\ UNCHANGED <<channel, medium, probe, addr, online, early, offIn>>

Identify ==
    /\ pc = "identify"
    /\ \E o \in Outcomes(addr, {"merNone"}, {"merFuncError"}) :
         /\ err' = o.err
         /\ late' = o.late
         /\ IF o.err # "merNone"
            THEN pc' = "noDevice" /\ UNCHANGED k
            ELSE \/ k < 3 /\ k' = k + 1 /\ UNCHANGED pc
                 \/ pc' = "serving" /\ UNCHANGED k
    /\ UNCHANGED <<channel, medium, probe, addr, online, early, offIn>>

\* A device is switched on.
DeviceStarts(d) ==
    /\ d \notin online
    /\ online' = online \cup {d}
    /\ UNCHANGED <<channel, medium, pc, probe, err, addr, k, early, late, offIn>>

\* A device is switched off.
DeviceStops(d) ==
    /\ d \in online
    /\ online' = online \ {d}
    /\ early' = early \ {d}
    /\ offIn' = IF d = addr /\ pc \in {"identify", "serving"} THEN pc ELSE offIn
    /\ UNCHANGED <<channel, medium, pc, probe, err, addr, k, late>>

-----------------------------------------------------------------------------
Thread == Open \/ OpenFails \/ PortMissing \/ Probe \/ Retry \/ Identify

Next == Thread \/ \E d \in Devices : DeviceStarts(d) \/ DeviceStops(d)

Spec == Init /\ [][Next]_vars

\* The thread runs; nothing is assumed of the devices.
FairSpec == Spec /\ WF_vars(Thread)

-----------------------------------------------------------------------------
\* Whatever the search took for an answer, the device served is one that is
\* there, until it is switched off: a late answer that stopped the search at a
\* wrong address, or noise, does not pass the identification.
ServesDevice == pc = "serving" => addr \in online \/ offIn = "serving"

\* On a good line the thread serves the first of the turnstiles that have been there
\* since the round began ("Auto detection of the first available device",
\* uMain.cpp:99), or a device before it that came up in time.
ServesFirst ==
    (medium = "good" /\ pc = "serving") => \A d \in early \cap Turnstiles : addr <= d

\* On a good line the thread gives up in two cases only, whatever devices are switched
\* on and off and when: the search of the TCP thread stopped at a device that is no
\* turnstile, or the device found is none or was switched off before it had
\* identified itself.  It never ends because nobody answers, nor at an address
\* that no device has.
EndsOnlyForCause ==
    medium = "good" =>
        /\ pc # "crashed"
        /\ pc = "noChannel" => channel = "tcp" /\ probe \in Devices \ Turnstiles
        /\ pc = "noDevice" => /\ addr \in Devices
                              /\ addr \notin Turnstiles \/ offIn = "identify"

\* On a good line with turnstiles only, one that is switched on and stays so is found
\* in the end, or another is, at any address up to the last and at whatever moment
\* of a round it came up - unless one that was found is switched off before it has
\* identified itself, which ends the thread.
DeviceIsFound ==
    (medium = "good" /\ [](online \subseteq Turnstiles /\ offIn # "identify")) =>
        \A d \in Devices : <>[](d \in online) => <>(pc = "serving")
=============================================================================
