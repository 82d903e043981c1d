---------------------------- MODULE TfmMainProofs ----------------------------
(***************************************************************************)
(* Theorems about TfmMain: about the search (Discovery), for any number of *)
(* addresses and devices, and about the client's operations (Controller),  *)
(* for every word size and any number of passes and operations; each of    *)
(* its own specification first, and at the end of both together.  Calls    *)
(* may fail, come late or be mixed up.                                     *)
(***************************************************************************)
EXTENDS TfmMain, TLAPS

-----------------------------------------------------------------------------
(* The search                                                              *)

\* What a call may come to has the types of err and late, and a success with
\* the identification comes from the device itself.
LEMMA OutcomesType ==
  ASSUME TypeOK, NEW d \in 0 .. LastProbe,
         NEW ok \in SUBSET Errors, NEW earlier \in SUBSET Errors,
         NEW o \in Outcomes(d, ok, earlier)
  PROVE  o.err \in Errors /\ o.late \subseteq Devices
<1>2. CASE o \in Answered(d, ok)
  <2>1. Answers(d, ok) \subseteq Errors
    BY DiscoveryAssumption DEF Answers, Errors
  <2>2. QED BY <1>2, <2>1 DEF Answered, TypeOK
<1>3. CASE o \in Silent(d)
  BY <1>3 DEF Silent, TypeOK, Errors, SlaveErrors
<1>4. CASE o \in Mistaken(d, earlier)
  <2>1. CASE o \in {[err |-> "merAddressError", late |-> late \ {j}] : j \in late \ {d}}
    BY <2>1 DEF TypeOK, Errors
  <2>2. CASE o \in {[err |-> e, late |-> late \ {d}] : e \in IF d \in late THEN earlier ELSE {}}
    BY <2>2 DEF TypeOK
  <2>3. QED BY <1>4, <2>1, <2>2 DEF Mistaken
<1>5. CASE o \in Disturbed
  BY <1>5 DEF Disturbed, TypeOK, Errors
<1>6. QED BY <1>2, <1>3, <1>4, <1>5 DEF Outcomes

LEMMA OnlyTheDeviceIdentifies ==
  ASSUME NEW d, NEW o \in Outcomes(d, {"merNone"}, {"merFuncError"}), o.err = "merNone"
  PROVE  d \in online
<1>1. CASE o \in Answered(d, {"merNone"})
  BY <1>1 DEF Answered
<1>2. o \notin Silent(d)
  BY DEF Silent
<1>3. o \notin Mistaken(d, {"merFuncError"})
  <2>1. o \notin {[err |-> "merAddressError", late |-> late \ {j}] : j \in late \ {d}}
    OBVIOUS
  <2>2. o \notin {[err |-> e, late |-> late \ {d}] :
                    e \in IF d \in late THEN {"merFuncError"} ELSE {}}
    OBVIOUS
  <2>3. QED BY <2>1, <2>2 DEF Mistaken
<1>4. o \notin Disturbed
  BY DEF Disturbed
<1>5. QED BY <1>1, <1>2, <1>3, <1>4 DEF Outcomes

\* On a good line, with nothing under way, a device answers exactly when it is
\* switched on, and a turnstile as one does.
LEMMA OutcomesOnGoodLine ==
  ASSUME NEW d, NEW ok, NEW earlier, medium = "good", late = {},
         NEW o \in Outcomes(d, ok, earlier)
  PROVE  /\ o.late = {}
         /\ \/ d \in online /\ (d \in Turnstiles => o.err \in ok)
            \/ d \notin online /\ o.err = "merTimeout"
<1>1. CASE o \in Answered(d, ok)
  BY <1>1 DEF Answered, Answers
<1>2. CASE o \in Silent(d)
  BY <1>2 DEF Silent
<1>3. o \notin Mistaken(d, earlier) /\ o \notin Disturbed
  BY DEF Mistaken, Disturbed
<1>4. QED BY <1>1, <1>2, <1>3 DEF Outcomes

LEMMA GoodLineIsOpen ==
  ASSUME NEW d, NEW o \in Outcomes(d, ProbeAnswers, Answers(d, ProbeAnswers)),
         medium = "good", late = {}
  PROVE  o.err # "merCantOpenPort"
<1>1. "merCantOpenPort" \notin Answers(d, ProbeAnswers)
  BY DiscoveryAssumption DEF Answers, SlaveErrors
<1>2. QED
  BY <1>1 DEF Outcomes, Answered, Silent, Mistaken, Disturbed

-----------------------------------------------------------------------------
\* Type correctness of the search: the probe stays within the addresses and an
\* address found is one of them, or 0 (FindFirst, StartFirstRTU, StartFirstTCP).
THEOREM TypeCorrect == Spec => []TypeOK
<1>0. /\ ProbeAnswers \in SUBSET Errors /\ 1 \in 1 .. LastProbe
      /\ \A d : Answers(d, ProbeAnswers) \in SUBSET Errors
  BY DiscoveryAssumption DEF Errors, SlaveErrors, Answers
<1>1. Init => TypeOK
  <2> SUFFICES ASSUME Init PROVE TypeOK
    OBVIOUS
  <2>1. pc = "open" /\ k \in 0 .. 3 /\ ChannelTypeOK
    BY DEF Init
  <2>2. probe \in 1 .. LastProbe /\ addr \in 0 .. LastProbe /\ err \in Errors
    BY DiscoveryAssumption DEF Init, Errors, SlaveErrors
  <2>3. online \subseteq Devices /\ early \subseteq Devices /\ late \subseteq Devices
        /\ offIn = "nowhere"
    BY DEF Init
  <2>4. QED BY <2>1, <2>2, <2>3 DEF TypeOK
<1>2. TypeOK /\ [Next]_vars => TypeOK'
  <2> SUFFICES ASSUME TypeOK, [Next]_vars PROVE TypeOK'
    OBVIOUS
  <2> USE DiscoveryAssumption
  <2>1. CASE Open
    <3>1. FirstProbe \in 1 .. LastProbe
      BY <1>0 DEF FirstProbe, TypeOK
    <3>2. early' \subseteq Devices /\ late' \subseteq Devices
      BY <2>1 DEF Open, TypeOK
    <3>3. QED BY <2>1, <3>1, <3>2 DEF Open, TypeOK, ChannelTypeOK
  <2>2. CASE OpenFails \/ PortMissing \/ Retry
    BY <2>2 DEF OpenFails, PortMissing, Retry, TypeOK, ChannelTypeOK
  <2>3. CASE Probe
    <3>1. PICK o \in Outcomes(probe, ProbeAnswers, Answers(probe, ProbeAnswers)) :
            /\ err' = o.err
            /\ late' = o.late
            /\ CASE Heard(o.err) -> Found(probe, o.err) /\ UNCHANGED probe
                 [] ~Heard(o.err) /\ probe = LastProbe -> Found(0, o.err) /\ UNCHANGED probe
                 [] OTHER -> probe' = probe + 1 /\ UNCHANGED <<addr, pc>>
      BY <2>3 DEF Probe
    <3>2. err' \in Errors /\ late' \subseteq Devices
      <4>1. probe \in 0 .. LastProbe
        BY DEF TypeOK
      <4>2. QED BY <1>0, <3>1, <4>1, OutcomesType
    <3>3. UNCHANGED <<channel, medium, online, early, offIn>> /\ k' = 0
      BY <2>3 DEF Probe
    <3>4. CASE Heard(o.err) \/ probe = LastProbe
      <4>1. PICK i \in {0, probe} : Found(i, o.err) /\ UNCHANGED probe
        BY <3>1, <3>4
      <4>2. addr' \in 0 .. LastProbe /\ pc' \in {"asleep", "identify", "noChannel"}
        BY <4>1 DEF Found, FoundRTU, FoundTCP, TypeOK
      <4>3. QED BY <3>2, <3>3, <4>1, <4>2 DEF TypeOK, ChannelTypeOK
    <3>5. CASE ~Heard(o.err) /\ probe # LastProbe
      <4>1. probe' = probe + 1 /\ UNCHANGED <<addr, pc>>
        BY <3>1, <3>5
      <4>2. probe' \in 1 .. LastProbe
        BY <3>5, <4>1 DEF TypeOK
      <4>3. QED BY <3>2, <3>3, <4>1, <4>2 DEF TypeOK, ChannelTypeOK
    <3>6. QED BY <3>4, <3>5
  <2>4. CASE Identify
    <3>1. PICK o \in Outcomes(addr, {"merNone"}, {"merFuncError"}) :
            /\ err' = o.err
            /\ late' = o.late
            /\ IF o.err # "merNone"
               THEN pc' = "noDevice" /\ UNCHANGED k
               ELSE \/ k < 3 /\ k' = k + 1 /\ UNCHANGED pc
                    \/ pc' = "serving" /\ UNCHANGED k
      BY <2>4 DEF Identify
    <3>2. err' \in Errors /\ late' \subseteq Devices
      <4>1. addr \in 0 .. LastProbe
        BY DEF TypeOK
      <4>2. {"merNone"} \in SUBSET Errors /\ {"merFuncError"} \in SUBSET Errors
        BY DEF Errors, SlaveErrors
      <4>3. QED BY <3>1, <4>1, <4>2, OutcomesType
    <3>3. k' \in 0 .. 3 /\ pc' \in {"noDevice", "identify", "serving"}
      BY <2>4, <3>1 DEF TypeOK, Identify
    <3>4. UNCHANGED <<channel, medium, probe, addr, online, early, offIn>>
      BY <2>4 DEF Identify
    <3>5. QED BY <3>2, <3>3, <3>4 DEF TypeOK, ChannelTypeOK
  <2>5. ASSUME NEW d \in Devices, DeviceStarts(d) \/ DeviceStops(d) PROVE TypeOK'
    BY <2>5 DEF DeviceStarts, DeviceStops, TypeOK, ChannelTypeOK
  <2>6. CASE UNCHANGED vars
    BY <2>6 DEF vars, TypeOK, ChannelTypeOK
  <2>7. QED BY <2>1, <2>2, <2>3, <2>4, <2>5, <2>6 DEF Next, Thread
<1>3. QED BY <1>1, <1>2, PTL DEF Spec

\* The device that is served is there until it is switched off, whatever the search
\* took for an answer (rtu_thread and tcp_thread serve only what
\* ReadDeviceIdentification read).
THEOREM OnlyDevicesAreServed == Spec => []ServesDevice
<1>1. Init => ServesDevice
  BY DEF Init, ServesDevice
<1>2. ServesDevice /\ [Next]_vars => ServesDevice'
  <2> SUFFICES ASSUME ServesDevice, [Next]_vars, pc' = "serving"
               PROVE  addr' \in online' \/ offIn' = "serving"
    BY DEF ServesDevice
  <2>1. CASE Open \/ OpenFails \/ PortMissing \/ Retry
    BY <2>1 DEF Open, OpenFails, PortMissing, Retry
  <2>2. CASE Probe
    BY <2>2 DEF Probe, Found, FoundRTU, FoundTCP
  <2>3. CASE Identify
    <3>1. PICK o \in Outcomes(addr, {"merNone"}, {"merFuncError"}) :
            /\ UNCHANGED <<addr, online>>
            /\ IF o.err # "merNone"
               THEN pc' = "noDevice"
               ELSE UNCHANGED pc \/ pc' = "serving"
      BY <2>3 DEF Identify
    <3>2. o.err = "merNone"
      BY <3>1
    <3>3. QED BY <3>1, <3>2, OnlyTheDeviceIdentifies
  <2>4. ASSUME NEW d \in Devices, DeviceStarts(d) \/ DeviceStops(d)
        PROVE  addr' \in online' \/ offIn' = "serving"
    BY <2>4 DEF DeviceStarts, DeviceStops, ServesDevice
  <2>5. CASE UNCHANGED vars
    BY <2>5 DEF vars, ServesDevice
  <2>6. QED BY <2>1, <2>2, <2>3, <2>4, <2>5 DEF Next, Thread
<1>3. QED BY <1>1, <1>2, PTL DEF Spec

-----------------------------------------------------------------------------
\* What holds at every step of a search on a good line: no answer is late, no
\* turnstile of this round has been passed, the device found is the first of
\* them or before it, and it was there when it answered the probe.
GoodSearch ==
    medium = "good" =>
        /\ late = {}
        /\ pc # "crashed"
        /\ pc = "probe" =>
               early \subseteq online /\ \A d \in early \cap Turnstiles : probe <= d
        /\ pc \in {"identify", "serving"} => \A d \in early \cap Turnstiles : addr <= d
        /\ pc = "identify" => addr \in Devices /\ (addr \in online \/ offIn = "identify")
        /\ pc = "noChannel" => channel = "tcp" /\ probe \in Devices \ Turnstiles
        /\ pc = "noDevice" => /\ addr \in Devices
                              /\ addr \notin Turnstiles \/ offIn = "identify"

LEMMA GoodSearchStarts == Init => GoodSearch
BY DEF Init, GoodSearch

LEMMA GoodSearchProbes ==
  ASSUME TypeOK, GoodSearch, Probe, medium = "good"
  PROVE  GoodSearch'
<1>1. PICK o \in Outcomes(probe, ProbeAnswers, Answers(probe, ProbeAnswers)) :
        /\ err' = o.err
        /\ late' = o.late
        /\ CASE Heard(o.err) -> Found(probe, o.err) /\ UNCHANGED probe
             [] ~Heard(o.err) /\ probe = LastProbe -> Found(0, o.err) /\ UNCHANGED probe
             [] OTHER -> probe' = probe + 1 /\ UNCHANGED <<addr, pc>>
  BY DEF Probe
<1>2. pc = "probe" /\ late = {} /\ early \subseteq online
      /\ \A d \in early \cap Turnstiles : probe <= d
  BY DEF Probe, GoodSearch
<1>3. UNCHANGED <<channel, medium, online, early, offIn>>
  BY DEF Probe
<1>4. /\ o.late = {}
      /\ \/ probe \in online /\ (probe \in Turnstiles => o.err \in ProbeAnswers)
         \/ probe \notin online /\ o.err = "merTimeout"
  BY <1>2, OutcomesOnGoodLine
<1>5. /\ probe \in online /\ probe \in Turnstiles =>
           o.err \in {"merNone", "merMBDataAddress", "merMBDataValue"}
      /\ online \subseteq Devices /\ probe # 0
  <2>1. probe \in online /\ probe \in Turnstiles =>
           o.err \in {"merNone", "merMBDataAddress", "merMBDataValue"}
    BY <1>4, DiscoveryAssumption
  <2>2. online \subseteq Devices /\ probe # 0
    BY DEF TypeOK
  <2>3. QED BY <2>1, <2>2
<1>6. CASE Heard(o.err)
  <2>1. Found(probe, o.err) /\ probe' = probe
    BY <1>1, <1>6
  <2>2. probe \in online
    BY <1>4, <1>6 DEF Heard
  <2>3. \/ addr' = probe /\ pc' = "identify"
        \/ pc' = "noChannel" /\ channel = "tcp" /\ probe \notin Turnstiles
    <3>1. CASE channel = "rtu"
      BY <1>5, <2>1, <3>1 DEF Found, FoundRTU
    <3>2. CASE channel # "rtu"
      <4>1. channel = "tcp"
        BY <3>2 DEF TypeOK, ChannelTypeOK
      <4>2. FoundTCP(probe, o.err)
        BY <2>1, <3>2 DEF Found
      <4>3. o.err # "merTimeout"
        BY <1>6 DEF Heard
      <4>4. QED BY <1>5, <2>2, <4>1, <4>2, <4>3 DEF FoundTCP
    <3>3. QED BY <3>1, <3>2
  <2>4. QED BY <1>1, <1>2, <1>3, <1>4, <1>5, <2>1, <2>2, <2>3 DEF GoodSearch
<1>7. ASSUME ~Heard(o.err)
      PROVE  o.err = "merTimeout" /\ probe \notin early \cap Turnstiles
  <2>1. probe \in early \cap Turnstiles => o.err \in {"merNone", "merMBDataAddress", "merMBDataValue"}
    BY <1>2, <1>5
  <2>2. o.err # "merCantOpenPort"
    BY <1>2, GoodLineIsOpen
  <2>3. QED BY <1>7, <2>1, <2>2 DEF Heard
<1>8. CASE ~Heard(o.err) /\ probe = LastProbe
  <2>1. Found(0, o.err) /\ o.err = "merTimeout"
    BY <1>1, <1>7, <1>8
  <2>2. pc' = "asleep"
    BY <2>1 DEF Found, FoundRTU, FoundTCP
  <2>3. QED BY <1>1, <1>3, <1>4, <2>2 DEF GoodSearch
<1>9. CASE ~Heard(o.err) /\ probe # LastProbe
  <2>1. probe' = probe + 1 /\ pc' = "probe"
    BY <1>1, <1>2, <1>9
  <2>2. \A d \in early \cap Turnstiles : probe + 1 <= d
    <3>1. probe \in Nat
          /\ \A d \in early \cap Turnstiles : d \in Nat /\ probe <= d /\ d # probe
      BY <1>2, <1>7, <1>9, DiscoveryAssumption DEF TypeOK
    <3>2. QED BY <3>1
  <2>3. QED BY <1>1, <1>2, <1>3, <1>4, <2>1, <2>2 DEF GoodSearch
<1>10. QED BY <1>6, <1>8, <1>9

LEMMA GoodSearchIdentifies ==
  ASSUME GoodSearch, Identify, medium = "good"
  PROVE  GoodSearch'
<1>1. PICK o \in Outcomes(addr, {"merNone"}, {"merFuncError"}) :
        /\ err' = o.err
        /\ late' = o.late
        /\ IF o.err # "merNone"
           THEN pc' = "noDevice" /\ UNCHANGED k
           ELSE \/ k < 3 /\ k' = k + 1 /\ UNCHANGED pc
                \/ pc' = "serving" /\ UNCHANGED k
  BY DEF Identify
<1>2. /\ pc = "identify" /\ late = {} /\ \A d \in early \cap Turnstiles : addr <= d
      /\ addr \in Devices /\ (addr \in online \/ offIn = "identify")
  BY DEF Identify, GoodSearch
<1>3. UNCHANGED <<addr, probe, online, early, offIn, channel, medium>>
  BY DEF Identify
<1>4. /\ o.late = {}
      /\ o.err # "merNone" => addr \notin Turnstiles \/ offIn = "identify"
  BY <1>2, OutcomesOnGoodLine
<1>5. CASE o.err # "merNone"
  BY <1>1, <1>2, <1>3, <1>4, <1>5 DEF GoodSearch
<1>6. CASE o.err = "merNone"
  <2>1. pc' \in {"identify", "serving"}
    BY <1>1, <1>2, <1>6
  <2>2. QED BY <1>1, <1>2, <1>3, <1>4, <2>1 DEF GoodSearch
<1>7. QED BY <1>5, <1>6

THEOREM GoodSearchHolds == Spec => []GoodSearch
<1>1. TypeOK /\ GoodSearch /\ [Next]_vars => GoodSearch'
  <2> SUFFICES ASSUME TypeOK, GoodSearch, [Next]_vars, medium' = "good" PROVE GoodSearch'
    BY DEF GoodSearch
  <2>1. medium = "good"
    BY DEF Next, Thread, Open, OpenFails, PortMissing, Probe, Retry, Identify, DeviceStarts,
       DeviceStops, vars
  <2>2. CASE Open
    <3>1. early' \subseteq online' /\ pc' = "probe" /\ late' = {}
      BY <2>1, <2>2 DEF Open, GoodSearch
    <3>2. \A d \in early' : probe' <= d
      BY <2>2 DEF Open, FirstProbe
    <3>3. QED BY <3>1, <3>2 DEF GoodSearch
  <2>3. ~OpenFails /\ ~PortMissing
    BY <2>1 DEF OpenFails, PortMissing
  <2>4. CASE Probe
    BY <2>1, <2>4, GoodSearchProbes
  <2>5. CASE Identify
    BY <2>1, <2>5, GoodSearchIdentifies
  <2>6. CASE Retry
    BY <2>1, <2>6 DEF Retry, GoodSearch
  <2>7. ASSUME NEW d \in Devices, DeviceStarts(d) PROVE GoodSearch'
    BY <2>1, <2>7 DEF DeviceStarts, GoodSearch
  <2>8. ASSUME NEW d \in Devices, DeviceStops(d) PROVE GoodSearch'
    <3>1. /\ online' = online \ {d} /\ early' = early \ {d}
          /\ offIn' = IF d = addr /\ pc \in {"identify", "serving"} THEN pc ELSE offIn
          /\ UNCHANGED <<channel, pc, probe, addr, late>>
      BY <2>8 DEF DeviceStops
    <3>2. pc = "identify" => addr \in online' \/ offIn' = "identify"
      BY <2>1, <3>1 DEF GoodSearch
    <3>3. pc \notin {"identify", "serving"} => offIn' = offIn
      BY <3>1
    <3>4. QED BY <2>1, <3>1, <3>2, <3>3 DEF GoodSearch
  <2>9. CASE UNCHANGED vars
    BY <2>1, <2>9 DEF vars, GoodSearch
  <2>10. QED BY <2>2, <2>3, <2>4, <2>5, <2>6, <2>7, <2>8, <2>9 DEF Next, Thread
<1>2. QED BY <1>1, GoodSearchStarts, TypeCorrect, PTL DEF Spec

\* On a good line the device served comes before every other turnstile that has been
\* there since the round began (FindFirst probes in order and stops at an answer).
THEOREM FirstIsServed == Spec => []ServesFirst
<1>1. GoodSearch => ServesFirst
  BY DEF GoodSearch, ServesFirst
<1>2. QED BY <1>1, GoodSearchHolds, PTL

\* On a good line the thread ends only at a device that is no turnstile, or for one
\* that was switched off after it had answered the probe, whatever devices come and
\* go (StartFirstTCP takes every error but a timeout of the last probe for final).
THEOREM EndsOnGoodLine == Spec => []EndsOnlyForCause
<1>1. GoodSearch => EndsOnlyForCause
  BY DEF GoodSearch, EndsOnlyForCause
<1>2. QED BY <1>1, GoodSearchHolds, PTL

-----------------------------------------------------------------------------
(* The client's operations                                                 *)

LEMMA SettingsExpanded ==
    Settings = {"EnterGreen", "EnterRed", "ExitGreen", "ExitRed", "EngineTime", "Demo",
                "PassState", "AccumulPas", "AfterPermissionTime", "AfterStartPassTime",
                "ControllerSpeed", "ScannerSpeed"}
BY DEF Settings, Place

LEMMA PlaceType == \A s \in Settings : Place[s].reg \in Nat /\ Place[s].qty \in 1 .. 3
BY SettingsExpanded DEF Place

LEMMA RegistersDisjoint ==
  ASSUME NEW s \in Settings, NEW t \in Settings, s # t,
         NEW r \in Registers(s), r \in Registers(t)
  PROVE  {s, t} = {"ExitGreen", "ExitRed"}
BY SettingsExpanded DEF Place, Registers

-----------------------------------------------------------------------------
LEMMA UnderwayType ==
    /\ \A u \in Underway : u.word \in 0 .. WordSize - 1
    /\ \A w \in 0 .. WordSize - 1 : OfRead(w) \in Underway
    /\ \A q \in 1 .. 3 : OfWrite(q) \in Underway
    /\ Nothing \in Underway
<1>1. 0 \in 0 .. WordSize - 1
  BY ControllerAssumption
<1>2. ASSUME NEW u \in Underway PROVE u.word \in 0 .. WordSize - 1
  <2>1. CASE u = Nothing
    BY <1>1, <2>1 DEF Nothing
  <2>2. CASE u \in {OfRead(w) : w \in 0 .. WordSize - 1}
    BY <2>2 DEF OfRead
  <2>3. CASE u \in {OfWrite(q) : q \in 1 .. 3}
    BY <1>1, <2>3 DEF OfWrite
  <2>4. QED BY <2>1, <2>2, <2>3 DEF Underway
<1>3. \A w \in 0 .. WordSize - 1 : OfRead(w) \in Underway
  BY DEF Underway
<1>4. \A q \in 1 .. 3 : OfWrite(q) \in Underway
  BY DEF Underway
<1>5. QED BY <1>2, <1>3, <1>4 DEF Underway

\* What a call may come to has the types of the program's variables.
LEMMA ResultsType ==
  ASSUME underway \in Underway, NEW own \in Underway, NEW o \in Results(own)
  PROVE  /\ o.err \in {"merNone", "merTimeout", "merFuncError"}
         /\ o.word \in {own.word, underway.word, 0}
         /\ o.word \in 0 .. WordSize - 1
         /\ o.done \in BOOLEAN
         /\ o.left \in {own, Nothing, underway}
         /\ o.left \in Underway
<1>0. /\ 0 \in 0 .. WordSize - 1 /\ Nothing \in Underway
      /\ own.word \in 0 .. WordSize - 1 /\ underway.word \in 0 .. WordSize - 1
  BY UnderwayType, ControllerAssumption
<1> DEFINE Of(e, w, b, l) == [err |-> e, word |-> w, done |-> b, left |-> l]
<1>1. PICK e \in {"merNone", "merTimeout", "merFuncError"},
           w \in {own.word, underway.word, 0},
           b \in BOOLEAN, l \in {own, Nothing, underway} : o = Of(e, w, b, l)
  <2>1. CASE o \in {[err |-> "merNone", word |-> own.word, done |-> TRUE, left |-> l] :
                      l \in {Nothing, underway}}
    BY <2>1
  <2>2. CASE o \in TimesOut(own)
    <3>1. \/ o = Of("merTimeout", 0, TRUE, own)
          \/ \E b \in BOOLEAN, l \in {Nothing, underway} : o = Of("merTimeout", 0, b, l)
      BY <2>2 DEF TimesOut
    <3>2. QED BY <3>1
  <2>3. CASE o \in Mixed(own)
    BY <2>3 DEF Mixed
  <2>4. QED BY <2>1, <2>2, <2>3 DEF Results
<1>2. o.err = e /\ o.word = w /\ o.done = b /\ o.left = l
  BY <1>1
<1>3. QED BY <1>0, <1>1, <1>2

\* With nothing under way a call that succeeds was executed and has its own
\* answer; one that fails timed out.
LEMMA CleanResults ==
  ASSUME underway = Nothing, NEW own, NEW o \in Results(own)
  PROVE  \/ /\ o.err = "merNone" /\ o.word = own.word
            /\ o.done = TRUE /\ o.left = Nothing
         \/ o.err = "merTimeout" /\ o.word = 0 /\ o.left \in {own, Nothing}
<1>1. CASE o \in {[err |-> "merNone", word |-> own.word, done |-> TRUE, left |-> l] :
                    l \in {Nothing, underway}}
  BY <1>1
<1>2. CASE o \in TimesOut(own)
  BY <1>2 DEF TimesOut
<1>3. QED BY <1>1, <1>2 DEF Results

-----------------------------------------------------------------------------
\* Type correctness of TfmMain's operations: words stay words, counters stay
\* within 32 bits, whatever answers come late or not at all.
THEOREM ClientTypeCorrect == ClientSpec => []ClientTypeOK
<1> USE ControllerAssumption
<1>1. ClientInit => ClientTypeOK
  <2> SUFFICES ASSUME ClientInit PROVE ClientTypeOK
    OBVIOUS
  <2>1. 0 \in 0 .. WordSize - 1
    OBVIOUS
  <2>2. Zero \in Counter /\ NoOp \in Operations
    BY <2>1 DEF Zero, Counter, NoOp, Operations, Directions
  <2>3. Nothing \in Underway
    BY DEF Underway
  <2>4. QED BY <2>1, <2>2, <2>3 DEF ClientInit, ClientTypeOK
<1>2. ClientTypeOK /\ [ClientNext]_<<channel, medium, client>> => ClientTypeOK'
  <2> SUFFICES ASSUME ClientTypeOK, [ClientNext]_<<channel, medium, client>> PROVE ClientTypeOK'
    OBVIOUS
  <2>0. Free \in 0 .. WordSize - 1
    BY DEF Free
  <2>1. CASE Start
    <3>1. op' \in Operations /\ ops' \in Nat /\ clean' \in BOOLEAN /\ before' \in Counter
      BY <2>1 DEF Start, Begins, NoOp, Operations, Directions, ClientTypeOK
    <3>2. PICK e \in {"merNone", "merTimeout", "merFuncError", "merCantOpenPort"} :
            IF e \in {"merNone", "merTimeout"}
            THEN /\ FController' = "open"
                 /\ ModbusError' = IF channel = "rtu" THEN "merNone" ELSE ModbusError
            ELSE FController' = "null" /\ ModbusError' = "merCantOpenPort"
      BY <2>1 DEF Start
    <3>3. underway' \in Underway
      BY <2>1, UnderwayType DEF Start, ClientTypeOK
    <3>4. QED BY <2>1, <3>1, <3>2, <3>3 DEF Start, Begins, ClientTypeOK, ChannelTypeOK, turnstile
  <2>2. ASSUME NEW s \in Settings, Set(s) PROVE ClientTypeOK'
    <3>0. op' = [name |-> "set", dir |-> "enter", to |-> s] /\ op' \in Operations
      BY <2>2 DEF Set, Begins, NoOp, Operations, Directions
    <3>1. op' \in Operations /\ ops' \in Nat /\ clean' \in BOOLEAN /\ before' \in Counter
      BY <2>2, <3>0 DEF Set, Begins, ClientTypeOK, Operations, NoOp
    <3>2. PICK o \in Results(OfWrite(Place[s].qty)) :
            /\ ModbusError' = o.err
            /\ underway' = o.left
            /\ holds' = IF o.done THEN [r \in AllRegisters |->
                                          IF r \in Registers(s) THEN s ELSE holds[r]]
                        ELSE holds
            /\ confirmed' = IF o.err = "merNone" /\ underway = Nothing
                            THEN confirmed \cup {s} ELSE confirmed \ {s}
      BY <2>2 DEF Set
    <3>3. OfWrite(Place[s].qty) \in Underway
      BY UnderwayType, PlaceType
    <3>4. o.err \in {"merNone", "merTimeout", "merFuncError"} /\ o.left \in Underway
      BY <3>3, ResultsType DEF ClientTypeOK
    <3>5. holds' \in [AllRegisters -> Settings \cup {"factory"}]
      BY <3>2 DEF ClientTypeOK
    <3>6. confirmed' \subseteq Settings
      BY <3>2 DEF ClientTypeOK
    <3>7. QED BY <2>2, <3>1, <3>2, <3>4, <3>5, <3>6 DEF Set, Begins, ClientTypeOK, ChannelTypeOK
  <2>3. ASSUME NEW d \in Directions, NEW to \in {"eClosed", "eFree"}, SetPassage(d, to)
        PROVE  ClientTypeOK'
    <3>1. op' \in Operations /\ ops' \in Nat /\ clean' \in BOOLEAN /\ before' \in Counter
      BY <2>3 DEF SetPassage, Begins, Operations, Directions, ClientTypeOK
    <3>2. PICK o \in Results(OfWrite(1)) :
            /\ ModbusError' = o.err
            /\ underway' = o.left
            /\ passages' = IF o.done
                           THEN [passages EXCEPT ![d] = IF to = "eFree" THEN Free ELSE 0]
                           ELSE passages
            /\ next' = IF WriteFailed(d, o.err) THEN "idle" ELSE "readback"
      BY <2>3 DEF SetPassage
    <3>3. OfWrite(1) \in Underway
      BY UnderwayType
    <3>4. o.err \in {"merNone", "merTimeout", "merFuncError"} /\ o.left \in Underway
      BY <3>3, ResultsType DEF ClientTypeOK
    <3>5. passages' \in [Directions -> {0, Free}] /\ next' \in {"idle", "readback"}
      BY <3>2 DEF ClientTypeOK
    <3>6. QED BY <2>3, <3>1, <3>2, <3>4, <3>5 DEF SetPassage, ClientTypeOK, ChannelTypeOK
  <2>4. CASE ReadBack
    <3> DEFINE Shows(w, o) ==
                 /\ ModbusError' = o.err
                 /\ underway' = o.left
                 /\ rgState' = [rgState EXCEPT ![op.dir] =
                                 IF o.word = 0 THEN "eClosed" ELSE "eFree"]
    <3>0. PICK w \in IF op.dir = "exit" THEN {passages["exit"]} ELSE {0, 1} :
            \E o \in Results(OfRead(w)) : Shows(w, o)
      BY <2>4 DEF ReadBack
    <3>1. PICK o \in Results(OfRead(w)) : Shows(w, o)
      BY <3>0
    <3>2. w \in 0 .. WordSize - 1
      BY <2>0 DEF ClientTypeOK, Directions
    <3>3. o.err \in {"merNone", "merTimeout", "merFuncError"} /\ o.left \in Underway
      BY <3>2, UnderwayType, ResultsType DEF ClientTypeOK
    <3>4. rgState' \in [Directions -> {"eClosed", "eFree"}]
      BY <3>1 DEF ClientTypeOK
    <3>5. QED BY <2>4, <3>1, <3>3, <3>4 DEF ReadBack, ClientTypeOK, ChannelTypeOK, turnstile, ghosts
  <2>5. ASSUME NEW d \in Directions, ReadHigh(d) PROVE ClientTypeOK'
    <3>0. op' = [name |-> "count", dir |-> d, to |-> "none"] /\ op' \in Operations
      BY <2>5 DEF ReadHigh, Begins, NoOp, Operations, Directions
    <3>1. op' \in Operations /\ ops' \in Nat /\ clean' \in BOOLEAN /\ before' \in Counter
      BY <2>5, <3>0 DEF ReadHigh, Begins, ClientTypeOK, Operations, NoOp
    <3>2. PICK o \in Results(OfRead(counters[d].hi)) :
            /\ high' = o.word
            /\ underway' = o.left
            /\ highRead' = (o.err = "merNone")
      BY <2>5 DEF ReadHigh
    <3>3. counters[d].hi \in 0 .. WordSize - 1
      BY DEF ClientTypeOK, Counter
    <3>4. o.word \in 0 .. WordSize - 1 /\ o.left \in Underway
      BY <3>3, UnderwayType, ResultsType DEF ClientTypeOK
    <3>5. QED BY <2>5, <3>1, <3>2, <3>4 DEF ReadHigh, ClientTypeOK, ChannelTypeOK, turnstile
  <2>6. CASE ReadLow
    <3>1. PICK o \in Results(OfRead(counters[op.dir].lo)) :
            /\ ModbusError' = o.err
            /\ underway' = o.left
            /\ EnterCount' = IF o.err = "merNone" THEN [hi |-> high, lo |-> o.word]
                             ELSE EnterCount
      BY <2>6 DEF ReadLow
    <3>2. counters[op.dir].lo \in 0 .. WordSize - 1
      BY DEF ClientTypeOK, Counter, Operations
    <3>3. /\ o.err \in {"merNone", "merTimeout", "merFuncError"}
          /\ o.word \in 0 .. WordSize - 1 /\ o.left \in Underway
      BY <3>2, UnderwayType, ResultsType DEF ClientTypeOK
    <3>4. EnterCount' \in Counter
      BY <3>1, <3>3 DEF Counter, ClientTypeOK
    <3>5. QED BY <2>6, <3>1, <3>3, <3>4 DEF ReadLow, ClientTypeOK, ChannelTypeOK, turnstile, ghosts
  <2>7. ASSUME NEW m \in {"set", "passage"}, NoController([NoOp EXCEPT !.name = m])
        PROVE  ClientTypeOK'
    BY <2>7 DEF NoController, Begins, NoOp, Operations, Directions, ClientTypeOK,
                ChannelTypeOK, turnstile
  <2>8. ASSUME NEW d \in Directions, Pass(d) PROVE ClientTypeOK'
    <3>1. counters[d] \in Counter
      BY DEF ClientTypeOK
    <3>2. Plus1(counters[d]) \in Counter
      BY <2>8, <3>1 DEF Pass, Plus1, Counter
    <3>3. counters' \in [Directions -> Counter] /\ passed' \in Nat
      BY <2>8, <3>2 DEF Pass, ClientTypeOK
    <3>4. QED BY <2>8, <3>3 DEF Pass, ClientTypeOK, ChannelTypeOK, program, ghosts
  <2>9. CASE UNCHANGED <<channel, medium, client>>
    BY <2>9 DEF client, program, turnstile, ghosts, ClientTypeOK, ChannelTypeOK
  <2>10. QED BY <2>1, <2>2, <2>3, <2>4, <2>5, <2>6, <2>7, <2>8, <2>9 DEF ClientNext, Client
<1>3. QED BY <1>1, <1>2, PTL DEF ClientSpec

-----------------------------------------------------------------------------
\* a <= b as numbers of two words.
NoMore(a, b) == a.hi < b.hi \/ (a.hi = b.hi /\ a.lo <= b.lo)

\* Between the two reads of a counter: the high word is one the turnstile has
\* had since the call began, or 0 with its answer perhaps still to come; after
\* them, the number is one it has reached.
CountInv ==
    /\ next = "low" => op.name = "count"
    /\ next = "readback" => op.name = "passage"
    /\ (next = "low" /\ clean) =>
           IF highRead
           THEN underway = Nothing /\ before.hi <= high /\ high <= counters[op.dir].hi
           ELSE /\ high = 0
                /\ underway.word <= counters[op.dir].hi
    /\ (next = "low" /\ clean) => before.hi <= counters[op.dir].hi
    /\ CountIsPlausible

\* A pass takes no counter back.
LEMMA CountsOn ==
  ASSUME ControllerAssumption, ClientTypeOK, NEW d \in Directions, Pass(d)
  PROVE  \A e \in Directions : NoMore(counters[e], counters'[e])
<1>1. counters' = [counters EXCEPT ![d] = Plus1(@)]
  BY DEF Pass
<1>2. \A e \in Directions : counters[e] \in Counter
  BY DEF ClientTypeOK
<1>3. NoMore(counters[d], Plus1(counters[d]))
  BY <1>2 DEF NoMore, Plus1, Counter
<1>4. \A e \in Directions : NoMore(counters[e], counters[e])
  BY <1>2 DEF NoMore, Counter
<1>5. counters'[d] = Plus1(counters[d]) /\ \A e \in Directions \ {d} : counters'[e] = counters[e]
  BY <1>1 DEF ClientTypeOK
<1>6. QED BY <1>3, <1>4, <1>5

\* A count handed over is one the turnstile has reached, whatever is counted
\* between its reads (TController::GetEnterCount, GetExitCount).
THEOREM CountsArePlausible == ClientSpec => []CountIsPlausible
<1> USE ControllerAssumption
<1>1. ClientInit => CountInv
  BY DEF ClientInit, CountInv, CountIsPlausible, Returned, NoOp
<1>2. ClientTypeOK /\ CountInv /\ [ClientNext]_<<channel, medium, client>> => CountInv'
  <2> SUFFICES ASSUME ClientTypeOK, CountInv, [ClientNext]_<<channel, medium, client>>
               PROVE  CountInv'
    OBVIOUS
  <2>1. CASE Start
    BY <2>1 DEF Start, Begins, NoOp, CountInv, CountIsPlausible, Returned
  <2>2. ASSUME NEW s \in Settings, Set(s) PROVE CountInv'
    BY <2>2 DEF Set, Begins, NoOp, CountInv, CountIsPlausible, Returned
  <2>3. ASSUME NEW d \in Directions, NEW to \in {"eClosed", "eFree"}, SetPassage(d, to)
        PROVE  CountInv'
    <3>1. op'.name = "passage" /\ next' # "low"
      BY <2>3 DEF SetPassage, Begins
    <3>2. QED BY <3>1 DEF CountInv, CountIsPlausible, Returned
  <2>4. CASE ReadBack
    BY <2>4 DEF ReadBack, CountInv, CountIsPlausible, Returned
  <2>5. ASSUME NEW d \in Directions, ReadHigh(d) PROVE CountInv'
    <3>1. PICK o \in Results(OfRead(counters[d].hi)) :
            high' = o.word /\ underway' = o.left /\ highRead' = (o.err = "merNone")
      BY <2>5 DEF ReadHigh
    <3>2. /\ op'.dir = d /\ op'.name = "count" /\ next' = "low" /\ counters' = counters
          /\ before' = counters[d] /\ clean' = (underway = Nothing)
      BY <2>5 DEF ReadHigh, Begins, NoOp, turnstile
    <3>3. counters[d].hi \in 0 .. WordSize - 1
      BY DEF ClientTypeOK, Counter
    <3>4. CASE underway = Nothing
      <4>1. \/ /\ o.err = "merNone" /\ o.word = counters[d].hi /\ o.left = Nothing
            \/ /\ o.err = "merTimeout" /\ o.word = 0
               /\ o.left.word \in {0, counters[d].hi}
        <5> DEFINE own == OfRead(counters[d].hi)
        <5>1. own.word = counters[d].hi /\ Nothing.word = 0
          BY DEF OfRead, Nothing
        <5>2. \/ /\ o.err = "merNone" /\ o.word = own.word /\ o.left = Nothing
              \/ /\ o.err = "merTimeout" /\ o.word = 0 /\ o.left \in {own, Nothing}
          BY <3>4, CleanResults
        <5> HIDE DEF own
        <5>3. QED BY <5>1, <5>2
      <4>2. op'.dir = d /\ counters'[op'.dir].hi = counters[d].hi /\ before'.hi = counters[d].hi
        BY <3>2
      <4>3. IF highRead'
            THEN underway' = Nothing /\ before'.hi <= high' /\ high' <= counters'[op'.dir].hi
            ELSE high' = 0 /\ underway'.word <= counters'[op'.dir].hi
        <5>0. high' = o.word /\ underway' = o.left
          BY <3>1
        <5>1. CASE o.err = "merNone"
          <6>1. highRead'
            BY <3>1, <5>1
          <6>2. underway' = Nothing /\ high' = counters[d].hi
            BY <4>1, <5>0, <5>1
          <6>3. QED BY <3>3, <4>2, <6>1, <6>2
        <5>2. CASE o.err = "merTimeout"
          <6>1. ~highRead'
            BY <3>1, <5>2
          <6>2. high' = 0 /\ underway'.word \in {0, counters[d].hi}
            BY <4>1, <5>0, <5>2
          <6>3. QED BY <3>3, <4>2, <6>1, <6>2
        <5>3. QED BY <4>1, <5>1, <5>2
      <4>4. CountIsPlausible'
        BY <3>2 DEF CountIsPlausible, Returned
      <4>5. QED BY <3>2, <3>3, <4>2, <4>3, <4>4 DEF CountInv
    <3>5. CASE underway # Nothing
      BY <3>2, <3>5 DEF CountInv, CountIsPlausible, Returned
    <3>6. QED BY <3>4, <3>5
  <2>6. CASE ReadLow
    <3>1. PICK o \in Results(OfRead(counters[op.dir].lo)) :
            /\ ModbusError' = o.err
            /\ EnterCount' = IF o.err = "merNone" THEN [hi |-> high, lo |-> o.word]
                             ELSE EnterCount
      BY <2>6 DEF ReadLow
    <3>2. next' = "idle" /\ UNCHANGED <<op, counters, clean, before, highRead>>
      BY <2>6 DEF ReadLow, turnstile, ghosts
    <3>3. ASSUME clean, o.err = "merNone"
          PROVE  /\ NoMore(EnterCount', counters[op.dir])
                 /\ highRead => EnterCount'.hi >= before.hi
      <4>1. /\ counters[op.dir] \in Counter /\ before \in Counter
            /\ high \in 0 .. WordSize - 1
        BY DEF ClientTypeOK, Operations
      <4>2. EnterCount' = [hi |-> high, lo |-> o.word]
        BY <3>1, <3>3
      <4>3. CASE highRead
        <5>1. underway = Nothing /\ before.hi <= high /\ high <= counters[op.dir].hi
          BY <2>6, <3>3, <4>3 DEF ReadLow, CountInv
        <5>2. o.word = counters[op.dir].lo
          BY <3>3, <5>1, CleanResults DEF OfRead
        <5>3. QED BY <4>1, <4>2, <5>1, <5>2 DEF NoMore, Counter
      <4>4. CASE ~highRead
        <5>1. high = 0 /\ underway.word <= counters[op.dir].hi
          BY <2>6, <3>3, <4>4 DEF ReadLow, CountInv
        <5>2. OfRead(counters[op.dir].lo) \in Underway
          BY <4>1, UnderwayType DEF Counter
        <5>3. o.word \in {counters[op.dir].lo, underway.word, 0}
          BY <5>2, ResultsType DEF ClientTypeOK, OfRead
        <5>4. counters[op.dir].hi = 0 => underway.word = 0
          BY <5>1, UnderwayType DEF ClientTypeOK
        <5>5. counters[op.dir].hi \in Nat /\ counters[op.dir].lo \in Nat
          BY <4>1 DEF Counter
        <5>6. counters[op.dir].hi = 0 => o.word <= counters[op.dir].lo
          BY <5>3, <5>4, <5>5
        <5>7. QED BY <4>2, <4>4, <5>1, <5>5, <5>6 DEF NoMore
      <4>5. QED BY <4>3, <4>4 DEF ClientTypeOK
    <3>4. QED BY <3>1, <3>2, <3>3 DEF CountInv, CountIsPlausible, Returned, NoMore
  <2>7. ASSUME NEW m \in {"set", "passage"}, NoController([NoOp EXCEPT !.name = m])
        PROVE  CountInv'
    BY <2>7 DEF NoController, Begins, NoOp, CountInv, CountIsPlausible, Returned
  <2>8. ASSUME NEW d \in Directions, Pass(d) PROVE CountInv'
    <3>1. \A e \in Directions : NoMore(counters[e], counters'[e])
      BY <2>8, CountsOn
    <3>2. UNCHANGED <<next, op, ModbusError, high, EnterCount, underway, clean, before, highRead>>
      BY <2>8 DEF Pass, program, ghosts
    <3>3. /\ EnterCount \in Counter /\ before \in Counter /\ op.dir \in Directions
          /\ high \in 0 .. WordSize - 1 /\ underway.word \in 0 .. WordSize - 1
          /\ \A e \in Directions : counters[e] \in Counter
      BY UnderwayType DEF ClientTypeOK, Operations
    <3>4. \A e \in Directions : counters'[e] \in Counter
      <4>1. Plus1(counters[d]) \in Counter
        BY <2>8, <3>3 DEF Pass, Plus1, Counter
      <4>2. QED BY <2>8, <3>3, <4>1 DEF Pass, ClientTypeOK
    <3>5. CountIsPlausible'
      <4>1. ASSUME NEW e \in Directions, Returned("count", e)'
            PROVE  /\ NoMore(EnterCount, counters'[e])
                   /\ highRead => EnterCount.hi >= before.hi
        <5>1. NoMore(EnterCount, counters[e]) /\ (highRead => EnterCount.hi >= before.hi)
          BY <3>2, <4>1 DEF CountInv, CountIsPlausible, Returned, NoMore
        <5>2. QED BY <3>1, <3>3, <3>4, <5>1 DEF NoMore, Counter
      <4>2. QED BY <3>2, <4>1 DEF CountIsPlausible, NoMore
    <3>6. counters[op.dir].hi <= counters'[op.dir].hi
      BY <3>1, <3>3, <3>4 DEF NoMore, Counter
    <3>7. QED BY <3>2, <3>3, <3>4, <3>5, <3>6 DEF CountInv, Counter
  <2>9. CASE UNCHANGED <<channel, medium, client>>
    BY <2>9 DEF client, program, turnstile, ghosts, CountInv, CountIsPlausible, Returned
  <2>10. QED BY <2>1, <2>2, <2>3, <2>4, <2>5, <2>6, <2>7, <2>8, <2>9 DEF ClientNext, Client
<1>3. CountInv => CountIsPlausible
  BY DEF CountInv
<1>4. QED BY <1>1, <1>2, <1>3, ClientTypeCorrect, PTL DEF ClientSpec

-----------------------------------------------------------------------------
\* Between SetExit's write and its read back the exit is as it was told to be.
ExitInv ==
    /\ (next = "readback" /\ op.dir = "exit" /\ clean) =>
           /\ underway = Nothing
           /\ op.to \in {"eClosed", "eFree"}
           /\ passages["exit"] = IF op.to = "eFree" THEN Free ELSE 0
    /\ next = "low" => op.name = "count"
    /\ ExitShown

\* SetExit that returns without error has opened or closed the exit, and shows
\* it so (TfmMain::SetExit).
THEOREM ExitIsShown == ClientSpec => []ExitShown
<1> USE ControllerAssumption
<1>1. ClientInit => ExitInv
  BY DEF ClientInit, ExitInv, ExitShown, Returned, NoOp
<1>2. ClientTypeOK /\ ExitInv /\ [ClientNext]_<<channel, medium, client>> => ExitInv'
  <2> SUFFICES ASSUME ClientTypeOK, ExitInv, [ClientNext]_<<channel, medium, client>>
               PROVE  ExitInv'
    OBVIOUS
  <2>1. CASE Start
    BY <2>1 DEF Start, Begins, NoOp, ExitInv, ExitShown, Returned
  <2>2. ASSUME NEW s \in Settings, Set(s) PROVE ExitInv'
    BY <2>2 DEF Set, Begins, NoOp, ExitInv, ExitShown, Returned
  <2>3. ASSUME NEW d \in Directions, NEW to \in {"eClosed", "eFree"}, SetPassage(d, to)
        PROVE  ExitInv'
    <3>1. PICK o \in Results(OfWrite(1)) :
            /\ ModbusError' = o.err
            /\ underway' = o.left
            /\ passages' = IF o.done
                           THEN [passages EXCEPT ![d] = IF to = "eFree" THEN Free ELSE 0]
                           ELSE passages
            /\ next' = IF WriteFailed(d, o.err) THEN "idle" ELSE "readback"
      BY <2>3 DEF SetPassage
    <3>2. op' = [name |-> "passage", dir |-> d, to |-> to]
      BY <2>3 DEF SetPassage, Begins
    <3>3. clean' => underway = Nothing
      BY <2>3 DEF SetPassage, Begins
    <3>4. CASE d = "exit" /\ clean' /\ o.err = "merNone"
      <4>1. o.done = TRUE /\ o.left = Nothing
        BY <3>3, <3>4, CleanResults
      <4>2. passages'["exit"] = IF to = "eFree" THEN Free ELSE 0
        BY <3>1, <3>4, <4>1 DEF ClientTypeOK
      <4>3. next' = "readback"
        BY <3>1, <3>4 DEF WriteFailed
      <4>4. QED BY <3>1, <3>2, <4>1, <4>2, <4>3 DEF ExitInv, ExitShown, Returned
    <3>5. CASE d = "exit" /\ clean' /\ o.err # "merNone"
      <4>1. next' = "idle" /\ ModbusError' # "merNone"
        BY <3>1, <3>5 DEF WriteFailed
      <4>2. QED BY <4>1 DEF ExitInv, ExitShown, Returned
    <3>6. CASE d # "exit" \/ ~clean'
      <4>1. next' # "low"
        BY <3>1
      <4>2. QED BY <3>2, <3>6, <4>1 DEF ExitInv, ExitShown, Returned
    <3>7. QED BY <3>4, <3>5, <3>6
  <2>4. CASE ReadBack
    <3> DEFINE Shows(w, o) ==
                 /\ ModbusError' = o.err
                 /\ underway' = o.left
                 /\ rgState' = [rgState EXCEPT ![op.dir] =
                                 IF o.word = 0 THEN "eClosed" ELSE "eFree"]
    <3>0. PICK w \in IF op.dir = "exit" THEN {passages["exit"]} ELSE {0, 1} :
            \E o \in Results(OfRead(w)) : Shows(w, o)
      BY <2>4 DEF ReadBack
    <3>1. PICK o \in Results(OfRead(w)) : Shows(w, o)
      BY <3>0
    <3>2. next = "readback" /\ next' = "idle" /\ UNCHANGED <<op, clean, passages>>
      BY <2>4 DEF ReadBack, turnstile, ghosts
    <3>3. ASSUME op.dir = "exit", clean, o.err = "merNone"
          PROVE  /\ passages["exit"] = IF op.to = "eFree" THEN Free ELSE 0
                 /\ rgState'["exit"] = op.to
      <4>1. /\ underway = Nothing /\ op.to \in {"eClosed", "eFree"}
            /\ passages["exit"] = IF op.to = "eFree" THEN Free ELSE 0
        BY <3>2, <3>3 DEF ExitInv
      <4>2. w = passages["exit"]
        BY <3>3
      <4>3. o.word = w
        BY <3>3, <4>1, CleanResults DEF OfRead
      <4>4. Free # 0
        BY DEF Free
      <4>5. rgState'["exit"] = IF w = 0 THEN "eClosed" ELSE "eFree"
        BY <3>1, <3>3, <4>3 DEF ClientTypeOK, Directions
      <4>6. QED BY <4>1, <4>2, <4>4, <4>5
    <3>4. QED BY <3>1, <3>2, <3>3 DEF ExitInv, ExitShown, Returned
  <2>5. ASSUME NEW d \in Directions, ReadHigh(d) PROVE ExitInv'
    BY <2>5 DEF ReadHigh, Begins, NoOp, ExitInv, ExitShown, Returned
  <2>6. CASE ReadLow
    <3>1. op' = op /\ op.name = "count" /\ next' = "idle"
      BY <2>6 DEF ReadLow, ExitInv
    <3>2. QED BY <3>1 DEF ExitInv, ExitShown, Returned
  <2>7. ASSUME NEW m \in {"set", "passage"}, NoController([NoOp EXCEPT !.name = m])
        PROVE  ExitInv'
    BY <2>7 DEF NoController, Begins, NoOp, ExitInv, ExitShown, Returned
  <2>8. ASSUME NEW d \in Directions, Pass(d) PROVE ExitInv'
    BY <2>8 DEF Pass, program, ghosts, ExitInv, ExitShown, Returned
  <2>9. CASE UNCHANGED <<channel, medium, client>>
    BY <2>9 DEF client, program, turnstile, ghosts, ExitInv, ExitShown, Returned
  <2>10. QED BY <2>1, <2>2, <2>3, <2>4, <2>5, <2>6, <2>7, <2>8, <2>9 DEF ClientNext, Client
<1>3. ExitInv => ExitShown
  BY DEF ExitInv
<1>4. QED BY <1>1, <1>2, <1>3, ClientTypeCorrect, PTL DEF ClientSpec

-----------------------------------------------------------------------------
\* A setting written with success keeps its registers, whatever else is set,
\* but for the indicators of the exit, whose registers overlap.
THEOREM SettingsAreKept == ClientSpec => []SettingsStay
<1>1. ClientInit => SettingsStay
  BY DEF ClientInit, SettingsStay
<1>2. ClientTypeOK /\ SettingsStay /\ [ClientNext]_<<channel, medium, client>> => SettingsStay'
  <2> SUFFICES ASSUME ClientTypeOK, SettingsStay, [ClientNext]_<<channel, medium, client>>
               PROVE  SettingsStay'
    OBVIOUS
  <2>1. ASSUME NEW s \in Settings, Set(s) PROVE SettingsStay'
    <3>1. PICK o \in Results(OfWrite(Place[s].qty)) :
            /\ holds' = IF o.done THEN [r \in AllRegisters |->
                                          IF r \in Registers(s) THEN s ELSE holds[r]]
                        ELSE holds
            /\ confirmed' = IF o.err = "merNone" /\ underway = Nothing
                            THEN confirmed \cup {s} ELSE confirmed \ {s}
      BY <2>1 DEF Set
    <3>2. SUFFICES ASSUME NEW t \in confirmed', NEW r \in Registers(t)
                   PROVE  holds'[r] = t \/ {t, holds'[r]} = {"ExitGreen", "ExitRed"}
      BY DEF SettingsStay
    <3>3. confirmed \subseteq Settings
      BY DEF ClientTypeOK
    <3>4. t \in Settings /\ r \in AllRegisters
      BY <3>1, <3>3 DEF AllRegisters
    <3>5. CASE t = s
      <4>1. o.err = "merNone" /\ underway = Nothing
        BY <3>1, <3>5
      <4>2. o.done = TRUE
        BY <4>1, CleanResults
      <4>3. QED BY <3>1, <3>4, <3>5, <4>2
    <3>6. CASE t # s
      <4>1. t \in confirmed
        BY <3>1, <3>6
      <4>2. holds[r] = t \/ {t, holds[r]} = {"ExitGreen", "ExitRed"}
        BY <4>1 DEF SettingsStay
      <4>3. holds'[r] = holds[r] \/ (r \in Registers(s) /\ holds'[r] = s)
        BY <3>1, <3>4
      <4>4. r \in Registers(s) => {t, s} = {"ExitGreen", "ExitRed"}
        BY <3>4, <3>6, RegistersDisjoint
      <4>5. QED BY <4>2, <4>3, <4>4
    <3>7. QED BY <3>5, <3>6
  <2>2. ASSUME UNCHANGED <<holds, confirmed>> PROVE SettingsStay'
    BY <2>2 DEF SettingsStay
  <2>3. QED BY <2>1, <2>2
         DEF ClientNext, Client, Start, SetPassage, ReadBack, ReadHigh, ReadLow, NoController,
             Pass, client, program, turnstile, ghosts
<1>3. QED BY <1>1, <1>2, ClientTypeCorrect, PTL DEF ClientSpec

-----------------------------------------------------------------------------
(* Both together                                                           *)

\* Every step of TfmMain is a step of the one use and a stutter of the other.
LEMMA MainIsSearch == MainSpec => Spec
<1>1. MainInit => Init
  BY DEF MainInit
<1>2. [MainNext]_<<searching, vars, client>> => [Next]_vars
  BY DEF MainNext, SearchStep, ClientStep
<1>3. QED BY <1>1, <1>2, PTL DEF MainSpec, Spec

LEMMA MainIsClient == MainSpec => ClientSpec
<1>1. MainInit => ClientInit
  BY DEF MainInit
<1>2. [MainNext]_<<searching, vars, client>> => [ClientNext]_<<channel, medium, client>>
  <2>1. SearchStep => UNCHANGED <<channel, medium, client>>
    <3>1. Next => UNCHANGED <<channel, medium>>
      BY DEF Next, Thread, Open, OpenFails, PortMissing, Probe, FirstProbe, Retry, Identify,
             DeviceStarts, DeviceStops
    <3>2. QED BY <3>1 DEF SearchStep
  <2>2. QED BY <2>1 DEF MainNext, ClientStep, vars
<1>3. QED BY <1>1, <1>2, PTL DEF MainSpec, ClientSpec

\* Whatever a service thread's search has met, it serves a device that is there; on a
\* good line the first turnstile, or a device before it, and it gives up only at a
\* device that is none or was switched off (StartFirstRTU, StartFirstTCP).
THEOREM SearchIsSafe == MainSpec => [](ServesDevice /\ ServesFirst /\ EndsOnlyForCause)
BY MainIsSearch, OnlyDevicesAreServed, FirstIsServed, EndsOnGoodLine, PTL

\* A client is never told a count the turnstile has not reached, a state the
\* exit does not have, or a setting another has overwritten (TfmMain's operations).
THEOREM ClientIsToldTheTruth == MainSpec => [](CountIsPlausible /\ ExitShown /\ SettingsStay)
BY MainIsClient, CountsArePlausible, ExitIsShown, SettingsAreKept, PTL
=============================================================================
