------------------------- MODULE DelphiSessionProofs -------------------------
(***************************************************************************)
(* Theorems about DelphiSession, for any number of threads and of clicks.  *)
(***************************************************************************)
EXTENDS DelphiSession, TLAPS

\* A thread has its controller from Execute on, keeps the port with it until it
\* ends, and does no call once one returned after it was terminated.
SessionInv ==
    /\ \A w \in Workers : w > created => at[w] = "none"
    /\ \A w \in Workers : at[w] \in {"open", "call", "test"} => controller[w] = "live"
    /\ \A w \in Workers : at[w] = "dialog" =>
         controller[w] = "freed" \/ (controller[w] = "live" /\ port = w)
    /\ \A w \in Workers : at[w] \in {"call", "test"} => port = w
    /\ \A w \in Workers : at[w] = "ended" => port # w
    /\ \A w \in Workers : late[w] = 0 \/
         (late[w] = 1 /\ terminated[w] /\ at[w] \in {"test", "dialog", "ended"})

LEMMA NotWorkers == Nil \notin Workers /\ User \notin Workers /\ Workers \subseteq Nat
BY SessionAssumption DEF Nil, User, Workers

\* The button moves no thread but the new one, and its own thread to its end.
Toggled(a, place) ==
    /\ clicking' \in [{User} \cup Workers -> {"no", "sawNil", "sawThread"}]
    /\ created' \in 0 .. MaxWorkers /\ current' \in Workers \cup {Nil}
    /\ terminated' \in [Workers -> BOOLEAN]
    /\ \A w \in Workers : terminated[w] => terminated'[w]
    /\ at' \in [Workers -> Places]
    /\ \A w \in Workers : w > created' => at'[w] = "none"
    /\ \A w \in Workers : \/ at'[w] = place[w]
                          \/ place[w] = "none" /\ at'[w] = "fresh"
                          \/ w = a /\ at'[w] = "ended"

LEMMA ToggleEffect ==
  ASSUME TypeOK
  PROVE  \A a \in {User} \cup Workers, place \in [Workers -> Places] :
           (\A w \in Workers : w > created => place[w] = "none" /\ w # a)
              /\ Toggle(a, place) => Toggled(a, place)
<1> SUFFICES ASSUME NEW a \in {User} \cup Workers, NEW place \in [Workers -> Places],
                    \A w \in Workers : w > created => place[w] = "none" /\ w # a,
                    Toggle(a, place)
             PROVE  Toggled(a, place)
  OBVIOUS
<1> USE SessionAssumption DEF Workers, User, Nil, Toggled
<1>1. clicking' \in [{User} \cup Workers -> {"no", "sawNil", "sawThread"}]
  BY DEF Toggle, TypeOK
<1>2. CASE /\ current # Nil /\ terminated' = [terminated EXCEPT ![current] = TRUE]
           /\ current' = Nil /\ at' = place /\ created' = created
  BY <1>1, <1>2 DEF TypeOK
<1>3. CASE /\ at' = IF a \in Workers THEN [place EXCEPT ![a] = "ended"] ELSE place
           /\ UNCHANGED <<created, current, terminated>>
  BY <1>1, <1>3 DEF TypeOK, Places
<1>4. CASE /\ created < MaxWorkers
           /\ created' = created + 1 /\ current' = created + 1
           /\ at' = [place EXCEPT ![created + 1] = "fresh"]
           /\ UNCHANGED terminated
  <2>1. created + 1 \in Workers /\ created + 1 > created
    BY <1>4 DEF TypeOK
  <2>2. place[created + 1] = "none"
    BY <2>1
  <2>3. QED BY <1>1, <1>4, <2>1, <2>2 DEF TypeOK, Places
<1>5. QED BY <1>2, <1>3, <1>4 DEF Toggle

LEMMA TypeStep ==
  ASSUME TypeOK, SessionInv, [Next]_vars
  PROVE  TypeOK'
<1> USE NotWorkers DEF Places
<1>1. CASE UserClicks
  <2>1. clicking' \in [{User} \cup Workers -> {"no", "sawNil", "sawThread"}]
    BY <1>1 DEF UserClicks, TypeOK, Seen
  <2>2. clicks' \in 0 .. MaxClicks /\ wanted' \in BOOLEAN
    BY <1>1, SessionAssumption DEF UserClicks, TypeOK
  <2>3. QED BY <1>1, <2>1, <2>2 DEF UserClicks, TypeOK
<1>2. CASE UserToggles
  <2>1. \A w \in Workers : w > created => at[w] = "none" /\ w # User
    BY DEF SessionInv
  <2>2. Toggled(User, at)
    <3>1. Toggle(User, at) /\ at \in [Workers -> Places]
      BY <1>2 DEF UserToggles, TypeOK
    <3>2. QED BY <2>1, <3>1, ToggleEffect, Zenon
  <2>3. QED BY <1>2, <2>2 DEF UserToggles, TypeOK, Toggled
<1>3. ASSUME NEW w \in Workers, Begin(w) \/ Opened(w) \/ OpenFails(w) PROVE TypeOK'
  <2>1. CASE Begin(w)
    BY <2>1 DEF Begin, TypeOK
  <2>2. CASE Opened(w)
    BY <2>2 DEF Opened, TypeOK
  <2>3. CASE OpenFails(w)
    BY <2>3 DEF OpenFails, Released, TypeOK
  <2>4. QED BY <1>3, <2>1, <2>2, <2>3
<1>4. ASSUME NEW w \in Workers, TestTerminated(w) PROVE TypeOK'
  <2>1. CASE terminated[w]
    BY <1>4, <2>1 DEF TestTerminated, Released, TypeOK
  <2>2. CASE ~terminated[w]
    BY <1>4, <2>2 DEF TestTerminated, TypeOK, SessionInv
  <2>3. QED BY <2>1, <2>2
<1>5. ASSUME NEW w \in Workers, CallReturns(w) PROVE TypeOK'
  <2>1. late' \in [Workers -> 0 .. LateBound]
    BY <1>5 DEF CallReturns, TypeOK, LateBound
  <2>2. QED BY <1>5, <2>1 DEF CallReturns, TypeOK
<1>6. ASSUME NEW w \in Workers, DialogConfirmed(w) PROVE TypeOK'
  BY <1>6 DEF DialogConfirmed, Seen, TypeOK
<1>7. ASSUME NEW w \in Workers, WorkerToggles(w) PROVE TypeOK'
  <2> DEFINE place == [at EXCEPT ![w] = IF controller[w] = "freed" THEN "ended" ELSE "test"]
  <2>1. place \in [Workers -> Places] /\ at[w] = "dialog"
    BY <1>7 DEF WorkerToggles, TypeOK
  <2>2. \A x \in Workers : x > created => place[x] = "none" /\ x # w
    BY <2>1 DEF SessionInv
  <2>3. Toggle(w, place)
    BY <1>7 DEF WorkerToggles
  <2> HIDE DEF place
  <2>4. Toggled(w, place)
    BY <2>1, <2>2, <2>3, ToggleEffect, Zenon
  <2>5. /\ port' \in Workers \cup {Nil}
        /\ controller' \in [Workers -> {"nil", "live", "freed"}]
        /\ UNCHANGED <<clicks, wanted, late>>
    BY <1>7 DEF WorkerToggles, Released, TypeOK
  <2>6. \A x \in Workers : controller'[x] = "live" => at'[x] \in {"open", "test", "call", "dialog"}
    <3>1. ASSUME NEW x \in Workers, x # w, controller'[x] = "live"
          PROVE  at'[x] \in {"open", "test", "call", "dialog"}
      <4>1. controller[x] = "live" /\ place[x] = at[x]
        BY <1>7, <3>1 DEF WorkerToggles, TypeOK, place
      <4>2. QED BY <2>4, <3>1, <4>1 DEF TypeOK, Toggled
    <3>2. ASSUME controller'[w] = "live" PROVE at'[w] \in {"open", "test", "call", "dialog"}
      <4>1. at'[w] # "ended" /\ controller'[w] = controller[w]
        BY <1>7, <3>2 DEF WorkerToggles, TypeOK
      <4>2. place[w] = "test"
        BY <3>2, <4>1 DEF place, TypeOK
      <4>3. QED BY <2>4, <4>1, <4>2 DEF Toggled
    <3>3. QED BY <3>1, <3>2
  <2>7. QED BY <2>4, <2>5, <2>6 DEF TypeOK, Toggled
<1>8. CASE UNCHANGED vars
  BY <1>8 DEF vars, TypeOK
<1>9. QED BY <1>1, <1>2, <1>3, <1>4, <1>5, <1>6, <1>7, <1>8 DEF Next, Worker

LEMMA InvStep ==
  ASSUME TypeOK, SessionInv, [Next]_vars
  PROVE  SessionInv'
<1> USE NotWorkers DEF Places
<1>1. CASE UserClicks \/ UNCHANGED vars
  BY <1>1 DEF UserClicks, vars, SessionInv
<1>2. CASE UserToggles
  <2>1. \A w \in Workers : w > created => at[w] = "none" /\ w # User
    BY DEF SessionInv
  <2>2. Toggled(User, at)
    <3>1. Toggle(User, at) /\ at \in [Workers -> Places]
      BY <1>2 DEF UserToggles, TypeOK
    <3>2. QED BY <2>1, <3>1, ToggleEffect, Zenon
  <2>3. UNCHANGED <<controller, port, late>>
    BY <1>2 DEF UserToggles
  <2>4. QED BY <2>2, <2>3 DEF SessionInv, Toggled
<1>3. ASSUME NEW w \in Workers, Begin(w) PROVE SessionInv'
  BY <1>3 DEF Begin, SessionInv, TypeOK
<1>4. ASSUME NEW w \in Workers, Opened(w) PROVE SessionInv'
  BY <1>4 DEF Opened, SessionInv, TypeOK
<1>5. ASSUME NEW w \in Workers, OpenFails(w) PROVE SessionInv'
  BY <1>5 DEF OpenFails, Released, SessionInv, TypeOK
<1>6. ASSUME NEW w \in Workers, TestTerminated(w) PROVE SessionInv'
  <2>1. CASE terminated[w]
    BY <1>6, <2>1 DEF TestTerminated, Released, SessionInv, TypeOK
  <2>2. CASE ~terminated[w]
    BY <1>6, <2>2 DEF TestTerminated, SessionInv, TypeOK
  <2>3. QED BY <2>1, <2>2
<1>7. ASSUME NEW w \in Workers, CallReturns(w) PROVE SessionInv'
  BY <1>7 DEF CallReturns, SessionInv, TypeOK, LateBound
<1>8. ASSUME NEW w \in Workers, DialogConfirmed(w) PROVE SessionInv'
  BY <1>8 DEF DialogConfirmed, SessionInv
<1>9. ASSUME NEW w \in Workers, WorkerToggles(w) PROVE SessionInv'
  <2> DEFINE place == [at EXCEPT ![w] = IF controller[w] = "freed" THEN "ended" ELSE "test"]
  <2>1. place \in [Workers -> Places] /\ at[w] = "dialog"
    BY <1>9 DEF WorkerToggles, TypeOK
  <2>2. \A x \in Workers : x > created => place[x] = "none" /\ x # w
    BY <2>1 DEF SessionInv
  <2>3. Toggle(w, place)
    BY <1>9 DEF WorkerToggles
  <2>4. /\ place[w] = IF controller[w] = "freed" THEN "ended" ELSE "test"
        /\ \A x \in Workers : x # w => place[x] = at[x]
    BY DEF TypeOK
  <2> HIDE DEF place
  <2>5. Toggled(w, place)
    BY <2>1, <2>2, <2>3, ToggleEffect, Zenon
  <2>6. /\ at'[w] \in {"test", "ended"}
        /\ at'[w] = "test" => controller[w] # "freed"
    BY <2>4, <2>5 DEF Toggled
  <2>7. \A x \in Workers : x # w => at'[x] = at[x] \/ (at[x] = "none" /\ at'[x] = "fresh")
    BY <2>4, <2>5 DEF Toggled
  <2>8. late' = late
    BY <1>9 DEF WorkerToggles
  <2>9. CASE at'[w] = "ended"
    <3>1. /\ port' = IF port = w THEN Nil ELSE port
          /\ controller' = [controller EXCEPT ![w] = "nil"]
      BY <1>9, <2>9 DEF WorkerToggles, Released
    <3>2. /\ port' # w
          /\ \A x \in Workers : x # w => controller'[x] = controller[x] /\ (port' = x <=> port = x)
      BY <3>1 DEF TypeOK
    <3>3. QED BY <2>1, <2>5, <2>7, <2>8, <2>9, <3>2 DEF SessionInv, Toggled
  <2>10. CASE at'[w] = "test"
    <3>1. UNCHANGED <<port, controller>>
      BY <1>9, <2>10 DEF WorkerToggles
    <3>2. controller[w] = "live" /\ port = w
      BY <2>1, <2>6, <2>10 DEF SessionInv
    <3>3. /\ \A x \in Workers : x > created' => at'[x] = "none"
          /\ \A x \in Workers : terminated[x] => terminated'[x]
      BY <2>5 DEF Toggled
    <3>4. \A x \in Workers : x # w => at'[x] = at[x] \/ (at[x] = "none" /\ at'[x] = "fresh")
      BY <2>7
    <3>5. \A x \in Workers : late[x] = 0 \/
            (late[x] = 1 /\ terminated'[x] /\ at'[x] \in {"test", "dialog", "ended"})
      BY <2>10, <3>3, <3>4 DEF SessionInv
    <3>6. ASSUME NEW x \in Workers
          PROVE  /\ at'[x] \in {"open", "call", "test"} => controller[x] = "live"
                 /\ at'[x] = "dialog" =>
                      controller[x] = "freed" \/ (controller[x] = "live" /\ port = x)
                 /\ at'[x] \in {"call", "test"} => port = x
                 /\ at'[x] = "ended" => port # x
      <4>1. CASE x = w
        BY <2>10, <3>2, <4>1
      <4>2. CASE x # w
        <5>1. at'[x] = at[x] \/ at'[x] = "fresh"
          BY <3>4, <4>2
        <5>2. /\ at[x] \in {"open", "call", "test"} => controller[x] = "live"
              /\ at[x] = "dialog" =>
                      controller[x] = "freed" \/ (controller[x] = "live" /\ port = x)
              /\ at[x] \in {"call", "test"} => port = x
              /\ at[x] = "ended" => port # x
          BY DEF SessionInv
        <5>3. CASE at'[x] = "fresh"
          BY <5>3
        <5>4. CASE at'[x] = at[x]
          BY <5>2, <5>4
        <5>5. QED BY <5>1, <5>3, <5>4
      <4>3. QED BY <4>1, <4>2
    <3>7. QED BY <2>8, <3>1, <3>3, <3>5, <3>6 DEF SessionInv
  <2>11. QED BY <2>6, <2>9, <2>10
<1>10. QED BY <1>1, <1>2, <1>3, <1>4, <1>5, <1>6, <1>7, <1>8, <1>9 DEF Next, Worker

LEMMA InvInit == Init => TypeOK /\ SessionInv
<1>1. Init => TypeOK
  <2>1. 0 \in 0 .. MaxWorkers /\ 0 \in 0 .. MaxClicks /\ 0 \in 0 .. LateBound
    BY SessionAssumption DEF LateBound
  <2>2. "none" \in Places /\ Nil \in Workers \cup {Nil}
    BY DEF Places
  <2>3. Init => /\ current \in Workers \cup {Nil} /\ created \in 0 .. MaxWorkers
                /\ clicks \in 0 .. MaxClicks /\ port \in Workers \cup {Nil} /\ wanted \in BOOLEAN
    BY <2>1 DEF Init, Nil
  <2>4. Init => /\ at \in [Workers -> Places] /\ terminated \in [Workers -> BOOLEAN]
                /\ controller \in [Workers -> {"nil", "live", "freed"}]
                /\ late \in [Workers -> 0 .. LateBound]
                /\ clicking \in [{User} \cup Workers -> {"no", "sawNil", "sawThread"}]
    BY <2>1, <2>2 DEF Init
  <2>5. Init => \A w \in Workers : controller[w] # "live"
    BY DEF Init
  <2>6. QED BY <2>3, <2>4, <2>5 DEF TypeOK
<1>2. Init => SessionInv
  BY DEF Init, SessionInv, Workers, Nil
<1>3. QED BY <1>1, <1>2

LEMMA InvHolds == Spec => [](TypeOK /\ SessionInv)
<1>1. TypeOK /\ SessionInv /\ [Next]_vars => (TypeOK /\ SessionInv)'
  BY TypeStep, InvStep
<1>2. QED BY <1>1, InvInit, PTL DEF Spec

-----------------------------------------------------------------------------
\* Type correctness of the connect button and the polling threads; a controller
\* is live only in a thread that is not over.
THEOREM TypeCorrect == Spec => []TypeOK
BY InvHolds, PTL

\* However many threads the button makes, one that polls holds the serial port
\* (TControllerThread.Execute after TController.Open).
THEOREM PollersHoldPort == Spec => []PollerHoldsPort
<1>1. SessionInv => PollerHoldsPort
  BY DEF SessionInv, PollerHoldsPort
<1>2. QED BY <1>1, InvHolds, PTL

\* No thread that ended holds the port (Destroy closes the controller it has).
THEOREM EndReleasesPort == Spec => []EndedReleasesPort
<1>1. TypeOK /\ SessionInv => EndedReleasesPort
  BY DEF TypeOK, SessionInv, EndedReleasesPort, Nil
<1>2. QED BY <1>1, InvHolds, PTL

\* After Terminate a thread finishes at most the call it is in ("if Terminated
\* then exit" before every call of Execute).
THEOREM OneLateCall == Spec => []NoCallAfterTerminate
<1>1. SessionInv => NoCallAfterTerminate
  BY DEF SessionInv, NoCallAfterTerminate
<1>2. QED BY <1>1, InvHolds, PTL
=============================================================================
