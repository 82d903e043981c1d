---------------------------- MODULE DelphiSession ----------------------------
(***************************************************************************)
(* The connect button of the Delphi client and its polling threads         *)
(* (TurnstileDelphi/source: uMain.pas, uControllerThread.pas, and Open and *)
(* Close of uCommonDevice.pas), over a serial port only one thread can     *)
(* hold.  The button toggles: it ends the thread FControllerThread refers  *)
(* to, or creates one.  A thread that meets an error shows it and then     *)
(* presses the same button, from its own context: JobError is not          *)
(* synchronised.  So the click handler is two steps, the test of           *)
(* FControllerThread and what follows, that other clicks may separate.     *)
(***************************************************************************)
EXTENDS Naturals, FiniteSets

CONSTANTS
    MaxWorkers,  \* bound: threads created in one behaviour
    MaxClicks    \* bound: clicks of the user

ASSUME SessionAssumption == MaxWorkers \in Nat /\ MaxClicks \in Nat

Workers == 1 .. MaxWorkers
User    == 0
Nil     == 0

LateBound == 2  \* bound of the ghost counter: one call late is allowed, two are not

VARIABLES
    current,     \* FControllerThread, Nil or a worker
    created,     \* workers created so far: 1 .. created
    clicks,      \* clicks of the user so far
    clicking,    \* each actor's click: none, or what it saw of FControllerThread
    at,          \* where each worker is
    terminated,  \* TThread.Terminated
    controller,  \* FController of each worker
    port,        \* who holds the serial port, Nil or a worker
    wanted,      \* ghost: the user's latest click was on "connect"
    late         \* ghost: calls of a worker that returned after it was
                 \* terminated, counted up to LateBound

vars == <<current, created, clicks, clicking, at, terminated, controller,
          port, wanted, late>>

Places == {"none", "fresh", "open", "call", "test", "dialog", "ended"}

TypeOK ==
    /\ current \in Workers \cup {Nil}
    /\ created \in 0 .. MaxWorkers
    /\ clicks \in 0 .. MaxClicks
    /\ clicking \in [{User} \cup Workers -> {"no", "sawNil", "sawThread"}]
    /\ at \in [Workers -> Places]
    /\ terminated \in [Workers -> BOOLEAN]
    /\ controller \in [Workers -> {"nil", "live", "freed"}]
    /\ port \in Workers \cup {Nil}
    /\ wanted \in BOOLEAN
    /\ late \in [Workers -> 0 .. LateBound]
    /\ \A w \in Workers :
         controller[w] = "live" => at[w] \in {"open", "test", "call", "dialog"}

Init ==
    /\ current = Nil
    /\ created = 0
    /\ clicks = 0
    /\ clicking = [a \in {User} \cup Workers |-> "no"]
    /\ at = [w \in Workers |-> "none"]
    /\ terminated = [w \in Workers |-> FALSE]
    /\ controller = [w \in Workers |-> "nil"]
    /\ port = Nil
    /\ wanted = FALSE
    /\ late = [w \in Workers |-> 0]

-----------------------------------------------------------------------------
\* btnStartClick: the test of FControllerThread ...
Seen == IF current = Nil THEN "sawNil" ELSE "sawThread"

UserClicks ==
    /\ clicking[User] = "no"
    /\ clicks < MaxClicks
    /\ clicks' = clicks + 1
    /\ clicking' = [clicking EXCEPT ![User] = Seen]
    /\ wanted' = (current = Nil)
    /\ UNCHANGED <<current, created, at, terminated, controller, port, late>>

\* ... and what follows: end the thread, or create the next one.  If the
\* reference went nil in between, Terminate raises, which ends a worker's
\* Execute and is shown and forgotten in the main thread.
Toggle(a, place) ==
    /\ clicking' = [clicking EXCEPT ![a] = "no"]
    /\ \/ /\ clicking[a] = "sawThread"
          /\ current # Nil
          /\ terminated' = [terminated EXCEPT ![current] = TRUE]
          /\ current' = Nil
          /\ at' = place
          /\ UNCHANGED created
       \/ /\ clicking[a] = "sawThread"
          /\ current = Nil
          /\ at' = IF a \in Workers THEN [place EXCEPT ![a] = "ended"] ELSE place
          /\ UNCHANGED <<created, current, terminated>>
       \/ /\ clicking[a] = "sawNil"
          /\ created < MaxWorkers
          /\ created' = created + 1
          /\ current' = created + 1
          /\ at' = [place EXCEPT ![created + 1] = "fresh"]
          /\ UNCHANGED terminated

UserToggles ==
    /\ clicking[User] # "no"
    /\ Toggle(User, at)
    /\ UNCHANGED <<clicks, controller, port, wanted, late>>

-----------------------------------------------------------------------------
\* Close: whoever ends lets go of the port it holds, and of no other.
Released_Always(w) == port' = Nil

Released_Never(w) == port' = port

Released(w) == port' = IF port = w THEN Nil ELSE port

\* Execute begins: the controller is created and opens the port.
Begin(w) ==
    /\ at[w] = "fresh"
    /\ controller' = [controller EXCEPT ![w] = "live"]
    /\ port' = IF port = Nil THEN w ELSE port
    /\ at' = [at EXCEPT ![w] = "open"]
    /\ UNCHANGED <<current, created, clicks, clicking, terminated, wanted, late>>

\* The device identified itself: the polling loop begins.
Opened(w) ==
    /\ at[w] = "open"
    /\ port = w
    /\ at' = [at EXCEPT ![w] = "test"]
    /\ UNCHANGED <<current, created, clicks, clicking, terminated, controller,
                   port, wanted, late>>

\* It did not, or the port was taken: TModbus and TController are freed.  The
\* error is shown unless it is merMBDataAddress.
OpenFails(w) ==
    /\ at[w] = "open"
    /\ controller' = [controller EXCEPT ![w] = "freed"]
    /\ Released(w)
    /\ \/ /\ at' = [at EXCEPT ![w] = "dialog"]
          /\ UNCHANGED terminated
       \/ /\ port = w
          /\ at' = [at EXCEPT ![w] = "ended"]
          /\ terminated' = [terminated EXCEPT ![w] = TRUE]
    /\ UNCHANGED <<current, created, clicks, clicking, wanted, late>>

\* "if Terminated then exit" stands before every call of the loop.
TestTerminated_OncePerRound(w) ==
    /\ at[w] = "test"
    /\ \/ terminated[w] /\ at' = [at EXCEPT ![w] = "ended"]
       \/ at' = [at EXCEPT ![w] = "call"]
    /\ IF at'[w] = "ended"
       THEN Released(w) /\ controller' = [controller EXCEPT ![w] = "nil"]
       ELSE UNCHANGED <<port, controller>>
    /\ UNCHANGED <<current, created, clicks, clicking, terminated, wanted, late>>

TestTerminated_Never(w) ==
    /\ at[w] = "test"
    /\ at' = [at EXCEPT ![w] = "call"]
    /\ UNCHANGED <<current, created, clicks, clicking, terminated, controller,
                   port, wanted, late>>

TestTerminated(w) ==
    /\ at[w] = "test"
    /\ IF terminated[w]
       THEN /\ at' = [at EXCEPT ![w] = "ended"]
            /\ controller' = [controller EXCEPT ![w] = "nil"]
            /\ Released(w)
       ELSE /\ at' = [at EXCEPT ![w] = "call"]
            /\ UNCHANGED <<controller, port>>
    /\ UNCHANGED <<current, created, clicks, clicking, terminated, wanted, late>>

\* A call returns: merNone and merMBDataAddress go on, other errors are shown.
CallReturns(w) ==
    /\ at[w] = "call"
    /\ at' \in {[at EXCEPT ![w] = "test"], [at EXCEPT ![w] = "dialog"]}
    /\ late' = IF terminated[w] /\ late[w] < LateBound
               THEN [late EXCEPT ![w] = @ + 1] ELSE late
    /\ UNCHANGED <<current, created, clicks, clicking, terminated, controller,
                   port, wanted>>

\* TfmMain.JobError: the message is confirmed, then the button is pressed.
DialogConfirmed(w) ==
    /\ at[w] = "dialog"
    /\ clicking[w] = "no"
    /\ clicking' = [clicking EXCEPT ![w] = Seen]
    /\ UNCHANGED <<current, created, clicks, at, terminated, controller, port,
                   wanted, late>>

\* After the button, a worker that could not open terminates itself and ends;
\* Destroy then closes the controller it had freed.
WorkerToggles(w) ==
    /\ at[w] = "dialog"
    /\ clicking[w] # "no"
    /\ Toggle(w, [at EXCEPT ![w] = IF controller[w] = "freed" THEN "ended"
                                                              ELSE "test"])
    /\ IF at'[w] = "ended"
       THEN Released(w) /\ controller' = [controller EXCEPT ![w] = "nil"]
       ELSE UNCHANGED <<port, controller>>
    /\ UNCHANGED <<clicks, wanted, late>>

-----------------------------------------------------------------------------
Worker(w) ==
    \/ Begin(w) \/ Opened(w) \/ OpenFails(w)
    \/ TestTerminated(w) \/ CallReturns(w)
    \/ DialogConfirmed(w) \/ WorkerToggles(w)

Next == UserClicks \/ UserToggles \/ \E w \in Workers : Worker(w)

Spec == Init /\ [][Next]_vars

\* Threads run, calls return, and the user confirms every message.
FairSpec == Spec /\ WF_vars(UserToggles) /\ \A w \in Workers : WF_vars(Worker(w))

-----------------------------------------------------------------------------
\* A thread that polls holds the port, so no two poll over the same line: an
\* end or a failed open of one thread never takes the port from another.
PollerHoldsPort ==
    \A w \in Workers : at[w] \in {"call", "test"} => port = w

\* The port is not lost: a worker that ended does not hold it.
EndedReleasesPort == port # Nil => at[port] # "ended"

\* Disconnecting takes effect soon: after Terminate a thread finishes the call
\* it is in and begins no other.
NoCallAfterTerminate == \A w \in Workers : late[w] <= 1

\* A terminated thread ends, whatever errors it meets on its way (unless it
\* would have to create a thread beyond the bound).
TerminatedEnds ==
    \A w \in Workers :
        terminated[w] ~> (at[w] = "ended" \/ created = MaxWorkers)

\* Who pressed "Отключиться" (disconnect) stays disconnected: a new connection
\* is begun only on the user's wish (uMain.pas:300, 319).
DisconnectLasts == [][created' > created => wanted]_vars
=============================================================================
