------------------------------ MODULE ModbusTcp ------------------------------
(***************************************************************************)
(* One TModbus object over a TTcpClient: a call of Send as SendTCP runs it *)
(* (connect, flush, write, resend on a lost connection, wait for a header  *)
(* and then for the rest), the byte stream that carries the answers, and   *)
(* the slave at the other end, which may answer late or never, and may     *)
(* close or reset the connection.                                          *)
(*                                                                         *)
(* The stream towards the master is pipe; its first `arrived' parts are in *)
(* the receive buffer, the others are still on their way.  A frame is two  *)
(* parts, the six header bytes and the body, so an answer may be cut       *)
(* between them by a flush.                                                *)
(***************************************************************************)
EXTENDS ModbusPdu, Sequences

VARIABLES
    pc,        \* where the calling thread is
    req,       \* the request of the latest call
    result,    \* what the latest call returned, "pending" before that
    accepted,  \* the answer handed to the caller when result = "merNone"
    sock,      \* FSocket: "closed" is ~Connected, the rest is the kernel's view
    toSlave,   \* requests written and not yet seen by the slave
    pipe,      \* the answer stream
    arrived,   \* how many parts of it are in the receive buffer
    runs,      \* how often the slave executed each call (ghost)
    flushed    \* whether the flush of this call left nothing of older calls
               \* under way ("all") or something ("some") (ghost)

vars == <<pc, req, result, accepted, sock, toSlave, pipe, arrived, runs, flushed>>

Part(a)  == {[part |-> "header", ans |-> a], [part |-> "body", ans |-> a]}
Parts    == UNION {Part(a) : a \in Answer}
Frame(a) == << [part |-> "header", ans |-> a], [part |-> "body", ans |-> a] >>

\* "halfclosed": the peer closed and the master has not written since;
\* "broken": it has, and got a reset back; "reset": the peer reset at once.
SocketStates == {"closed", "up", "halfclosed", "broken", "reset"}

Points == {"idle", "connect", "flush", "write", "reconnect", "rewrite",
           "header", "body", "killed"}

TypeOK ==
    /\ pc \in Points
    /\ req \in Request
    /\ result \in Errors \cup {"pending", "merNone"}
    /\ accepted \in Answer
    /\ sock \in SocketStates
    /\ toSlave \in Seq(Request)
    /\ pipe \in Seq(Parts)
    /\ arrived \in Nat /\ arrived <= Len(pipe)
    /\ runs \in [Ids -> Nat]
    /\ flushed \in {"all", "some"}

Init ==
    /\ pc = "idle"
    /\ req = NoRequest
    /\ result = "pending"
    /\ accepted = NoAnswer
    /\ sock \in {"closed", "up"}
    /\ toSlave = << >>
    /\ pipe = << >>
    /\ arrived = 0
    /\ runs = [i \in Ids |-> 0]
    /\ flushed = "all"

-----------------------------------------------------------------------------
\* TTcpClient::Close: the descriptor and everything buffered in it are gone.
Close ==
    /\ sock' = "closed"
    /\ toSlave' = << >>
    /\ pipe' = << >>
    /\ arrived' = 0

stream == <<sock, toSlave, pipe, arrived>>

Return(err) == pc' = "idle" /\ result' = err

\* Take the first part out of the receive buffer.
Consume ==
    /\ pipe' = Tail(pipe)
    /\ arrived' = arrived - 1
    /\ UNCHANGED <<sock, toSlave>>

-----------------------------------------------------------------------------
\* Send is called; a socket that is not Connected is opened first.
Call(u, f, q) ==
    /\ pc = "idle"
    /\ req.id < MaxCalls
    /\ req' = [id |-> req.id + 1, unit |-> u, func |-> f, qty |-> q]
    /\ result' = "pending"
    /\ pc' = IF sock = "closed" THEN "connect" ELSE "flush"
    /\ UNCHANGED <<accepted, stream, runs, flushed>>

Connected ==
    /\ pc = "connect"
    /\ sock' = "up"
    /\ pc' = "flush"
    /\ UNCHANGED <<req, result, accepted, toSlave, pipe, arrived, runs, flushed>>

ConnectFails ==
    /\ pc = "connect"
    /\ Return("merCantOpenPort")
    /\ UNCHANGED <<req, accepted, stream, runs, flushed>>

\* Flush reads away what has arrived, never what is still under way.
DropArrived_Nothing ==
    UNCHANGED <<pipe, arrived>>

DropArrived ==
    /\ pipe' = SubSeq(pipe, arrived + 1, Len(pipe))
    /\ arrived' = 0

Flush ==
    /\ pc = "flush"
    /\ flushed' = IF toSlave = << >> /\ arrived = Len(pipe) THEN "all" ELSE "some"
    /\ DropArrived
    /\ pc' = "write"
    /\ UNCHANGED <<req, result, accepted, sock, toSlave, runs>>

\* write() takes the whole request.  A peer that has closed answers with a
\* reset, so the request is lost and the socket is broken from then on.
WriteAll ==
    /\ pc \in {"write", "rewrite"}
    /\ sock \in {"up", "halfclosed"}
    /\ IF sock = "up"
       THEN toSlave' = Append(toSlave, req) /\ sock' = sock
       ELSE toSlave' = toSlave /\ sock' = "broken"
    /\ pc' = "header"
    /\ UNCHANGED <<req, result, accepted, pipe, arrived, runs, flushed>>

\* write() takes a part of the request: the socket is closed, nothing is resent.
WriteSome_Resend ==
    /\ pc \in {"write", "rewrite"}
    /\ sock = "up"
    /\ toSlave' = Append(toSlave, req)
    /\ pc' = "rewrite"
    /\ UNCHANGED <<req, result, accepted, sock, pipe, arrived, runs, flushed>>

WriteSome ==
    /\ pc \in {"write", "rewrite"}
    /\ sock = "up"
    /\ Close
    /\ Return("merCantOpenPort")
    /\ UNCHANGED <<req, accepted, runs, flushed>>

\* write() fails on a connection the peer reset: close, and connect again.
WriteFails ==
    /\ pc = "write"
    /\ sock = "reset"
    /\ Close
    /\ pc' = "reconnect"
    /\ UNCHANGED <<req, result, accepted, runs, flushed>>

Reconnected ==
    /\ pc = "reconnect"
    /\ sock' = "up"
    /\ pc' = "rewrite"
    /\ UNCHANGED <<req, result, accepted, toSlave, pipe, arrived, runs, flushed>>

ReconnectFails ==
    /\ pc = "reconnect"
    /\ Return("merCantOpenPort")
    /\ UNCHANGED <<req, accepted, stream, runs, flushed>>

\* The one resend fails too.
RewriteFails ==
    /\ pc = "rewrite"
    /\ sock = "reset"
    /\ Close
    /\ Return("merCantOpenPort")
    /\ UNCHANGED <<req, accepted, runs, flushed>>

\* write() on a broken connection raises SIGPIPE, whose action nothing in the
\* program changes: the process ends.
WriteRaisesSigPipe ==
    /\ pc = "write"
    /\ sock = "broken"
    /\ pc' = "killed"
    /\ UNCHANGED <<req, result, accepted, stream, runs, flushed>>

\* Six bytes are there.  A wrong protocol number or length ends the call; so
\* does the rest of a frame whose header went with an earlier flush.
ReadHeader ==
    /\ pc = "header"
    /\ arrived > 0
    /\ Consume
    /\ IF Head(pipe).part = "header" /\ Head(pipe).ans.form # "badheader"
       THEN pc' = "body" /\ UNCHANGED result
       ELSE Return("merTimeout")
    /\ UNCHANGED <<req, accepted, runs, flushed>>

\* The body is there, and must be all that is there: the number of bytes read
\* is compared with the number that was waiting.
ReadBody ==
    /\ pc = "body"
    /\ arrived > 0
    /\ Consume
    /\ IF arrived > 1
       THEN Return("merTimeout") /\ UNCHANGED accepted
       ELSE LET answer  == Head(pipe).ans
                verdict == Verdict(req, answer)
            IN  /\ Return(verdict)
                /\ accepted' = IF verdict = "merNone" THEN answer ELSE accepted
    /\ UNCHANGED <<req, runs, flushed>>

\* The time for the answer is over while nothing is there to read.
WaitExpires_HeaderOnly ==
    /\ pc = "header"
    /\ arrived = 0
    /\ Return("merTimeout")
    /\ UNCHANGED <<req, accepted, stream, runs, flushed>>

WaitExpires ==
    /\ pc \in {"header", "body"}
    /\ arrived = 0
    /\ Return("merTimeout")
    /\ UNCHANGED <<req, accepted, stream, runs, flushed>>

-----------------------------------------------------------------------------
\* The slave takes the next request and answers it.
SlaveAnswers(form) ==
    /\ sock = "up"
    /\ toSlave # << >>
    /\ LET r == Head(toSlave)
       IN  /\ pipe' = pipe \o Frame(AnswerTo(r, form))
           /\ runs' = IF Executes(form) THEN [runs EXCEPT ![r.id] = @ + 1]
                                        ELSE runs
    /\ toSlave' = Tail(toSlave)
    /\ UNCHANGED <<pc, req, result, accepted, sock, arrived, flushed>>

\* It executes the request and says nothing, or does not execute it at all.
SlaveIsSilent ==
    /\ sock = "up"
    /\ toSlave # << >>
    /\ \/ runs' = [runs EXCEPT ![Head(toSlave).id] = @ + 1]
       \/ UNCHANGED runs
    /\ toSlave' = Tail(toSlave)
    /\ UNCHANGED <<pc, req, result, accepted, sock, pipe, arrived, flushed>>

\* The network delivers the next part.
Arrive ==
    /\ arrived < Len(pipe)
    /\ arrived' = arrived + 1
    /\ UNCHANGED <<pc, req, result, accepted, sock, toSlave, pipe, runs, flushed>>

\* The peer closes the connection: what it sent still arrives.
PeerCloses ==
    /\ sock = "up"
    /\ sock' = "halfclosed"
    /\ toSlave' = << >>
    /\ UNCHANGED <<pc, req, result, accepted, pipe, arrived, runs, flushed>>

\* The peer resets it: nothing more can be read.
PeerResets ==
    /\ sock = "up"
    /\ sock' = "reset"
    /\ toSlave' = << >>
    /\ pipe' = << >>
    /\ arrived' = 0
    /\ UNCHANGED <<pc, req, result, accepted, runs, flushed>>

-----------------------------------------------------------------------------
Master ==
    \/ Connected \/ ConnectFails
    \/ Flush
    \/ WriteAll \/ WriteSome \/ WriteFails \/ WriteRaisesSigPipe
    \/ Reconnected \/ ReconnectFails \/ RewriteFails
    \/ ReadHeader \/ ReadBody \/ WaitExpires

Environment ==
    \/ \E form \in Forms \ {"corrupt"} : SlaveAnswers(form)
    \/ SlaveIsSilent
    \/ Arrive
    \/ PeerCloses \/ PeerResets

Next ==
    \/ \E u \in Units, f \in Functions, q \in Quantities : Call(u, f, q)
    \/ Master
    \/ Environment

Spec == Init /\ [][Next]_vars

\* The calling thread keeps running: both wait loops look at the clock.
FairSpec == Spec /\ WF_vars(Master)

-----------------------------------------------------------------------------
Promise == INSTANCE ModbusCall WITH busy <- pc # "idle"

\* Over TCP Send keeps the promise of ModbusCall: across reconnects, resends,
\* late answers and cut frames a call that succeeds hands over an answer to a
\* request the slave did execute.  (A killed process stays in its call.)
KeepsPromise == Promise!Spec

\* A call that succeeds hands over an answer of the slave it was made to, to a
\* request of the same function, and for a write one that acknowledges as many
\* registers as were written - however late the answers come.
SuccessMatchesRequest ==
    result = "merNone" =>
        /\ accepted.unit = req.unit
        /\ accepted.func = req.func
        /\ req.func = "write" => accepted.qty = req.qty

\* When no answer outlives the flush of the next call, a call that succeeds
\* hands over the answer to that very request: the flush at its start does
\* what the constant transaction identifier cannot.
SuccessIsFresh ==
    (flushed = "all" /\ result = "merNone") => accepted.id = req.id

\* The resend after a failed write never makes the slave run a request twice.
NeverRunTwice == \A i \in Ids : runs[i] <= 1

\* Send always returns, whatever the slave and the network do.
SendReturns == (pc # "idle") ~> (pc \in {"idle", "killed"})

\* A socket the other side closed is noticed at the write, and the request is
\* sent again over a new connection (uModbus.cpp:467).
ClosedSocketIsSurvived == pc # "killed"
=============================================================================
