------------------------------ MODULE ModbusRtu ------------------------------
(***************************************************************************)
(* One TModbus object over a TComPort: a call of Send as SendRTU runs it   *)
(* (flush, write, wait until the number of waiting bytes stands still,     *)
(* read, check the CRC), the serial line, and the slaves on it.            *)
(*                                                                         *)
(* The line towards the master is pipe; its first `arrived' parts are in   *)
(* the receive buffer.  A frame is two parts, since the wait may see one   *)
(* half of it and take the pause before the other for its end.             *)
(***************************************************************************)
EXTENDS ModbusPdu, Sequences

VARIABLES
    pc,        \* where the calling thread is
    port,      \* FPort: "open", or "null" when the constructor could not open it
    req,       \* the request of the latest call
    result,    \* what the latest call returned, "pending" before that
    accepted,  \* the answer handed to the caller when result = "merNone"
    toSlave,   \* requests on the line that no slave has taken
    pipe,      \* the answers on the line
    arrived,   \* how many parts of them are in the receive buffer
    seen,      \* incount: how many of them the wait loop counted last
    runs,      \* how often a slave executed each call (ghost)
    flushed    \* whether the flush of this call left nothing of older calls
               \* under way ("all") or something ("some") (ghost)

vars == <<pc, port, req, result, accepted, toSlave, pipe, arrived, seen, runs, flushed>>

Frame(a) == << [part |-> "start", ans |-> a], [part |-> "rest", ans |-> a] >>

TypeOK ==
    /\ pc \in {"idle", "flush", "write", "wait", "take"}
    /\ port \in {"open", "null"}
    /\ req \in Request
    /\ result \in Errors \cup {"pending", "merNone"}
    /\ accepted \in Answer
    /\ toSlave \in Seq(Request)
    /\ pipe \in Seq([part : {"start", "rest"}, ans : Answer])
    /\ arrived \in 0 .. Len(pipe)
    /\ seen \in Nat
    /\ runs \in [Ids -> Nat]
    /\ flushed \in {"all", "some"}

Init ==
    /\ pc = "idle"
    /\ port \in {"open", "null"}
    /\ req = NoRequest
    /\ result = "pending"
    /\ accepted = NoAnswer
    /\ toSlave = << >>
    /\ pipe = << >>
    /\ arrived = 0
    /\ seen = 0
    /\ runs = [i \in Ids |-> 0]
    /\ flushed = "all"

line == <<toSlave, pipe, arrived>>

Return(err) == pc' = "idle" /\ result' = err

-----------------------------------------------------------------------------
\* Without a port the call fails before anything is sent.
Call(u, f, q) ==
    /\ pc = "idle"
    /\ req.id < MaxCalls
    /\ req' = [id |-> req.id + 1, unit |-> u, func |-> f, qty |-> q]
    /\ IF port = "open" THEN pc' = "flush" /\ result' = "pending"
                        ELSE Return("merCantOpenPort")
    /\ UNCHANGED <<port, accepted, line, seen, runs, flushed>>

\* Everything in the receive buffer is taken out of it.
EmptyBuffer_KeepsCount ==
    /\ pipe' = SubSeq(pipe, arrived + 1, Len(pipe))
    /\ UNCHANGED arrived

EmptyBuffer ==
    /\ pipe' = SubSeq(pipe, arrived + 1, Len(pipe))
    /\ arrived' = 0

Flush_Skipped ==
    /\ pc = "flush"
    /\ flushed' = IF toSlave = << >> /\ arrived = Len(pipe) THEN "all" ELSE "some"
    /\ pc' = "write"
    /\ UNCHANGED <<port, req, result, accepted, toSlave, pipe, arrived, seen, runs>>

Flush ==
    /\ pc = "flush"
    /\ flushed' = IF toSlave = << >> /\ arrived = Len(pipe) THEN "all" ELSE "some"
    /\ EmptyBuffer
    /\ pc' = "write"
    /\ UNCHANGED <<port, req, result, accepted, toSlave, seen, runs>>

\* The result of write() is not looked at: a failed one is waited for as well.
Write ==
    /\ pc = "write"
    /\ toSlave' \in {toSlave, Append(toSlave, req)}
    /\ seen' = 0
    /\ pc' = "wait"
    /\ UNCHANGED <<port, req, result, accepted, pipe, arrived, runs, flushed>>

\* One turn of the wait loop: done when the count has not changed since the
\* turn before.
Poll ==
    /\ pc = "wait"
    /\ seen' = arrived
    /\ pc' = IF seen > 0 /\ arrived = seen THEN "take" ELSE "wait"
    /\ UNCHANGED <<port, req, result, accepted, line, runs, flushed>>

WaitExpires_OnlyWithBytes ==
    /\ pc = "wait"
    /\ arrived > 0
    /\ pc' = "take"
    /\ UNCHANGED <<port, req, result, accepted, line, seen, runs, flushed>>

WaitExpires ==
    /\ pc = "wait"
    /\ pc' = "take"
    /\ UNCHANGED <<port, req, result, accepted, line, seen, runs, flushed>>

\* The CRC is right only of one whole frame that was not disturbed: the CRC of
\* a half frame, or of two frames in a row, is not.
CrcIsRight(ps) ==
    /\ Len(ps) = 2
    /\ ps[1].part = "start" /\ ps[2].part = "rest"
    /\ ps[1].ans.form # "corrupt"

Take ==
    /\ pc = "take"
    /\ EmptyBuffer
    /\ LET got     == SubSeq(pipe, 1, arrived)
           verdict == CASE arrived = 0       -> "merTimeout"
                        [] ~CrcIsRight(got)  -> "merCRCError"
                        [] OTHER             -> Verdict(req, got[1].ans)
       IN  /\ Return(verdict)
           /\ accepted' = IF verdict = "merNone" THEN got[1].ans ELSE accepted
    /\ UNCHANGED <<port, req, toSlave, seen, runs, flushed>>

-----------------------------------------------------------------------------
\* The slave takes the next request and answers it.
SlaveAnswers(form) ==
    /\ toSlave # << >>
    /\ LET r == Head(toSlave)
       IN  /\ pipe' = pipe \o Frame(AnswerTo(r, form))
           /\ runs' = IF Executes(form) THEN [runs EXCEPT ![r.id] = @ + 1]
                                        ELSE runs
    /\ toSlave' = Tail(toSlave)
    /\ UNCHANGED <<pc, port, req, result, accepted, arrived, seen, flushed>>

\* It executes the request and says nothing, or never heard it.
SlaveIsSilent ==
    /\ toSlave # << >>
    /\ \/ runs' = [runs EXCEPT ![Head(toSlave).id] = @ + 1]
       \/ UNCHANGED runs
    /\ toSlave' = Tail(toSlave)
    /\ UNCHANGED <<pc, port, req, result, accepted, pipe, arrived, seen, flushed>>

Arrive ==
    /\ arrived < Len(pipe)
    /\ arrived' = arrived + 1
    /\ UNCHANGED <<pc, port, req, result, accepted, toSlave, pipe, seen, runs, flushed>>

-----------------------------------------------------------------------------
Master == Flush \/ Write \/ Poll \/ WaitExpires \/ Take

Environment ==
    \/ \E form \in Forms \ {"badheader"} : SlaveAnswers(form)
    \/ SlaveIsSilent
    \/ Arrive

Next ==
    \/ \E u \in Units, f \in Functions, q \in Quantities : Call(u, f, q)
    \/ Master
    \/ Environment

Spec == Init /\ [][Next]_vars

-----------------------------------------------------------------------------
Promise == INSTANCE ModbusCall WITH busy <- pc # "idle"

\* Over a serial line Send keeps the promise of ModbusCall, with late, cut and
\* disturbed answers: the CRC and the comparisons that follow it suffice.
KeepsPromise == Promise!Spec

\* When no answer outlives the flush of the next call, a call that succeeds
\* hands over the answer to that very request, although RTU frames carry
\* nothing that says which request they answer.
SuccessIsFresh ==
    (flushed = "all" /\ result = "merNone") => accepted.id = req.id
=============================================================================
