---------------------------- MODULE DelphiModbus -----------------------------
(***************************************************************************)
(* The TModbus of the Delphi client (TurnstileDelphi/source/uModbus.pas),  *)
(* called by the polling thread and by the form at once: Send takes a      *)
(* critical section, and under it SendRTU or SendTCP flushes, writes, and  *)
(* collects what comes within the time for an answer.                      *)
(*                                                                         *)
(* As in ModbusTcp and ModbusRtu the answers on their way are pipe, in     *)
(* parts of half a frame, the first of which have arrived.                 *)
(***************************************************************************)
EXTENDS ModbusPdu, Sequences

CONSTANT Tries  \* further reads of SendRTU, 5

Callers == {"thread", "form"}
Nobody  == "nobody"

VARIABLES
    FModbusTCP,  \* which channel it is, for its whole life
    FSection,    \* who is inside
    call,        \* the latest call of each caller
    sock,        \* FSocket as in ModbusTcp; of FPort: "up" or "closed"
    toSlave,     \* requests no slave has taken
    pipe,        \* the answers on their way
    arrived,     \* how many parts of them can be read
    ran          \* how often a slave executed each call (ghost)

line == <<toSlave, pipe, arrived>>
vars == <<FModbusTCP, FSection, call, sock, line, ran>>

Part     == [part : {"start", "rest"}, ans : Answer]
Frame(a) == << [part |-> "start", ans |-> a], [part |-> "rest", ans |-> a] >>

\* The request itself, taken for its answer.
Own(r) == [id |-> r.id, unit |-> r.unit, func |-> r.func, qty |-> r.qty, form |-> "own"]

\* The fields of a call are its place, request, result and answer, the local
\* variables dataout, cnt and i (which counts up here), and the ghost of the
\* other transports that tells what its flush left.  Of the result only success
\* is told apart, and a call that failed leaves nothing but its number.
NoCall == [pc |-> "idle", req |-> NoRequest, result |-> "pending", accepted |-> NoAnswer,
           dataout |-> << >>, cnt |-> 0, i |-> 0, flushed |-> "all"]

TypeOK ==
    /\ FModbusTCP \in BOOLEAN
    /\ FSection \in Callers \cup {Nobody}
    /\ call \in [Callers ->
         [pc : {"idle", "enter", "connect", "reconnect", "flush", "write", "resend",
                "wait", "again", "read", "collect"},
          req : Request,
          result : {"pending", "merNone", "failed"},
          accepted : [id : Ids, unit : Units, func : Functions, qty : Quantities,
                      form : Forms \cup {"ok", "own"}],
          dataout : Seq(Part),
          cnt : Nat, i : Nat, flushed : {"all", "some"}]]
    /\ sock \in {"up", "closed", "halfclosed", "broken", "reset"}
    /\ toSlave \in Seq(Request)
    /\ pipe \in Seq(Part)
    /\ arrived \in 0 .. Len(pipe)
    /\ ran \in [Ids -> Nat]

Init ==
    /\ FModbusTCP \in BOOLEAN
    /\ FSection = Nobody
    /\ call = [c \in Callers |-> NoCall]
    /\ sock \in {"up", "closed"}
    /\ toSlave = << >> /\ pipe = << >> /\ arrived = 0
    /\ ran = [i \in Ids |-> 0]

-----------------------------------------------------------------------------
at(c) == call[c].pc

\* A step of c inside the section.
GoOn(c, place) ==
    /\ call' = [call EXCEPT ![c].pc = place]
    /\ UNCHANGED FSection

Failed(c) == [NoCall EXCEPT !.req = [NoRequest EXCEPT !.id = call[c].req.id],
                            !.result = "failed"]

\* "finally FSection.Leave", whatever the result is.
Fail(c) == call' = [call EXCEPT ![c] = Failed(c)] /\ FSection' = Nobody

\* What Send and its caller make of an answer; a read's request is no answer
\* to it.
DelphiVerdict_AnyUnit(r, a) == Verdict([r EXCEPT !.unit = a.unit], a)

DelphiVerdict(r, a) ==
    CASE a.form = "own" /\ r.func = "read" -> "merWrongDataLenFrom"
      [] OTHER                             -> Verdict(r, a)

Judge(c, a) ==
    \/ DelphiVerdict(call[c].req, a) # "merNone" /\ Fail(c)
    \/ /\ DelphiVerdict(call[c].req, a) = "merNone"
       /\ call' = [call EXCEPT ![c] =
            [NoCall EXCEPT !.req = call[c].req, !.flushed = call[c].flushed,
                           !.accepted = a, !.result = "merNone"]]
       /\ FSection' = Nobody

\* Take the first n parts that can be read.
Read(n) ==
    /\ pipe' = SubSeq(pipe, n + 1, Len(pipe))
    /\ arrived' = arrived - n

Close == sock' = "closed" /\ toSlave' = << >> /\ pipe' = << >> /\ arrived' = 0

-----------------------------------------------------------------------------
\* The calls are numbered as they begin.
Latest == LET ids == {call[c].req.id : c \in Callers}
          IN  CHOOSE n \in ids : \A m \in ids : m <= n

\* The polling thread only reads, the form reads and writes.  No check looks at
\* the quantity of a read.
Call(c, u, f, q) ==
    /\ at(c) = "idle"
    /\ c = "thread" => f = "read"
    /\ f = "read" => q = NoRequest.qty
    /\ Latest < MaxCalls
    /\ call' = [call EXCEPT
         ![c].req = [id |-> Latest + 1, unit |-> u, func |-> f, qty |-> q],
         ![c].pc = "enter", ![c].result = "pending"]
    /\ UNCHANGED <<FSection, sock, line, ran>>

Begun(c) ==
    /\ FSection' = c
    /\ call' = [call EXCEPT ![c].pc = IF sock = "closed" THEN "connect" ELSE "flush"]

\* It is let into the section.  A port that is not open ends it at once.
Enter_Unlocked(c) ==
    /\ at(c) = "enter"
    /\ IF sock = "closed" /\ ~FModbusTCP THEN Fail(c) ELSE Begun(c)
    /\ UNCHANGED <<sock, line, ran>>

Enter_NoFinally(c) ==
    /\ at(c) = "enter" /\ FSection = Nobody
    /\ IF sock = "closed" /\ ~FModbusTCP
       THEN call' = [call EXCEPT ![c] = Failed(c)] /\ FSection' = c
       ELSE Begun(c)
    /\ UNCHANGED <<sock, line, ran>>

Enter(c) ==
    /\ at(c) = "enter" /\ FSection = Nobody
    /\ IF sock = "closed" /\ ~FModbusTCP THEN Fail(c) ELSE Begun(c)
    /\ UNCHANGED <<sock, line, ran>>

\* TCPConnect, before the flush or after a send that failed.
Connect(c) ==
    /\ at(c) \in {"connect", "reconnect"}
    /\ \/ sock' = "up" /\ GoOn(c, IF at(c) = "connect" THEN "flush" ELSE "resend")
       \/ UNCHANGED sock /\ Fail(c)
    /\ UNCHANGED <<line, ran>>

\* What has arrived is read, by SendRTU to dataout.
Flush(c) ==
    /\ at(c) = "flush"
    /\ call' = [call EXCEPT
         ![c].pc = "write",
         ![c].dataout = IF FModbusTCP THEN << >> ELSE SubSeq(pipe, 1, arrived),
         ![c].flushed = IF toSlave = << >> /\ arrived = Len(pipe) THEN "all" ELSE "some"]
    /\ Read(arrived)
    /\ UNCHANGED <<FSection, sock, toSlave, ran>>

-----------------------------------------------------------------------------
(* SendRTU                                                                 *)

WriteStr(c) ==
    /\ ~FModbusTCP /\ at(c) = "write"
    /\ toSlave' = Append(toSlave, call[c].req)
    /\ GoOn(c, "wait")
    /\ UNCHANGED <<sock, pipe, arrived, ran>>

\* The port raises an exception, which Send swallows: it goes on with whatever
\* dataout is (until it is cleared the flushed bytes), and at best says merUndef.
Raises(c) ==
    /\ ~FModbusTCP /\ at(c) \in {"flush", "write", "wait", "read", "collect"}
    /\ \/ UNCHANGED toSlave
       \/ at(c) = "write" /\ toSlave' = Append(toSlave, call[c].req)
    /\ Fail(c)
    /\ UNCHANGED <<sock, pipe, arrived, ran>>

\* As soon as there are bytes they are counted, and the thread sleeps out its time;
\* when there are none in time cnt is 0, or uninitialised if it never looked.
Count(c) ==
    /\ ~FModbusTCP /\ at(c) = "wait"
    /\ \E n \in 0 .. arrived :
         call' = [call EXCEPT ![c].pc = IF n = 0 THEN "collect" ELSE "read",
                              ![c].cnt = n, ![c].dataout = << >>]
    /\ UNCHANGED <<FSection, sock, line, ran>>

ReadStr(c) ==
    /\ at(c) = "read"
    /\ LET n == IF call[c].cnt < arrived THEN call[c].cnt ELSE arrived
       IN  /\ call' = [call EXCEPT ![c].pc = "collect", ![c].dataout = SubSeq(pipe, 1, n)]
           /\ Read(n)
    /\ UNCHANGED <<FSection, sock, toSlave, ran>>

\* The CRC is that of one whole frame and of nothing else.
CrcIsRight(ps) ==
    /\ Len(ps) = 2
    /\ ps[1].part = "start" /\ ps[2].part = "rest"
    /\ ps[1].ans.form # "corrupt"

\* While the CRC is not right it reads what has come meanwhile, Tries times.
Collect(c) ==
    /\ at(c) = "collect"
    /\ ~CrcIsRight(call[c].dataout) /\ call[c].i < Tries
    /\ call' = [call EXCEPT ![c].dataout = @ \o SubSeq(pipe, 1, arrived), ![c].i = @ + 1]
    /\ Read(arrived)
    /\ UNCHANGED <<FSection, sock, toSlave, ran>>

Collected(c) ==
    /\ at(c) = "collect"
    /\ LET got == call[c].dataout
       IN  \/ CrcIsRight(got) /\ Judge(c, got[1].ans)
           \/ /\ ~CrcIsRight(got) /\ call[c].i = Tries
              /\ Fail(c)
    /\ UNCHANGED <<sock, line, ran>>

-----------------------------------------------------------------------------
(* SendTCP                                                                 *)

\* A peer that has closed loses the request and resets the connection.
SendAll(c) ==
    /\ FModbusTCP /\ at(c) \in {"write", "resend"}
    /\ \/ sock = "up" /\ toSlave' = Append(toSlave, call[c].req) /\ UNCHANGED sock
       \/ sock = "halfclosed" /\ sock' = "broken" /\ UNCHANGED toSlave
    /\ GoOn(c, "wait")
    /\ UNCHANGED <<pipe, arrived, ran>>

SendSome(c) ==
    /\ FModbusTCP /\ at(c) \in {"write", "resend"}
    /\ sock = "up"
    /\ Close
    /\ Fail(c)
    /\ UNCHANGED ran

\* SendBuf gives -1: close, and try once more over a new connection.
SendFails(c) ==
    /\ FModbusTCP /\ at(c) \in {"write", "resend"}
    /\ sock \in {"broken", "reset"}
    /\ Close
    /\ IF at(c) = "write" THEN GoOn(c, "reconnect") ELSE Fail(c)
    /\ UNCHANGED ran

\* What there is must be one frame, of the length its header says.
Receive(c) ==
    /\ FModbusTCP /\ at(c) \in {"wait", "again"}
    /\ arrived > 0
    /\ Read(arrived)
    /\ IF arrived = 2 /\ pipe[1].part = "start" /\ pipe[1].ans.form # "badheader"
       THEN Judge(c, pipe[1].ans)
       ELSE Fail(c)
    /\ UNCHANGED <<sock, toSlave, ran>>

\* On a connection that is lost WaitForData says yes, and PeekBuf finds nothing.
Lost == sock \in {"halfclosed", "broken", "reset"} /\ pipe = << >>

\* Nothing comes in time; it waits once more.
NoData(c) ==
    /\ FModbusTCP /\ arrived = 0
    /\ \/ at(c) = "wait" /\ GoOn(c, "again")
       \/ at(c) = "again" /\ ~Lost /\ Fail(c)
    /\ UNCHANGED <<sock, line, ran>>

\* After the second wait s still holds the request if nothing was found: it is
\* taken for the answer.
OwnRequest(c) ==
    /\ FModbusTCP /\ at(c) = "again" /\ Lost
    /\ Judge(c, Own(call[c].req))
    /\ UNCHANGED <<sock, line, ran>>

-----------------------------------------------------------------------------
(* The slaves and the line, as in ModbusTcp and ModbusRtu.                 *)

SlaveAnswers(form) ==
    /\ sock = "up" /\ toSlave # << >>
    /\ form # IF FModbusTCP THEN "corrupt" ELSE "badheader"
    /\ pipe' = pipe \o Frame(AnswerTo(Head(toSlave), form))
    /\ ran' = IF Executes(form) THEN [ran EXCEPT ![Head(toSlave).id] = @ + 1] ELSE ran
    /\ toSlave' = Tail(toSlave)
    /\ UNCHANGED <<FSection, call, sock, arrived>>

SlaveIsSilent ==
    /\ sock = "up" /\ toSlave # << >>
    /\ ran' \in {ran, [ran EXCEPT ![Head(toSlave).id] = @ + 1]}
    /\ toSlave' = Tail(toSlave)
    /\ UNCHANGED <<FSection, call, sock, pipe, arrived>>

Arrive ==
    /\ arrived < Len(pipe)
    /\ arrived' = arrived + 1
    /\ UNCHANGED <<FSection, call, sock, toSlave, pipe, ran>>

PeerCloses ==
    /\ FModbusTCP /\ sock = "up"
    /\ sock' = "halfclosed" /\ toSlave' = << >>
    /\ UNCHANGED <<FSection, call, pipe, arrived, ran>>

PeerResets ==
    /\ FModbusTCP /\ sock = "up"
    /\ sock' = "reset" /\ toSlave' = << >> /\ pipe' = << >> /\ arrived' = 0
    /\ UNCHANGED <<FSection, call, ran>>

-----------------------------------------------------------------------------
Inside(c) ==
    \/ Enter(c) \/ Connect(c) \/ Flush(c)
    \/ WriteStr(c) \/ Raises(c) \/ Count(c) \/ ReadStr(c) \/ Collect(c) \/ Collected(c)
    \/ SendAll(c) \/ SendSome(c) \/ SendFails(c) \/ Receive(c) \/ NoData(c) \/ OwnRequest(c)

Environment ==
    \/ \E form \in Forms : SlaveAnswers(form)
    \/ SlaveIsSilent \/ Arrive \/ PeerCloses \/ PeerResets

Next ==
    /\ \/ \E c \in Callers, u \in Units, f \in Functions, q \in Quantities : Call(c, u, f, q)
       \/ \E c \in Callers : Inside(c)
       \/ Environment
    /\ UNCHANGED FModbusTCP

Spec == Init /\ [][Next]_vars

-----------------------------------------------------------------------------
\* A call that succeeds hands over an answer of the slave and function asked for,
\* to a request that was executed, once - but a write over a connection that was
\* lost may have got nothing but its own request, and was perhaps never executed.
SuccessIsAnswer ==
    \A c \in Callers : call[c].result = "merNone" =>
        LET r == call[c].req
            a == call[c].accepted
        IN  /\ a.unit = r.unit /\ a.func = r.func
            /\ r.func = "write" => a.qty = r.qty
            /\ ran[a.id] = 1 \/ (FModbusTCP /\ r.func = "write" /\ a = Own(r))

\* No request is executed twice, whichever of the two callers made it and however
\* often a write that met a lost connection is made again.
ExecutedOnce == \A i \in Ids : ran[i] <= 1

\* The section keeps the calls of the form and of the thread apart: neither gets
\* the answer of the other, nor of an older call unless the flush left it.
OwnAnswer ==
    \A c \in Callers :
        (call[c].result = "merNone" /\ call[c].flushed = "all") =>
            call[c].accepted.id = call[c].req.id

\* Every call returns, that of the caller that has to wait for the other too.
CallsReturn == \A c \in Callers : (at(c) # "idle") ~> (at(c) = "idle")
=============================================================================
