---------------------------- MODULE TModbusProofs -----------------------------
(***************************************************************************)
(* Theorems about the class TModbus, for every set of slaves, requests and *)
(* answer forms, every number of calls, and however late the answers come: *)
(* about ModbusTcp, about ModbusRtu on the same variables, and about the   *)
(* class, which is one of the two for the service and DelphiModbus for the *)
(* client.                                                                 *)
(***************************************************************************)
EXTENDS TModbus, TLAPS

\* The values before the first call exist.
LEMMA NoRequestType == NoRequest \in Request /\ NoRequest.id = 0
  BY PduAssumption DEF NoRequest, Request, Ids, Functions

LEMMA NoAnswerType == NoAnswer \in Answer
  BY NoRequestType, PduAssumption DEF NoAnswer, Answer, Request, Ids, Functions

\* The answer to a request is an answer, and repeats its number, slave,
\* function and count.
LEMMA AnswerToType ==
  ASSUME NEW r \in Request, NEW form \in Forms
  PROVE  /\ AnswerTo(r, form) \in Answer
         /\ AnswerTo(r, form).id = r.id
         /\ AnswerTo(r, form).form = form
  BY DEF AnswerTo, Request, Answer

\* What the checks on an answer can report, and what they have established
\* when they report nothing.
LEMMA VerdictType ==
  ASSUME NEW r \in Request, NEW a \in Answer
  PROVE  Verdict(r, a) \in Errors \cup {"merNone"}
  BY DEF Verdict, SentVerdict, CallerVerdict, ExceptionError, Errors

LEMMA VerdictNone ==
  ASSUME NEW r \in Request, NEW a \in Answer, Verdict(r, a) = "merNone"
  PROVE  /\ a.unit = r.unit
         /\ a.func = r.func
         /\ r.func = "write" => a.qty = r.qty
         /\ Executes(a.form)
<1>1. SentVerdict(r, a) = "merNone" /\ CallerVerdict(r, a) = "merNone"
  BY DEF Verdict
<1>2. a.unit = r.unit /\ a.func = r.func /\ Executes(a.form)
  BY <1>1 DEF SentVerdict, ExceptionError
<1>3. QED
  BY <1>1, <1>2 DEF CallerVerdict, WriteAccepts

-----------------------------------------------------------------------------
\* Frames, and the sequences the steps make of the two channels.
LEMMA FrameType ==
  ASSUME NEW a \in Answer
  PROVE  /\ Frame(a) \in Seq(Parts)
         /\ Len(Frame(a)) = 2
         /\ Frame(a)[1].ans = a
         /\ Frame(a)[2].ans = a
<1>1. /\ [part |-> "header", ans |-> a] \in Parts
      /\ [part |-> "body", ans |-> a] \in Parts
  BY DEF Parts, Part
<1>2. QED
  BY <1>1 DEF Frame

\* The elements of a sequence that grew at its end, or lost its head.
LEMMA AppendElements ==
  ASSUME NEW S, NEW s \in Seq(S), NEW e \in S, NEW k \in 1 .. Len(Append(s, e))
  PROVE  \/ k \in 1 .. Len(s) /\ Append(s, e)[k] = s[k]
         \/ k = Len(s) + 1 /\ Append(s, e)[k] = e
  OBVIOUS

LEMMA ConcatElements ==
  ASSUME NEW S, NEW s \in Seq(S), NEW t \in Seq(S), NEW k \in 1 .. Len(s \o t)
  PROVE  \/ k \in 1 .. Len(s) /\ (s \o t)[k] = s[k]
         \/ k - Len(s) \in 1 .. Len(t) /\ (s \o t)[k] = t[k - Len(s)]
  OBVIOUS

LEMMA TailElements ==
  ASSUME NEW S, NEW s \in Seq(S), s # << >>, NEW k \in 1 .. Len(Tail(s))
  PROVE  k + 1 \in 1 .. Len(s) /\ Tail(s)[k] = s[k + 1]
  OBVIOUS

\* The stream after another answer: what was there, and parts of that answer.
LEMMA AnswerElements ==
  ASSUME NEW s \in Seq(Parts), NEW a \in Answer, NEW k \in 1 .. Len(s \o Frame(a))
  PROVE  \/ k \in 1 .. Len(s) /\ (s \o Frame(a))[k] = s[k]
         \/ (s \o Frame(a))[k].ans = a
<1>1. /\ Frame(a) \in Seq(Parts) /\ Len(Frame(a)) = 2
      /\ Frame(a)[1].ans = a /\ Frame(a)[2].ans = a
  BY FrameType
<1>2. CASE k \in 1 .. Len(s) /\ (s \o Frame(a))[k] = s[k]
  BY <1>2
<1>3. CASE k - Len(s) \in 1 .. Len(Frame(a)) /\ (s \o Frame(a))[k] = Frame(a)[k - Len(s)]
  <2>1. k - Len(s) = 1 \/ k - Len(s) = 2
    BY <1>1, <1>3
  <2>2. QED
    BY <1>1, <1>3, <2>1
<1>4. QED
  BY <1>1, <1>2, <1>3, ConcatElements

LEMMA PartAnswer ==
  ASSUME NEW p \in Parts
  PROVE  p.ans \in Answer
  BY DEF Parts, Part

LEMMA DropType ==
  ASSUME TypeOK, DropArrived
  PROVE  pipe' \in Seq(Parts) /\ arrived' = 0
  BY DEF TypeOK, DropArrived

LEMMA ConsumeType ==
  ASSUME TypeOK, arrived > 0, Consume
  PROVE  /\ pipe # << >>
         /\ Head(pipe) \in Parts
         /\ pipe' \in Seq(Parts)
         /\ arrived' \in Nat
         /\ arrived' <= Len(pipe')
  BY DEF TypeOK, Consume

-----------------------------------------------------------------------------
\* Type correctness.
LEMMA InitType == Init => TypeOK
  BY NoRequestType, NoAnswerType DEF Init, TypeOK, Points, SocketStates, Ids

LEMMA StepType == TypeOK /\ [Next]_vars => TypeOK'
<1> SUFFICES ASSUME TypeOK, [Next]_vars PROVE TypeOK'
  OBVIOUS
<1> USE DEF TypeOK, Points, SocketStates, stream, Return
<1>1. ASSUME NEW u \in Units, NEW f \in Functions, NEW q \in Quantities,
             Call(u, f, q)
      PROVE  TypeOK'
  <2>1. req' \in Request
    BY <1>1, PduAssumption DEF Call, Request, Ids
  <2>2. QED
    BY <1>1, <2>1 DEF Call
<1>2. CASE Connected
  BY <1>2 DEF Connected
<1>3. CASE ConnectFails
  BY <1>3 DEF ConnectFails, Errors
<1>4. CASE Flush
  BY <1>4, DropType DEF Flush
<1>5. CASE WriteAll
  <2>1. toSlave' \in Seq(Request)
    BY <1>5 DEF WriteAll
  <2>2. QED
    BY <1>5, <2>1 DEF WriteAll
<1>6. CASE WriteSome
  BY <1>6 DEF WriteSome, Close, Errors
<1>7. CASE WriteFails
  BY <1>7 DEF WriteFails, Close
<1>8. CASE WriteRaisesSigPipe
  BY <1>8 DEF WriteRaisesSigPipe
<1>9. CASE Reconnected
  BY <1>9 DEF Reconnected
<1>10. CASE ReconnectFails
  BY <1>10 DEF ReconnectFails, Errors
<1>11. CASE RewriteFails
  BY <1>11 DEF RewriteFails, Close, Errors
<1>12. CASE ReadHeader
  <2>1. pipe' \in Seq(Parts) /\ arrived' \in Nat /\ arrived' <= Len(pipe')
    BY <1>12, ConsumeType DEF ReadHeader
  <2>2. QED
    BY <1>12, <2>1 DEF ReadHeader, Consume, Errors
<1>13. CASE ReadBody
  <2>1. /\ pipe' \in Seq(Parts) /\ arrived' \in Nat /\ arrived' <= Len(pipe')
        /\ Head(pipe).ans \in Answer
    BY <1>13, ConsumeType, PartAnswer DEF ReadBody
  <2>2. Verdict(req, Head(pipe).ans) \in Errors \cup {"merNone"}
    BY <2>1, VerdictType
  <2>3. accepted' \in Answer /\ result' \in Errors \cup {"merNone"}
    BY <1>13, <2>1, <2>2 DEF ReadBody, Errors
  <2>4. QED
    BY <1>13, <2>1, <2>3 DEF ReadBody, Consume
<1>14. CASE WaitExpires
  BY <1>14 DEF WaitExpires, Errors
<1>15. ASSUME NEW form \in Forms, SlaveAnswers(form)
       PROVE  TypeOK'
  <2>1. Head(toSlave) \in Request /\ toSlave' \in Seq(Request)
    BY <1>15 DEF SlaveAnswers
  <2>2. Frame(AnswerTo(Head(toSlave), form)) \in Seq(Parts)
    BY <2>1, AnswerToType, FrameType
  <2>3. pipe' \in Seq(Parts) /\ arrived <= Len(pipe')
    BY <1>15, <2>2 DEF SlaveAnswers
  <2>4. runs' \in [Ids -> Nat]
    <3>1. Head(toSlave).id \in Ids
      BY <2>1 DEF Request
    <3>2. QED
      BY <1>15, <3>1 DEF SlaveAnswers, Executes
  <2>5. QED
    BY <1>15, <2>1, <2>3, <2>4 DEF SlaveAnswers
<1>16. CASE SlaveIsSilent
  BY <1>16 DEF SlaveIsSilent
<1>17. CASE Arrive
  BY <1>17 DEF Arrive
<1>18. CASE PeerCloses
  BY <1>18 DEF PeerCloses
<1>19. CASE PeerResets
  BY <1>19 DEF PeerResets
<1>20. CASE UNCHANGED vars
  BY <1>20 DEF vars
<1>21. QED
  BY <1>1, <1>2, <1>3, <1>4, <1>5, <1>6, <1>7, <1>8, <1>9, <1>10, <1>11,
     <1>12, <1>13, <1>14, <1>15, <1>16, <1>17, <1>18, <1>19, <1>20
  DEF Next, Master, Environment

\* Every state the calls, the slave and the network can produce is well typed:
\* in particular no more is taken out of the receive buffer than is in it.
THEOREM TypeCorrect == Spec => []TypeOK
<1>1. QED
  BY InitType, StepType, PTL DEF Spec

-----------------------------------------------------------------------------
(***************************************************************************)
(* The inductive invariant.  The calls are numbered, so a request that is  *)
(* still to be written is newer than all that were written; the slave takes *)
(* them in that order and has run none that it has not taken.              *)
(***************************************************************************)
ToBeWritten == {"connect", "flush", "write", "reconnect", "rewrite"}

\* The slave ran a call once at most, and none that was not made.
RunsAreOfCalls ==
    \A i \in Ids : runs[i] <= 1 /\ (i > req.id => runs[i] = 0)

\* What the slave has not taken yet was not run, and is in calling order.
WaitingIsNotRun ==
    /\ \A k \in 1 .. Len(toSlave) :
         toSlave[k].id \in 1 .. req.id /\ runs[toSlave[k].id] = 0
    /\ \A j, k \in 1 .. Len(toSlave) : j < k => toSlave[j].id < toSlave[k].id

\* A call in progress has a number, and is nowhere before it was written.
CurrentIsNew ==
    /\ pc # "idle" => req.id > 0
    /\ pc \in ToBeWritten =>
         /\ runs[req.id] = 0
         /\ \A k \in 1 .. Len(toSlave) : toSlave[k].id < req.id

\* An answer to a request that is executed is an answer to one that was.
AnswersWereRun ==
    \A k \in 1 .. Len(pipe) :
        /\ pipe[k].ans.id \in 1 .. req.id
        /\ Executes(pipe[k].ans.form) => runs[pipe[k].ans.id] = 1

\* Without late answers there is, after the flush, nothing of an older call.
OnlyCurrent ==
    /\ pc \in {"write", "rewrite", "header", "body"} =>
         /\ \A k \in 1 .. Len(pipe) : pipe[k].ans.id = req.id
         /\ \A k \in 1 .. Len(toSlave) : toSlave[k].id = req.id
    /\ pc = "reconnect" => pipe = << >> /\ toSlave = << >>

\* A call that has not flushed has not succeeded.
Unanswered == pc \in {"connect", "flush"} => result = "pending"

\* What both channels have in common of it.
LineType ==
    /\ req \in Request
    /\ toSlave \in Seq(Request)
    /\ runs \in [Ids -> Nat]
    /\ \A k \in 1 .. Len(pipe) : pipe[k].ans \in Answer

LineInv ==
    LineType /\ RunsAreOfCalls /\ WaitingIsNotRun /\ CurrentIsNew /\ AnswersWereRun

RunInv   == TypeOK /\ LineInv
FreshInv == TypeOK /\ (flushed = "all" => OnlyCurrent) /\ Unanswered /\ SuccessIsFresh

-----------------------------------------------------------------------------
\* Every step but three leaves the answer accepted by a call as it is, and
\* none but ReadBody reports success.
LEMMA OnlyReadBodySucceeds ==
  ASSUME TypeOK, [Next]_vars, result' = "merNone"
  PROVE  \/ result = "merNone" /\ UNCHANGED <<req, accepted>>
         \/ ReadBody
<1> USE DEF stream, Return, Errors
<1>1. ASSUME NEW u \in Units, NEW f \in Functions, NEW q \in Quantities,
             Call(u, f, q)
      PROVE  FALSE
  BY <1>1 DEF Call
<1>2. CASE Connected \/ ConnectFails
  BY <1>2 DEF Connected, ConnectFails
<1>3. CASE Flush \/ WriteAll \/ WriteSome \/ WriteFails \/ WriteRaisesSigPipe
  BY <1>3 DEF Flush, WriteAll, WriteSome, WriteFails, WriteRaisesSigPipe
<1>4. CASE Reconnected \/ ReconnectFails \/ RewriteFails
  BY <1>4 DEF Reconnected, ReconnectFails, RewriteFails
<1>5. CASE ReadHeader \/ WaitExpires
  BY <1>5 DEF ReadHeader, WaitExpires
<1>6. CASE Environment
  BY <1>6 DEF Environment, SlaveAnswers, SlaveIsSilent, Arrive, PeerCloses, PeerResets
<1>7. CASE UNCHANGED vars
  BY <1>7 DEF vars
<1>8. QED
  BY <1>1, <1>2, <1>3, <1>4, <1>5, <1>6, <1>7 DEF Next, Master

\* What ReadBody hands over when it succeeds.
LEMMA ReadBodySucceeds ==
  ASSUME TypeOK, ReadBody, result' = "merNone"
  PROVE  /\ pc = "body"
         /\ pipe # << >>
         /\ accepted' = Head(pipe).ans
         /\ Head(pipe).ans \in Answer
         /\ Verdict(req, Head(pipe).ans) = "merNone"
         /\ req' = req
<1>1. arrived > 0 /\ Consume
  BY DEF ReadBody
<1>2. pipe # << >> /\ Head(pipe).ans \in Answer
  BY <1>1, ConsumeType, PartAnswer
<1>3. QED
  BY <1>2 DEF ReadBody, Return

\* A call that succeeds hands over an answer of the slave and the function it
\* was made to, and for a write of as many registers as it wrote.
THEOREM SuccessMatches == Spec => []SuccessMatchesRequest
<1>1. Init => SuccessMatchesRequest
  BY DEF Init, SuccessMatchesRequest
<1>2. TypeOK /\ SuccessMatchesRequest /\ [Next]_vars => SuccessMatchesRequest'
  <2> SUFFICES ASSUME TypeOK, SuccessMatchesRequest, [Next]_vars, result' = "merNone"
               PROVE  /\ accepted'.unit = req'.unit
                      /\ accepted'.func = req'.func
                      /\ req'.func = "write" => accepted'.qty = req'.qty
    BY DEF SuccessMatchesRequest
  <2>1. CASE result = "merNone" /\ UNCHANGED <<req, accepted>>
    BY <2>1 DEF SuccessMatchesRequest
  <2>2. CASE ReadBody
    <3>1. req \in Request
      BY DEF TypeOK
    <3>2. QED
      BY <2>2, <3>1, ReadBodySucceeds, VerdictNone
  <2>3. QED
    BY <2>1, <2>2, OnlyReadBodySucceeds
<1>3. QED
  BY <1>1, <1>2, TypeCorrect, PTL DEF Spec

-----------------------------------------------------------------------------
\* The flush leaves nothing of an older call when no answer is late.
LEMMA FlushEmpties ==
  ASSUME TypeOK, Flush, flushed' = "all"
  PROVE  pipe' = << >> /\ toSlave' = << >>
  BY DEF TypeOK, Flush, DropArrived

LEMMA OnlyFlushFlushes ==
  ASSUME [Next]_vars
  PROVE  Flush \/ UNCHANGED flushed
  BY DEF Next, Master, Environment, vars, Call, Connected, ConnectFails, WriteAll,
         WriteSome, WriteFails, WriteRaisesSigPipe, Reconnected, ReconnectFails,
         RewriteFails, ReadHeader, ReadBody, WaitExpires, SlaveAnswers,
         SlaveIsSilent, Arrive, PeerCloses, PeerResets

LEMMA UnansweredStep ==
  ASSUME Unanswered, [Next]_vars
  PROVE  Unanswered'
  BY DEF Unanswered, Return, Next, Master, Environment, vars, Call, Connected,
         ConnectFails, Flush, WriteAll, WriteSome, WriteFails, WriteRaisesSigPipe,
         Reconnected, ReconnectFails, RewriteFails, ReadHeader, ReadBody, WaitExpires,
         SlaveAnswers, SlaveIsSilent, Arrive, PeerCloses, PeerResets

LEMMA OnlyCurrentStep ==
  ASSUME TypeOK, flushed = "all" => OnlyCurrent, [Next]_vars, flushed' = "all"
  PROVE  OnlyCurrent'
<1>0. CASE Flush
  BY <1>0, FlushEmpties DEF Flush, OnlyCurrent
<1> SUFFICES ASSUME ~Flush, OnlyCurrent PROVE OnlyCurrent'
  BY <1>0, OnlyFlushFlushes
<1> USE DEF OnlyCurrent, stream, Return
<1>1. ASSUME NEW u \in Units, NEW f \in Functions, NEW q \in Quantities,
             Call(u, f, q)
      PROVE  OnlyCurrent'
  BY <1>1 DEF Call
<1>2. CASE Connected \/ ConnectFails
  BY <1>2 DEF Connected, ConnectFails
<1>4. CASE WriteAll
  <2>1. ASSUME NEW k \in 1 .. Len(toSlave')
        PROVE  toSlave'[k].id = req.id
    <3>1. toSlave \in Seq(Request) /\ req \in Request
      BY DEF TypeOK
    <3>2. CASE toSlave' = toSlave
      BY <1>4, <2>1, <3>2 DEF WriteAll
    <3>3. CASE toSlave' = Append(toSlave, req)
      BY <1>4, <2>1, <3>1, <3>3, AppendElements DEF WriteAll
    <3>4. QED
      BY <1>4, <3>2, <3>3 DEF WriteAll
  <2>2. QED
    BY <1>4, <2>1 DEF WriteAll
<1>5. CASE WriteSome \/ WriteFails \/ WriteRaisesSigPipe
  BY <1>5 DEF WriteSome, WriteFails, WriteRaisesSigPipe, Close
<1>6. CASE Reconnected \/ ReconnectFails \/ RewriteFails
  BY <1>6 DEF Reconnected, ReconnectFails, RewriteFails
<1>7. CASE ReadHeader
  <2>1. Len(pipe') = Len(pipe) - 1 /\ \A k \in 1 .. Len(pipe') : pipe'[k] = pipe[k + 1]
    BY <1>7, ConsumeType DEF ReadHeader, Consume, TypeOK
  <2>2. QED
    BY <1>7, <2>1 DEF ReadHeader, Consume, TypeOK
<1>8. CASE ReadBody \/ WaitExpires
  BY <1>8 DEF ReadBody, WaitExpires
<1>9. ASSUME NEW form \in Forms, SlaveAnswers(form)
      PROVE  OnlyCurrent'
  <2> SUFFICES ASSUME pc \in {"write", "rewrite", "header", "body"}
               PROVE  /\ \A k \in 1 .. Len(pipe') : pipe'[k].ans.id = req.id
                      /\ \A k \in 1 .. Len(toSlave') : toSlave'[k].id = req.id
    BY <1>9 DEF SlaveAnswers
  <2> DEFINE a == AnswerTo(Head(toSlave), form)
  <2>1. Head(toSlave) \in Request /\ Head(toSlave).id = req.id
    BY <1>9 DEF SlaveAnswers, TypeOK
  <2>2. a \in Answer /\ a.id = req.id
    BY <2>1, AnswerToType
  <2>3. pipe' = pipe \o Frame(a) /\ toSlave' = Tail(toSlave) /\ toSlave # << >>
    BY <1>9 DEF SlaveAnswers
  <2>4. pipe \in Seq(Parts) /\ toSlave \in Seq(Request)
    BY DEF TypeOK
  <2> HIDE DEF a
  <2>5. ASSUME NEW k \in 1 .. Len(pipe')
        PROVE  pipe'[k].ans.id = req.id
    BY <2>2, <2>3, <2>4, <2>5, AnswerElements
  <2>6. ASSUME NEW k \in 1 .. Len(toSlave')
        PROVE  toSlave'[k].id = req.id
    BY <2>3, <2>4, <2>6, TailElements
  <2>7. QED
    BY <2>5, <2>6
<1>10. CASE SlaveIsSilent
  <2>1. ASSUME NEW k \in 1 .. Len(toSlave')
        PROVE  toSlave'[k] = toSlave[k + 1] /\ k + 1 \in 1 .. Len(toSlave)
    BY <1>10, <2>1 DEF SlaveIsSilent, TypeOK
  <2>2. QED
    BY <1>10, <2>1 DEF SlaveIsSilent
<1>11. CASE Arrive \/ PeerCloses \/ PeerResets
  BY <1>11 DEF Arrive, PeerCloses, PeerResets
<1>12. CASE UNCHANGED vars
  BY <1>12 DEF vars
<1>13. QED
  BY <1>1, <1>2, <1>4, <1>5, <1>6, <1>7, <1>8, <1>9, <1>10, <1>11, <1>12
  DEF Next, Master, Environment

LEMMA FreshInit == Init => FreshInv
  BY InitType DEF Init, FreshInv, OnlyCurrent, Unanswered, SuccessIsFresh

LEMMA FreshStep ==
  ASSUME FreshInv, [Next]_vars
  PROVE  FreshInv'
<1>1. TypeOK'
  BY StepType DEF FreshInv
<1>2. flushed' = "all" => OnlyCurrent'
  BY OnlyCurrentStep DEF FreshInv
<1>3. ASSUME flushed' = "all", result' = "merNone"
      PROVE  accepted'.id = req'.id
  <2>1. CASE result = "merNone" /\ UNCHANGED <<req, accepted>>
    <3>1. flushed = "all"
      BY <1>3, <2>1, OnlyFlushFlushes DEF Flush, FreshInv, Unanswered
    <3>2. QED
      BY <2>1, <3>1 DEF FreshInv, SuccessIsFresh
  <2>2. CASE ReadBody
    <3>1. pc = "body" /\ pipe # << >> /\ accepted' = Head(pipe).ans /\ req' = req
      BY <1>3, <2>2, ReadBodySucceeds DEF FreshInv
    <3>2. Head(pipe).ans.id = req.id
      BY <1>3, <2>2, <3>1 DEF FreshInv, OnlyCurrent, TypeOK, ReadBody
    <3>3. QED
      BY <3>1, <3>2
  <2>3. QED
    BY <1>3, <2>1, <2>2, OnlyReadBodySucceeds DEF FreshInv
<1>4. Unanswered'
  BY UnansweredStep DEF FreshInv
<1>5. QED
  BY <1>1, <1>2, <1>3, <1>4 DEF FreshInv, SuccessIsFresh

\* When no answer is late, a call that succeeds hands over the answer to that
\* very request, though the transaction identifier is the same in all of them.
THEOREM SuccessFresh == Spec => []SuccessIsFresh
<1>1. FreshInv => SuccessIsFresh
  BY DEF FreshInv
<1>2. FreshInv /\ [Next]_vars => FreshInv'
  BY FreshStep
<1>3. QED
  BY <1>1, <1>2, FreshInit, PTL DEF Spec

-----------------------------------------------------------------------------
(***************************************************************************)
(* The steps of either channel as LineInv sees them.                       *)
(***************************************************************************)

\* A step that runs no request, writes none and begins no call keeps the
\* invariant, whatever it takes out of the channels.
LEMMA QuietStep ==
  ASSUME LineInv,
         UNCHANGED <<req, runs>>,
         toSlave' = toSlave \/ toSlave' = << >>,
         \A k \in 1 .. Len(pipe') : \E j \in 1 .. Len(pipe) : pipe'[k] = pipe[j],
         pc' \in ToBeWritten => pc \in ToBeWritten,
         pc' # "idle" => pc # "idle"
  PROVE  LineInv'
<1>1. RunsAreOfCalls'
  BY DEF LineInv, RunsAreOfCalls
<1>2. WaitingIsNotRun'
  BY DEF LineInv, WaitingIsNotRun
<1>3. CurrentIsNew'
  BY DEF LineInv, CurrentIsNew
<1>4. AnswersWereRun'
  BY DEF LineInv, AnswersWereRun, Executes
<1>5. LineType'
  <2>1. << >> \in Seq(Request)
    OBVIOUS
  <2>2. req' \in Request /\ toSlave' \in Seq(Request) /\ runs' \in [Ids -> Nat]
    BY <2>1 DEF LineInv, LineType
  <2>3. \A k \in 1 .. Len(pipe') : pipe'[k].ans \in Answer
    BY DEF LineInv, LineType
  <2>4. QED
    BY <2>2, <2>3 DEF LineType
<1>6. QED
  BY <1>1, <1>2, <1>3, <1>4, <1>5 DEF LineInv

\* A call gets the next number.
LEMMA CallStep ==
  ASSUME LineInv, req' \in Request, req'.id = req.id + 1,
         UNCHANGED <<toSlave, pipe, runs>>
  PROVE  LineInv'
<1>1. req.id \in Ids /\ req'.id \in Ids
  BY DEF LineInv, LineType, Request
<1>2. RunsAreOfCalls'
  BY <1>1, PduAssumption DEF LineInv, RunsAreOfCalls, Ids
<1>3. WaitingIsNotRun'
  BY <1>1, PduAssumption DEF LineInv, WaitingIsNotRun, Ids
<1>4. CurrentIsNew'
  <2>1. runs[req.id + 1] = 0
    BY <1>1, PduAssumption DEF LineInv, RunsAreOfCalls, Ids
  <2>2. \A k \in 1 .. Len(toSlave) : toSlave[k].id < req.id + 1
    BY <1>1, PduAssumption DEF LineInv, WaitingIsNotRun, Ids
  <2>3. QED
    BY <1>1, <2>1, <2>2, PduAssumption DEF CurrentIsNew, Ids
<1>5. AnswersWereRun'
  BY <1>1, PduAssumption DEF LineInv, AnswersWereRun, Executes, Ids
<1>6. LineType'
  BY DEF LineInv, LineType
<1>7. QED
  BY <1>2, <1>3, <1>4, <1>5, <1>6 DEF LineInv

\* The request of the call in progress is written, once.
LEMMA WriteStep ==
  ASSUME LineInv, pc \in ToBeWritten, pc' \notin ToBeWritten,
         toSlave' = Append(toSlave, req), UNCHANGED <<req, pipe, runs>>
  PROVE  LineInv'
<1>1. toSlave \in Seq(Request) /\ req \in Request /\ req.id \in Ids
  BY DEF LineInv, LineType, Request
<1>2. /\ req.id \in 1 .. req.id /\ runs[req.id] = 0
      /\ \A k \in 1 .. Len(toSlave) : toSlave[k].id < req.id
  BY <1>1, PduAssumption DEF LineInv, CurrentIsNew, ToBeWritten, Ids
<1>3. WaitingIsNotRun'
  <2>1. ASSUME NEW k \in 1 .. Len(toSlave')
        PROVE  toSlave'[k].id \in 1 .. req'.id /\ runs'[toSlave'[k].id] = 0
    BY <1>1, <1>2, AppendElements DEF LineInv, WaitingIsNotRun
  <2>2. ASSUME NEW j \in 1 .. Len(toSlave'), NEW k \in 1 .. Len(toSlave'), j < k
        PROVE  toSlave'[j].id < toSlave'[k].id
    <3>1. j \in 1 .. Len(toSlave) /\ toSlave'[j] = toSlave[j]
      BY <1>1, <2>2
    <3>2. CASE k \in 1 .. Len(toSlave) /\ toSlave'[k] = toSlave[k]
      BY <2>2, <3>1, <3>2 DEF LineInv, WaitingIsNotRun
    <3>3. CASE toSlave'[k] = req
      BY <1>2, <3>1, <3>3
    <3>4. QED
      BY <1>1, <3>2, <3>3, AppendElements
  <2>3. QED
    BY <2>1, <2>2 DEF WaitingIsNotRun
<1>4. RunsAreOfCalls' /\ CurrentIsNew' /\ AnswersWereRun'
  BY <1>2 DEF LineInv, RunsAreOfCalls, CurrentIsNew, AnswersWereRun, ToBeWritten, Executes
<1>5. LineType'
  BY <1>1 DEF LineInv, LineType
<1>6. QED
  BY <1>3, <1>4, <1>5 DEF LineInv

\* A step of the slave that takes the request it runs, or does not run.
LEMMA SlaveStep ==
  ASSUME LineInv, toSlave # << >>, toSlave' = Tail(toSlave),
         \/ runs' = [runs EXCEPT ![Head(toSlave).id] = @ + 1]
         \/ UNCHANGED runs,
         UNCHANGED <<pc, req>>
  PROVE  /\ RunsAreOfCalls' /\ WaitingIsNotRun' /\ CurrentIsNew'
         /\ Head(toSlave) \in Request
         /\ Head(toSlave).id \in 1 .. req.id
         /\ runs[Head(toSlave).id] = 0
         /\ runs' \in [Ids -> Nat] /\ toSlave' \in Seq(Request)
         /\ \A i \in Ids : runs[i] = 1 => runs'[i] = 1
<1> DEFINE i == Head(toSlave).id
<1>1. /\ toSlave \in Seq(Request) /\ req \in Request /\ runs \in [Ids -> Nat]
      /\ Head(toSlave) = toSlave[1] /\ 1 \in 1 .. Len(toSlave)
  BY DEF LineInv, LineType
<1>2. /\ i \in 1 .. req.id /\ i \in Ids /\ req.id \in Ids /\ runs[i] = 0
      /\ Head(toSlave) \in Request
  <2>1. Head(toSlave) \in Request
    BY <1>1
  <2>2. i \in Ids /\ req.id \in Ids
    BY <1>1, <2>1 DEF Request
  <2>3. QED
    BY <1>1, <2>1, <2>2 DEF LineInv, WaitingIsNotRun
<1>3. \A k \in 1 .. Len(toSlave') : k + 1 \in 1 .. Len(toSlave) /\ toSlave'[k] = toSlave[k + 1]
  BY <1>1, TailElements
<1>4. \A k \in 1 .. Len(toSlave') : /\ toSlave'[k].id > i
                                    /\ toSlave'[k].id \in 1 .. req.id
                                    /\ toSlave'[k].id \in Ids
  <2>1. ASSUME NEW k \in 1 .. Len(toSlave')
        PROVE  /\ i < toSlave[k + 1].id
               /\ toSlave[k + 1].id \in 1 .. req.id
    BY <1>1, <1>3 DEF LineInv, WaitingIsNotRun
  <2>2. QED
    BY <1>2, <1>3, <2>1, PduAssumption DEF Ids
<1> HIDE DEF i
<1>5. /\ \A j \in Ids : j # i => runs'[j] = runs[j]
      /\ runs'[i] \in {0, 1}
      /\ runs' \in [Ids -> Nat]
  BY <1>1, <1>2 DEF i
<1>6. RunsAreOfCalls'
  BY <1>1, <1>2, <1>5 DEF LineInv, RunsAreOfCalls, Ids
<1>7. WaitingIsNotRun'
  <2>1. ASSUME NEW k \in 1 .. Len(toSlave')
        PROVE  toSlave'[k].id \in 1 .. req'.id /\ runs'[toSlave'[k].id] = 0
    BY <1>2, <1>3, <1>4, <1>5 DEF LineInv, WaitingIsNotRun, Ids
  <2>2. ASSUME NEW j \in 1 .. Len(toSlave'), NEW k \in 1 .. Len(toSlave'), j < k
        PROVE  toSlave'[j].id < toSlave'[k].id
    BY <1>3, <2>2 DEF LineInv, WaitingIsNotRun
  <2>3. QED
    BY <2>1, <2>2 DEF WaitingIsNotRun
<1>8. CurrentIsNew'
  <2>1. pc' # "idle" => req'.id > 0
    BY DEF LineInv, CurrentIsNew
  <2>2. ASSUME pc' \in ToBeWritten
        PROVE  /\ runs'[req'.id] = 0
               /\ \A k \in 1 .. Len(toSlave') : toSlave'[k].id < req'.id
    <3>1. i < req.id /\ runs[req.id] = 0
      BY <1>1, <2>2 DEF LineInv, CurrentIsNew, i
    <3>2. \A k \in 1 .. Len(toSlave') : toSlave[k + 1].id < req.id
      BY <1>3, <2>2 DEF LineInv, CurrentIsNew
    <3>3. QED
      BY <1>2, <1>3, <1>5, <3>1, <3>2 DEF Ids
  <2>3. QED
    BY <2>1, <2>2 DEF CurrentIsNew
<1>9. \A j \in Ids : runs[j] = 1 => runs'[j] = 1
  BY <1>2, <1>5
<1>10. QED
  BY <1>1, <1>2, <1>5, <1>6, <1>7, <1>8, <1>9 DEF i

\* The answers that are under way keep being answers to what was run.
LEMMA OldAnswers ==
  ASSUME LineInv, UNCHANGED req, \A i \in Ids : runs[i] = 1 => runs'[i] = 1,
         NEW k \in 1 .. Len(pipe)
  PROVE  /\ pipe[k].ans \in Answer
         /\ pipe[k].ans.id \in 1 .. req'.id
         /\ Executes(pipe[k].ans.form) => runs'[pipe[k].ans.id] = 1
<1>1. pipe[k].ans \in Answer /\ pipe[k].ans.id \in Ids
  BY DEF LineInv, LineType, Answer
<1>2. QED
  BY <1>1 DEF LineInv, AnswersWereRun, Executes

\* The slave answers: the answer is to what it ran, if it says so.
LEMMA AnswerStep ==
  ASSUME LineInv, NEW form \in Forms, toSlave # << >>, toSlave' = Tail(toSlave),
         runs' = IF Executes(form) THEN [runs EXCEPT ![Head(toSlave).id] = @ + 1] ELSE runs,
         UNCHANGED <<pc, req>>,
         \A k \in 1 .. Len(pipe') : \/ k \in 1 .. Len(pipe) /\ pipe'[k] = pipe[k]
                                    \/ pipe'[k].ans = AnswerTo(Head(toSlave), form)
  PROVE  LineInv'
<1> DEFINE r == Head(toSlave)
           a == AnswerTo(r, form)
<1>1. /\ RunsAreOfCalls' /\ WaitingIsNotRun' /\ CurrentIsNew'
      /\ r \in Request /\ r.id \in 1 .. req.id /\ runs[r.id] = 0
      /\ runs' \in [Ids -> Nat] /\ toSlave' \in Seq(Request)
      /\ \A i \in Ids : runs[i] = 1 => runs'[i] = 1
  BY SlaveStep DEF Executes
<1>2. a \in Answer /\ a.id = r.id /\ a.form = form
  BY <1>1, AnswerToType
<1>3. Executes(form) => runs'[r.id] = 1
  <2>1. r.id \in Ids /\ runs \in [Ids -> Nat]
    BY <1>1 DEF Request, LineInv, LineType
  <2>2. QED
    BY <1>1, <2>1 DEF Executes
<1> HIDE DEF r, a
<1>4. ASSUME NEW k \in 1 .. Len(pipe')
      PROVE  /\ pipe'[k].ans \in Answer
             /\ pipe'[k].ans.id \in 1 .. req'.id
             /\ Executes(pipe'[k].ans.form) => runs'[pipe'[k].ans.id] = 1
  <2>1. CASE k \in 1 .. Len(pipe) /\ pipe'[k] = pipe[k]
    BY <1>1, <2>1, OldAnswers DEF Executes
  <2>2. CASE pipe'[k].ans = a
    BY <1>1, <1>2, <1>3, <2>2 DEF Executes
  <2>3. QED
    BY <2>1, <2>2 DEF a, r
<1>5. AnswersWereRun' /\ LineType'
  <2>1. req' \in Request
    BY DEF LineInv, LineType
  <2>2. QED
    BY <1>1, <1>4, <2>1 DEF AnswersWereRun, LineType, Executes
<1>6. QED
  BY <1>1, <1>5 DEF LineInv

\* It takes a request and says nothing.
LEMMA SilentStep ==
  ASSUME LineInv, toSlave # << >>, toSlave' = Tail(toSlave),
         \/ runs' = [runs EXCEPT ![Head(toSlave).id] = @ + 1]
         \/ UNCHANGED runs,
         UNCHANGED <<pc, req, pipe>>
  PROVE  LineInv'
<1>1. /\ RunsAreOfCalls' /\ WaitingIsNotRun' /\ CurrentIsNew'
      /\ runs' \in [Ids -> Nat] /\ toSlave' \in Seq(Request)
      /\ \A i \in Ids : runs[i] = 1 => runs'[i] = 1
  BY SlaveStep
<1>2. AnswersWereRun'
  BY <1>1, OldAnswers DEF AnswersWereRun, Executes
<1>3. LineType'
  BY <1>1 DEF LineInv, LineType
<1>4. QED
  BY <1>1, <1>2, <1>3 DEF LineInv

-----------------------------------------------------------------------------
\* Over TCP every step but a call, a write that arrives and a step of the slave
\* is a quiet one.
LEMMA QuietActions ==
  ASSUME RunInv, [Next]_vars
  PROVE  \/ LineInv'
         \/ \E u \in Units, f \in Functions, q \in Quantities : Call(u, f, q)
         \/ WriteAll /\ sock = "up"
         \/ \E form \in Forms : SlaveAnswers(form)
         \/ SlaveIsSilent
<1> USE DEF stream, Return, ToBeWritten, Close, RunInv
<1>1. CASE UNCHANGED pipe /\ \/ Connected \/ ConnectFails \/ WriteRaisesSigPipe
                             \/ Reconnected \/ ReconnectFails \/ WaitExpires
                             \/ Arrive \/ PeerCloses \/ UNCHANGED vars
  BY <1>1, QuietStep
  DEF Connected, ConnectFails, WriteRaisesSigPipe, Reconnected, ReconnectFails,
      WaitExpires, Arrive, PeerCloses, vars
<1>2. CASE pipe' = << >> /\ (WriteSome \/ WriteFails \/ RewriteFails \/ PeerResets)
  BY <1>2, QuietStep DEF WriteSome, WriteFails, RewriteFails, PeerResets
<1>3. CASE Flush
  <2>1. \A k \in 1 .. Len(pipe') : k + arrived \in 1 .. Len(pipe) /\ pipe'[k] = pipe[k + arrived]
    BY <1>3 DEF Flush, DropArrived, TypeOK
  <2>2. QED
    BY <1>3, <2>1, QuietStep DEF Flush
<1>4. CASE ReadHeader \/ ReadBody
  <2>1. arrived > 0 /\ Consume
    BY <1>4 DEF ReadHeader, ReadBody
  <2>2. pipe # << >> /\ pipe' = Tail(pipe) /\ pipe \in Seq(Parts)
    BY <2>1, ConsumeType DEF Consume, TypeOK
  <2>3. \A k \in 1 .. Len(pipe') : k + 1 \in 1 .. Len(pipe) /\ pipe'[k] = pipe[k + 1]
    BY <2>2, TailElements
  <2>4. QED
    BY <1>4, <2>1, <2>3, QuietStep DEF ReadHeader, ReadBody, Consume
<1>5. CASE WriteAll /\ sock # "up"
  BY <1>5, QuietStep DEF WriteAll
<1>6. QED
  BY <1>1, <1>2, <1>3, <1>4, <1>5
  DEF Next, Master, Environment, vars, Connected, ConnectFails, WriteRaisesSigPipe,
      Reconnected, ReconnectFails, WaitExpires, Arrive, PeerCloses,
      WriteSome, WriteFails, RewriteFails, PeerResets

LEMMA RunStep ==
  ASSUME RunInv, [Next]_vars
  PROVE  RunInv'
<1>1. TypeOK'
  BY StepType DEF RunInv
<1>2. ASSUME NEW u \in Units, NEW f \in Functions, NEW q \in Quantities,
             Call(u, f, q)
      PROVE  LineInv'
  <2>1. req' \in Request /\ req'.id = req.id + 1
    BY <1>1, <1>2 DEF Call, TypeOK
  <2>2. QED
    BY <1>2, <2>1, CallStep DEF Call, stream, RunInv
<1>3. CASE WriteAll /\ sock = "up"
  BY <1>1, <1>3, WriteStep DEF WriteAll, ToBeWritten, RunInv
<1>4. ASSUME NEW form \in Forms, SlaveAnswers(form)
      PROVE  LineInv'
  <2> DEFINE a == AnswerTo(Head(toSlave), form)
  <2>1. pipe' = pipe \o Frame(a) /\ pipe \in Seq(Parts) /\ a \in Answer
    <3>1. Head(toSlave) \in Request
      BY <1>4 DEF SlaveAnswers, RunInv, TypeOK
    <3>2. QED
      BY <1>4, <3>1, AnswerToType DEF SlaveAnswers, RunInv, TypeOK
  <2> HIDE DEF a
  <2>2. \A k \in 1 .. Len(pipe') : \/ k \in 1 .. Len(pipe) /\ pipe'[k] = pipe[k]
                                   \/ pipe'[k].ans = a
    BY <2>1, AnswerElements
  <2>3. QED
    BY <1>4, <2>2, AnswerStep DEF SlaveAnswers, RunInv, a, Executes
<1>5. CASE SlaveIsSilent
  BY <1>1, <1>5, SilentStep DEF SlaveIsSilent, RunInv
<1>6. QED
  BY <1>1, <1>2, <1>3, <1>4, <1>5, QuietActions DEF RunInv

LEMMA LineInit ==
  ASSUME pc = "idle", req = NoRequest, toSlave = << >>, pipe = << >>,
         runs = [i \in Ids |-> 0]
  PROVE  LineInv
<1>1. RunsAreOfCalls /\ WaitingIsNotRun /\ CurrentIsNew /\ AnswersWereRun
  BY DEF RunsAreOfCalls, WaitingIsNotRun, CurrentIsNew, AnswersWereRun, ToBeWritten, Ids
<1>2. LineType
  BY NoRequestType DEF LineType
<1>3. QED
  BY <1>1, <1>2 DEF LineInv

LEMMA RunInit == Init => RunInv
BY InitType, LineInit DEF Init, RunInv

\* Neither the resend after a failed write nor anything else makes the slave
\* run the request of a call twice.
THEOREM RunAtMostOnce == Spec => []NeverRunTwice
<1>1. RunInv => NeverRunTwice
  BY DEF RunInv, LineInv, RunsAreOfCalls, NeverRunTwice
<1>2. RunInv /\ [Next]_vars => RunInv'
  BY RunStep
<1>3. QED
  BY <1>1, <1>2, RunInit, PTL DEF Spec

-----------------------------------------------------------------------------
\* Send over TCP implements ModbusCall.  The definitions both modules share
\* mean the same in each.
LEMMA SharedDefinitions ==
  /\ Promise!NoRequest = NoRequest
  /\ Promise!NoAnswer = NoAnswer
  /\ Promise!Ids = Ids
  /\ Promise!Request = Request
  /\ Promise!Answer = Answer
  /\ Promise!Errors = Errors
  BY DEF Promise!NoRequest, NoRequest, Promise!NoAnswer, NoAnswer,
         Promise!Ids, Ids, Promise!Request, Request, Promise!Answer, Answer,
         Promise!Functions, Functions, Promise!Errors, Errors

LEMMA PromiseInit == Init => Promise!Init
  BY SharedDefinitions DEF Init, Promise!Init

\* A return with an error is the promise's Fail.
LEMMA ErrorIsFail ==
  ASSUME pc # "idle", NEW e \in Errors, Return(e), UNCHANGED <<req, accepted, runs>>
  PROVE  Promise!Fail
  BY SharedDefinitions DEF Return, Promise!Fail

LEMMA PromiseStep ==
  ASSUME RunInv, [Next]_vars
  PROVE  [Promise!Next]_(Promise!vars)
<1> USE DEF Promise!vars, stream
<1>1. ASSUME NEW u \in Units, NEW f \in Functions, NEW q \in Quantities,
             Call(u, f, q)
      PROVE  Promise!Call
  <2>1. req' \in Request
    BY <1>1, StepType DEF RunInv, TypeOK
  <2>2. QED
    BY <1>1, <2>1, SharedDefinitions DEF Call, Promise!Call
<1>2. CASE ConnectFails \/ WriteSome \/ ReconnectFails \/ RewriteFails \/ WaitExpires
  <2>1. Promise!Fail
    BY <1>2, ErrorIsFail
    DEF ConnectFails, WriteSome, ReconnectFails, RewriteFails, WaitExpires, Errors
  <2>2. QED
    BY <2>1 DEF Promise!Next
<1>3. CASE Connected \/ Flush \/ WriteAll \/ WriteFails \/ WriteRaisesSigPipe \/ Reconnected
  BY <1>3 DEF Connected, Flush, WriteAll, WriteFails, WriteRaisesSigPipe, Reconnected
<1>4. CASE ReadHeader
  <2>1. CASE Return("merTimeout")
    <3>1. Promise!Fail
      BY <1>4, <2>1, ErrorIsFail DEF ReadHeader, Errors
    <3>2. QED
      BY <3>1 DEF Promise!Next
  <2>2. CASE pc' = "body" /\ UNCHANGED result
    BY <1>4, <2>2 DEF ReadHeader
  <2>3. QED
    BY <1>4, <2>1, <2>2 DEF ReadHeader
<1>5. CASE ReadBody
  <2>1. CASE result' = "merNone"
    <3>1. /\ pc = "body" /\ pipe # << >> /\ req' = req
          /\ accepted' = Head(pipe).ans /\ accepted' \in Answer
          /\ Verdict(req, accepted') = "merNone"
      BY <1>5, <2>1, ReadBodySucceeds DEF RunInv
    <3>2. req \in Request
      BY DEF RunInv, TypeOK
    <3>3. /\ accepted'.unit = req.unit
          /\ accepted'.func = req.func
          /\ req.func = "write" => accepted'.qty = req.qty
          /\ Executes(accepted'.form)
      BY <3>1, <3>2, VerdictNone
    <3>4. 1 \in 1 .. Len(pipe) /\ Head(pipe) = pipe[1]
      BY <3>1 DEF RunInv, TypeOK
    <3>5. accepted'.id \in 1 .. req.id /\ runs[accepted'.id] = 1
      BY <3>1, <3>3, <3>4 DEF RunInv, LineInv, AnswersWereRun, Executes
    <3>6. Promise!Answers(accepted')
      BY <3>3, <3>5 DEF Promise!Answers
    <3>7. Promise!Succeed
      BY <1>5, <2>1, <3>1, <3>6, SharedDefinitions
      DEF ReadBody, Return, Promise!Succeed
    <3>8. QED
      BY <3>7 DEF Promise!Next
  <2>2. CASE result' # "merNone"
    <3>1. pc' = "idle" /\ UNCHANGED <<req, accepted, runs>>
      BY <1>5, <2>2 DEF ReadBody, Return
    <3>2. result' \in Errors
      <4>1. TypeOK' /\ result' # "pending"
        <5>1. arrived > 0 /\ Consume /\ TypeOK
          BY <1>5 DEF ReadBody, RunInv
        <5>2. Head(pipe).ans \in Answer /\ req \in Request
          BY <5>1, ConsumeType, PartAnswer DEF TypeOK
        <5>3. Verdict(req, Head(pipe).ans) \in Errors \cup {"merNone"}
          BY <5>2, VerdictType
        <5>4. QED
          BY <1>5, <5>1, <5>3, StepType DEF ReadBody, Return, Errors
      <4>2. QED
        BY <2>2, <4>1 DEF TypeOK
    <3>3. Promise!Fail
      BY <1>5, <3>1, <3>2, SharedDefinitions DEF ReadBody, Promise!Fail
    <3>4. QED
      BY <3>3 DEF Promise!Next
  <2>3. QED
    BY <2>1, <2>2
<1>6. CASE SlaveIsSilent \/ \E form \in Forms : SlaveAnswers(form)
  <2> DEFINE i == Head(toSlave).id
  <2>1. /\ toSlave # << >> /\ toSlave' = Tail(toSlave)
        /\ runs' = [runs EXCEPT ![i] = @ + 1] \/ UNCHANGED runs
        /\ UNCHANGED <<pc, req, result, accepted>>
    BY <1>6 DEF SlaveIsSilent, SlaveAnswers, Executes
  <2>2. i \in 1 .. req.id /\ runs[i] = 0 /\ i \in Ids
    <3>1. i \in 1 .. req.id /\ runs[i] = 0
      BY <2>1, SlaveStep DEF RunInv
    <3>2. toSlave \in Seq(Request)
      BY DEF RunInv, TypeOK
    <3>3. Head(toSlave) \in Request
      BY <2>1, <3>2
    <3>4. QED
      BY <3>1, <3>3 DEF Request
  <2> HIDE DEF i
  <2>3. CASE runs' = [runs EXCEPT ![i] = @ + 1]
    <3>1. runs' = [runs EXCEPT ![i] = 1]
      BY <2>2, <2>3
    <3>2. Promise!Run(i)
      BY <2>1, <2>2, <3>1 DEF Promise!Run
    <3>3. QED
      BY <2>2, <3>2, SharedDefinitions DEF Promise!Next
  <2>4. CASE UNCHANGED runs
    BY <2>1, <2>4
  <2>5. QED
    BY <2>1, <2>3, <2>4
<1>7. CASE Arrive \/ PeerCloses \/ PeerResets \/ UNCHANGED vars
  BY <1>7 DEF Arrive, PeerCloses, PeerResets, vars
<1>8. QED
  BY <1>1, <1>2, <1>3, <1>4, <1>5, <1>6, <1>7
  DEF Next, Master, Environment, Promise!Next

\* Send over TCP keeps the promise of ModbusCall: across reconnects, resends,
\* late answers and cut frames, a call that succeeds hands over an answer of
\* the slave it asked to a request that slave did execute.
THEOREM TcpKeepsPromise == Spec => KeepsPromise
<1>1. RunInv /\ [Next]_vars => RunInv'
  BY RunStep
<1>2. RunInv /\ [Next]_vars => [Promise!Next]_(Promise!vars)
  BY PromiseStep
<1>3. QED
  BY <1>1, <1>2, RunInit, PromiseInit, PTL DEF Spec, KeepsPromise, Promise!Spec

-----------------------------------------------------------------------------
(***************************************************************************)
(* Send over a serial line: type correctness, and LineInv again.           *)
(***************************************************************************)

\* The definitions ModbusRtu shares with ModbusTcp mean the same in each.
LEMMA SharedWithRtu ==
  /\ Rtu!NoRequest = NoRequest
  /\ Rtu!NoAnswer = NoAnswer
  /\ Rtu!Ids = Ids
  /\ Rtu!Functions = Functions
  /\ Rtu!Request = Request
  /\ Rtu!Answer = Answer
  /\ Rtu!Errors = Errors
  BY DEF Rtu!NoRequest, NoRequest, Rtu!NoAnswer, NoAnswer, Rtu!Ids, Ids,
         Rtu!Request, Request, Rtu!Answer, Answer, Rtu!Functions, Functions,
         Rtu!Errors, Errors

LEMMA SharedOperators ==
  ASSUME NEW r, NEW a, NEW form
  PROVE  /\ Rtu!Verdict(r, a) = Verdict(r, a)
         /\ Rtu!AnswerTo(r, form) = AnswerTo(r, form)
         /\ Rtu!Executes(form) = Executes(form)
<1>1. Rtu!Exceptions = Exceptions
  BY DEF Rtu!Exceptions, Exceptions
<1>2. Rtu!Executes(form) = Executes(form)
  BY <1>1 DEF Rtu!Executes, Executes
<1>3. Rtu!SentVerdict(r, a) = SentVerdict(r, a)
  BY <1>1, Zenon DEF Rtu!SentVerdict, SentVerdict, Rtu!ExceptionError, ExceptionError,
                Rtu!Executes, Executes
<1>4. Rtu!CallerVerdict(r, a) = CallerVerdict(r, a)
  BY Zenon DEF Rtu!CallerVerdict, CallerVerdict, Rtu!ReadAccepts, ReadAccepts,
         Rtu!WriteAccepts, WriteAccepts
<1>5. Rtu!Verdict(r, a) = Verdict(r, a)
  BY <1>3, <1>4, Zenon DEF Rtu!Verdict, Verdict
<1>6. Rtu!AnswerTo(r, form) = AnswerTo(r, form)
  BY DEF Rtu!AnswerTo, AnswerTo
<1>7. QED
  BY <1>2, <1>5, <1>6

RtuParts == [part : {"start", "rest"}, ans : Answer]

LEMMA RtuFrameType ==
  ASSUME NEW a \in Answer
  PROVE  /\ Rtu!Frame(a) \in Seq(RtuParts)
         /\ Len(Rtu!Frame(a)) = 2
         /\ Rtu!Frame(a)[1].ans = a
         /\ Rtu!Frame(a)[2].ans = a
<1>1. /\ [part |-> "start", ans |-> a] \in RtuParts
      /\ [part |-> "rest", ans |-> a] \in RtuParts
  BY DEF RtuParts
<1>2. QED
  BY <1>1 DEF Rtu!Frame

LEMMA ConcatType ==
  ASSUME NEW S, NEW s \in Seq(S), NEW t \in Seq(S)
  PROVE  s \o t \in Seq(S) /\ Len(s \o t) = Len(s) + Len(t)
  OBVIOUS

\* The line after another answer: what was there, and parts of that answer.
LEMMA RtuAnswerElements ==
  ASSUME NEW s \in Seq(RtuParts), NEW a \in Answer
  PROVE  /\ s \o Rtu!Frame(a) \in Seq(RtuParts)
         /\ Len(s \o Rtu!Frame(a)) = Len(s) + 2
         /\ \A k \in 1 .. Len(s \o Rtu!Frame(a)) :
              \/ k \in 1 .. Len(s) /\ (s \o Rtu!Frame(a))[k] = s[k]
              \/ (s \o Rtu!Frame(a))[k].ans = a
<1> DEFINE t == Rtu!Frame(a)
<1>1. t \in Seq(RtuParts) /\ Len(t) = 2 /\ t[1].ans = a /\ t[2].ans = a
  BY RtuFrameType
<1> HIDE DEF t
<1>2. s \o t \in Seq(RtuParts) /\ Len(s \o t) = Len(s) + 2
  BY <1>1, ConcatType
<1>3. ASSUME NEW k \in 1 .. Len(s \o t)
      PROVE  \/ k \in 1 .. Len(s) /\ (s \o t)[k] = s[k]
             \/ (s \o t)[k].ans = a
  <2>1. CASE k - Len(s) \in 1 .. Len(t) /\ (s \o t)[k] = t[k - Len(s)]
    <3>1. k - Len(s) = 1 \/ k - Len(s) = 2
      BY <1>1, <2>1
    <3>2. QED
      BY <1>1, <2>1, <3>1
  <2>2. QED
    BY <1>1, <2>1, ConcatElements
<1>4. QED
  BY <1>2, <1>3 DEF t

\* Rtu!TypeOK in the terms of this module.
RtuTypeOK ==
    /\ pc \in {"idle", "flush", "write", "wait", "take"}
    /\ port \in {"open", "null"}
    /\ req \in Request
    /\ result \in Errors \cup {"pending", "merNone"}
    /\ accepted \in Answer
    /\ toSlave \in Seq(Request)
    /\ pipe \in Seq(RtuParts)
    /\ arrived \in 0 .. Len(pipe)
    /\ seen \in Nat
    /\ runs \in [Ids -> Nat]
    /\ flushed \in {"all", "some"}

LEMMA RtuType == (Rtu!TypeOK <=> RtuTypeOK) /\ (Rtu!TypeOK' <=> RtuTypeOK')
  BY SharedWithRtu DEF Rtu!TypeOK, RtuTypeOK, RtuParts

\* What the flush and the read take out of the receive buffer.
LEMMA EmptyBufferType ==
  ASSUME Rtu!TypeOK, Rtu!EmptyBuffer
  PROVE  /\ pipe' \in Seq(RtuParts)
         /\ arrived' = 0
         /\ Len(pipe') = Len(pipe) - arrived
         /\ \A k \in 1 .. Len(pipe') : k + arrived \in 1 .. Len(pipe) /\ pipe'[k] = pipe[k + arrived]
  BY RtuType DEF RtuTypeOK, Rtu!EmptyBuffer

\* What Take hands over, and when.
LEMMA TakeReturns ==
  ASSUME Rtu!TypeOK, Rtu!Take
  PROVE  /\ pc' = "idle" /\ UNCHANGED <<port, req, toSlave, seen, runs, flushed>>
         /\ pc = "take"
         /\ \/ result' \in Errors /\ UNCHANGED accepted
            \/ /\ result' = "merNone" /\ arrived = 2
               /\ 1 \in 1 .. Len(pipe)
               /\ accepted' = pipe[1].ans /\ accepted' \in Answer
               /\ Verdict(req, accepted') = "merNone"
<1> DEFINE got == SubSeq(pipe, 1, arrived)
<1>1. /\ pipe \in Seq(RtuParts) /\ arrived \in 0 .. Len(pipe) /\ req \in Request
  BY RtuType DEF RtuTypeOK
<1>2. got \in Seq(RtuParts) /\ Len(got) = arrived /\ \A k \in 1 .. arrived : got[k] = pipe[k]
  BY <1>1
<1>3. pc' = "idle" /\ UNCHANGED <<port, req, toSlave, seen, runs, flushed>> /\ pc = "take"
  BY DEF Rtu!Take, Rtu!Return
<1>4. CASE arrived = 0
  BY <1>3, <1>4 DEF Rtu!Take, Rtu!Return, Errors
<1>5. CASE arrived # 0 /\ ~Rtu!CrcIsRight(got)
  BY <1>3, <1>5 DEF Rtu!Take, Rtu!Return, Errors
<1>6. CASE arrived # 0 /\ Rtu!CrcIsRight(got)
  <2>1. arrived = 2 /\ 1 \in 1 .. Len(pipe) /\ got[1].ans = pipe[1].ans
    BY <1>1, <1>2, <1>6 DEF Rtu!CrcIsRight
  <2>2. pipe[1].ans \in Answer
    <3>1. pipe[1] \in RtuParts
      BY <1>1, <2>1
    <3>2. QED
      BY <3>1 DEF RtuParts
  <2>3. /\ result' = Verdict(req, pipe[1].ans)
        /\ accepted' = IF result' = "merNone" THEN pipe[1].ans ELSE accepted
    BY <1>6, <2>1, SharedOperators DEF Rtu!Take, Rtu!Return
  <2>4. Verdict(req, pipe[1].ans) \in Errors \cup {"merNone"}
    BY <1>1, <2>2, VerdictType
  <2>5. QED
    BY <1>3, <2>1, <2>2, <2>3, <2>4
<1>7. QED
  BY <1>4, <1>5, <1>6

LEMMA RtuInitType == Rtu!Init => Rtu!TypeOK
<1>1. << >> \in Seq(Request) /\ << >> \in Seq(RtuParts) /\ Len(<< >>) = 0
  OBVIOUS
<1>2. QED
  BY <1>1, RtuType, NoRequestType, NoAnswerType, SharedWithRtu DEF Rtu!Init, RtuTypeOK

\* What the slave's answer does.
LEMMA RtuAnswers ==
  ASSUME Rtu!TypeOK, NEW form \in Forms, Rtu!SlaveAnswers(form)
  PROVE  /\ toSlave # << >> /\ toSlave' = Tail(toSlave)
         /\ Head(toSlave) \in Request /\ toSlave' \in Seq(Request)
         /\ runs' = IF Executes(form) THEN [runs EXCEPT ![Head(toSlave).id] = @ + 1] ELSE runs
         /\ UNCHANGED <<pc, port, req, result, accepted, arrived, seen, flushed>>
         /\ pipe' \in Seq(RtuParts) /\ Len(pipe') = Len(pipe) + 2
         /\ \A k \in 1 .. Len(pipe') :
              \/ k \in 1 .. Len(pipe) /\ pipe'[k] = pipe[k]
              \/ pipe'[k].ans = AnswerTo(Head(toSlave), form)
<1> DEFINE a == AnswerTo(Head(toSlave), form)
<1>1. /\ toSlave # << >> /\ toSlave' = Tail(toSlave)
      /\ pipe' = pipe \o Rtu!Frame(a)
      /\ runs' = IF Executes(form) THEN [runs EXCEPT ![Head(toSlave).id] = @ + 1] ELSE runs
      /\ UNCHANGED <<pc, port, req, result, accepted, arrived, seen, flushed>>
  BY SharedOperators DEF Rtu!SlaveAnswers
<1>2. toSlave \in Seq(Request) /\ pipe \in Seq(RtuParts)
  BY RtuType DEF RtuTypeOK
<1>3. Head(toSlave) \in Request /\ toSlave' \in Seq(Request)
  BY <1>1, <1>2
<1>4. a \in Answer
  BY <1>3, AnswerToType
<1> HIDE DEF a
<1>5. /\ pipe' \in Seq(RtuParts) /\ Len(pipe') = Len(pipe) + 2
      /\ \A k \in 1 .. Len(pipe') :
           \/ k \in 1 .. Len(pipe) /\ pipe'[k] = pipe[k]
           \/ pipe'[k].ans = a
  BY <1>1, <1>2, <1>4, RtuAnswerElements
<1>6. QED
  BY <1>1, <1>3, <1>5 DEF a

LEMMA RtuStepType == Rtu!TypeOK /\ [Rtu!Next]_(Rtu!vars) => Rtu!TypeOK'
<1> SUFFICES ASSUME Rtu!TypeOK, [Rtu!Next]_(Rtu!vars) PROVE Rtu!TypeOK'
  OBVIOUS
<1>0. RtuTypeOK
  BY RtuType
<1> SUFFICES RtuTypeOK'
  BY RtuType
<1> USE <1>0 DEF Rtu!line, Rtu!Return, RtuTypeOK
<1>1. ASSUME NEW u \in Units, NEW f \in Rtu!Functions, NEW q \in Quantities, Rtu!Call(u, f, q)
      PROVE  RtuTypeOK'
  <2>1. req' \in Request
    BY <1>1, SharedWithRtu, PduAssumption DEF Rtu!Call, Request, Ids
  <2>2. pc' \in {"idle", "flush"} /\ result' \in Errors \cup {"pending"}
    BY <1>1 DEF Rtu!Call, Errors
  <2>3. QED
    BY <1>1, <2>1, <2>2, SharedWithRtu DEF Rtu!Call
<1>2. CASE Rtu!Flush
  BY <1>2, EmptyBufferType DEF Rtu!Flush
<1>3. CASE Rtu!Write
  <2>1. toSlave' \in Seq(Request)
    BY <1>3 DEF Rtu!Write
  <2>2. QED
    BY <1>3, <2>1 DEF Rtu!Write
<1>4. CASE Rtu!Poll \/ Rtu!WaitExpires
  BY <1>4 DEF Rtu!Poll, Rtu!WaitExpires
<1>5. CASE Rtu!Take
  <2>1. Rtu!EmptyBuffer
    BY <1>5 DEF Rtu!Take
  <2>2. QED
    BY <1>5, <2>1, TakeReturns, EmptyBufferType
<1>6. ASSUME NEW form \in Forms, Rtu!SlaveAnswers(form)
      PROVE  RtuTypeOK'
  <2>1. runs' \in [Ids -> Nat]
    <3>1. Head(toSlave).id \in Ids
      BY <1>6, RtuAnswers DEF Request
    <3>2. QED
      BY <1>6, <3>1, RtuAnswers DEF Executes
  <2>2. QED
    BY <1>6, <2>1, RtuAnswers
<1>7. CASE Rtu!SlaveIsSilent
  <2>1. Head(toSlave) \in Request /\ toSlave' \in Seq(Request)
    BY <1>7 DEF Rtu!SlaveIsSilent
  <2>2. runs' \in [Ids -> Nat]
    BY <1>7, <2>1 DEF Rtu!SlaveIsSilent, Request
  <2>3. QED
    BY <1>7, <2>1, <2>2 DEF Rtu!SlaveIsSilent
<1>8. CASE Rtu!Arrive
  BY <1>8 DEF Rtu!Arrive
<1>9. CASE UNCHANGED Rtu!vars
  BY <1>9 DEF Rtu!vars
<1>10. QED
  BY <1>1, <1>2, <1>3, <1>4, <1>5, <1>6, <1>7, <1>8, <1>9
  DEF Rtu!Next, Rtu!Master, Rtu!Environment

-----------------------------------------------------------------------------
\* LineInv over the serial line.
RtuRunInv == Rtu!TypeOK /\ LineInv

LEMMA RtuRunStep ==
  ASSUME RtuRunInv, [Rtu!Next]_(Rtu!vars)
  PROVE  RtuRunInv'
<1>0. RtuTypeOK /\ RtuTypeOK' /\ LineInv /\ Rtu!TypeOK /\ Rtu!TypeOK'
  BY RtuStepType, RtuType DEF RtuRunInv
<1> SUFFICES LineInv'
  BY <1>0 DEF RtuRunInv
<1> USE DEF Rtu!line, Rtu!Return, ToBeWritten
<1>1. ASSUME NEW u \in Units, NEW f \in Rtu!Functions, NEW q \in Quantities, Rtu!Call(u, f, q)
      PROVE  LineInv'
  <2>1. req' \in Request /\ req'.id = req.id + 1 /\ UNCHANGED <<toSlave, pipe, runs>>
    BY <1>0, <1>1 DEF Rtu!Call, RtuTypeOK
  <2>2. QED
    BY <1>0, <2>1, CallStep
<1>2. CASE Rtu!Flush
  <2>1. \A k \in 1 .. Len(pipe') : k + arrived \in 1 .. Len(pipe) /\ pipe'[k] = pipe[k + arrived]
    BY <1>0, <1>2, EmptyBufferType DEF Rtu!Flush
  <2>2. QED
    BY <1>0, <1>2, <2>1, QuietStep DEF Rtu!Flush
<1>3. CASE Rtu!Write
  <2>1. pc = "write" /\ pc' = "wait" /\ UNCHANGED <<req, pipe, runs>>
    BY <1>3 DEF Rtu!Write
  <2>2. CASE toSlave' = Append(toSlave, req)
    BY <1>0, <2>1, <2>2, WriteStep
  <2>3. CASE toSlave' = toSlave
    BY <1>0, <2>1, <2>3, QuietStep
  <2>4. QED
    BY <1>3, <2>2, <2>3 DEF Rtu!Write
<1>4. CASE Rtu!Poll \/ Rtu!WaitExpires \/ Rtu!Arrive \/ UNCHANGED Rtu!vars
  <2>1. UNCHANGED <<req, runs, toSlave, pipe>> /\ (pc' = pc \/ (pc = "wait" /\ pc' \in {"wait", "take"}))
    BY <1>4 DEF Rtu!Poll, Rtu!WaitExpires, Rtu!Arrive, Rtu!vars
  <2>2. QED
    BY <1>0, <2>1, QuietStep
<1>5. CASE Rtu!Take
  <2>1. Rtu!EmptyBuffer
    BY <1>5 DEF Rtu!Take
  <2>2. \A k \in 1 .. Len(pipe') : k + arrived \in 1 .. Len(pipe) /\ pipe'[k] = pipe[k + arrived]
    BY <1>0, <2>1, EmptyBufferType
  <2>3. pc' = "idle" /\ UNCHANGED <<req, toSlave, runs>>
    BY <1>0, <1>5, TakeReturns
  <2>4. QED
    BY <1>0, <2>2, <2>3, QuietStep
<1>6. ASSUME NEW form \in Forms, Rtu!SlaveAnswers(form)
      PROVE  LineInv'
  BY <1>0, <1>6, RtuAnswers, AnswerStep
<1>7. CASE Rtu!SlaveIsSilent
  BY <1>0, <1>7, SilentStep DEF Rtu!SlaveIsSilent
<1>8. QED
  BY <1>1, <1>2, <1>3, <1>4, <1>5, <1>6, <1>7
  DEF Rtu!Next, Rtu!Master, Rtu!Environment

LEMMA RtuRunInit == Rtu!Init => RtuRunInv
  BY RtuInitType, LineInit, SharedWithRtu DEF Rtu!Init, RtuRunInv

-----------------------------------------------------------------------------
\* Without late answers there is nothing of an older call after the flush here
\* either; and only Take reports success.
RtuOnlyCurrent ==
    pc \in {"write", "wait", "take"} =>
        /\ \A k \in 1 .. Len(pipe) : pipe[k].ans.id = req.id
        /\ \A k \in 1 .. Len(toSlave) : toSlave[k].id = req.id

RtuFreshInv ==
    Rtu!TypeOK /\ (flushed = "all" => RtuOnlyCurrent) /\ Unanswered /\ SuccessIsFresh

LEMMA RtuOnlyCurrentStep ==
  ASSUME Rtu!TypeOK, flushed = "all" => RtuOnlyCurrent, [Rtu!Next]_(Rtu!vars),
         flushed' = "all"
  PROVE  RtuOnlyCurrent'
<1>0. RtuTypeOK
  BY RtuType
<1> USE DEF Rtu!line, Rtu!Return, RtuOnlyCurrent
<1>1. ASSUME NEW u \in Units, NEW f \in Rtu!Functions, NEW q \in Quantities, Rtu!Call(u, f, q)
      PROVE  RtuOnlyCurrent'
  BY <1>1 DEF Rtu!Call
<1>2. CASE Rtu!Flush
  <2>1. toSlave' = << >> /\ arrived = Len(pipe)
    BY <1>2 DEF Rtu!Flush
  <2>2. Len(pipe') = 0
    BY <1>0, <1>2, <2>1, EmptyBufferType DEF Rtu!Flush, RtuTypeOK
  <2>3. QED
    BY <2>1, <2>2
<1>3. CASE Rtu!Write
  <2>1. toSlave \in Seq(Request) /\ req \in Request /\ UNCHANGED <<req, pipe, flushed>> /\ pc = "write"
    BY <1>0, <1>3 DEF Rtu!Write, RtuTypeOK
  <2>2. ASSUME NEW k \in 1 .. Len(toSlave')
        PROVE  toSlave'[k].id = req.id
    <3>1. CASE toSlave' = toSlave
      BY <2>1, <2>2, <3>1
    <3>2. CASE toSlave' = Append(toSlave, req)
      BY <2>1, <2>2, <3>2, AppendElements
    <3>3. QED
      BY <1>3, <3>1, <3>2 DEF Rtu!Write
  <2>3. QED
    BY <2>1, <2>2
<1>4. CASE Rtu!Poll \/ Rtu!WaitExpires \/ Rtu!Arrive \/ UNCHANGED Rtu!vars
  BY <1>4 DEF Rtu!Poll, Rtu!WaitExpires, Rtu!Arrive, Rtu!vars
<1>5. CASE Rtu!Take
  BY <1>5, TakeReturns
<1>6. ASSUME NEW form \in Forms, Rtu!SlaveAnswers(form)
      PROVE  RtuOnlyCurrent'
  <2> SUFFICES ASSUME pc \in {"write", "wait", "take"}
               PROVE  /\ \A k \in 1 .. Len(pipe') : pipe'[k].ans.id = req.id
                      /\ \A k \in 1 .. Len(toSlave') : toSlave'[k].id = req.id
    BY <1>6, RtuAnswers
  <2>1. /\ toSlave # << >> /\ toSlave' = Tail(toSlave) /\ Head(toSlave) \in Request
        /\ toSlave \in Seq(Request) /\ flushed = "all"
    BY <1>0, <1>6, RtuAnswers DEF RtuTypeOK
  <2>2. Head(toSlave).id = req.id
    <3>1. Head(toSlave) = toSlave[1] /\ 1 \in 1 .. Len(toSlave)
      BY <2>1
    <3>2. QED
      BY <2>1, <3>1
  <2>3. AnswerTo(Head(toSlave), form).id = req.id
    BY <2>1, <2>2, AnswerToType
  <2>4. ASSUME NEW k \in 1 .. Len(pipe')
        PROVE  pipe'[k].ans.id = req.id
    BY <1>6, <2>1, <2>3, <2>4, RtuAnswers
  <2>5. ASSUME NEW k \in 1 .. Len(toSlave')
        PROVE  toSlave'[k].id = req.id
    BY <2>1, <2>5, TailElements
  <2>6. QED
    BY <2>4, <2>5
<1>7. CASE Rtu!SlaveIsSilent
  <2>1. ASSUME NEW k \in 1 .. Len(toSlave')
        PROVE  toSlave'[k] = toSlave[k + 1] /\ k + 1 \in 1 .. Len(toSlave)
    BY <1>0, <1>7, <2>1 DEF Rtu!SlaveIsSilent, RtuTypeOK
  <2>2. QED
    BY <1>7, <2>1 DEF Rtu!SlaveIsSilent
<1>8. QED
  BY <1>1, <1>2, <1>3, <1>4, <1>5, <1>6, <1>7
  DEF Rtu!Next, Rtu!Master, Rtu!Environment

LEMMA OnlyTakeSucceeds ==
  ASSUME Rtu!TypeOK, [Rtu!Next]_(Rtu!vars), result' = "merNone"
  PROVE  \/ result = "merNone" /\ UNCHANGED <<req, accepted>>
         \/ Rtu!Take
  BY DEF Rtu!Next, Rtu!Master, Rtu!Environment, Rtu!vars, Rtu!Call, Rtu!Return, Rtu!Flush,
         Rtu!Write, Rtu!Poll, Rtu!WaitExpires, Rtu!SlaveAnswers, Rtu!SlaveIsSilent, Rtu!Arrive

LEMMA OnlyRtuFlushFlushes ==
  ASSUME Rtu!TypeOK, [Rtu!Next]_(Rtu!vars)
  PROVE  \/ Rtu!Flush /\ pc = "flush" /\ UNCHANGED result
         \/ UNCHANGED flushed
  BY DEF Rtu!Next, Rtu!Master, Rtu!Environment, Rtu!vars, Rtu!Call, Rtu!Flush, Rtu!Take,
         Rtu!Write, Rtu!Poll, Rtu!WaitExpires, Rtu!SlaveAnswers, Rtu!SlaveIsSilent, Rtu!Arrive

LEMMA RtuUnansweredStep ==
  ASSUME Unanswered, Rtu!TypeOK, [Rtu!Next]_(Rtu!vars)
  PROVE  Unanswered'
<1>1. CASE Rtu!Take
  BY <1>1, TakeReturns DEF Unanswered
<1>2. QED
  BY <1>1
  DEF Unanswered, Rtu!Next, Rtu!Master, Rtu!Environment, Rtu!vars, Rtu!Call, Rtu!Return,
      Rtu!Flush, Rtu!Write, Rtu!Poll, Rtu!WaitExpires, Rtu!SlaveAnswers,
      Rtu!SlaveIsSilent, Rtu!Arrive

LEMMA RtuFreshInit == Rtu!Init => RtuFreshInv
  BY RtuInitType DEF Rtu!Init, RtuFreshInv, RtuOnlyCurrent, Unanswered, SuccessIsFresh

LEMMA RtuFreshStep ==
  ASSUME RtuFreshInv, [Rtu!Next]_(Rtu!vars)
  PROVE  RtuFreshInv'
<1>1. Rtu!TypeOK /\ Rtu!TypeOK' /\ Unanswered'
  BY RtuStepType, RtuUnansweredStep DEF RtuFreshInv
<1>2. flushed' = "all" => RtuOnlyCurrent'
  BY <1>1, RtuOnlyCurrentStep DEF RtuFreshInv
<1>3. ASSUME flushed' = "all", result' = "merNone"
      PROVE  accepted'.id = req'.id
  <2>1. CASE result = "merNone" /\ UNCHANGED <<req, accepted>>
    <3>1. flushed = "all"
      BY <1>1, <1>3, <2>1, OnlyRtuFlushFlushes DEF RtuFreshInv, Unanswered
    <3>2. QED
      BY <2>1, <3>1 DEF RtuFreshInv, SuccessIsFresh
  <2>2. CASE Rtu!Take
    <3>1. /\ pc = "take" /\ flushed = "all" /\ req' = req
          /\ 1 \in 1 .. Len(pipe) /\ accepted' = pipe[1].ans
      BY <1>1, <1>3, <2>2, TakeReturns DEF Errors
    <3>2. QED
      BY <3>1 DEF RtuFreshInv, RtuOnlyCurrent
  <2>3. QED
    BY <1>1, <1>3, <2>1, <2>2, OnlyTakeSucceeds
<1>4. QED
  BY <1>1, <1>2, <1>3 DEF RtuFreshInv, SuccessIsFresh

-----------------------------------------------------------------------------
\* Send over a serial line implements ModbusCall too.
LEMMA RtuPromiseStep ==
  ASSUME RtuRunInv, [Rtu!Next]_(Rtu!vars)
  PROVE  [Promise!Next]_(Promise!vars)
<1>0. RtuTypeOK /\ RtuTypeOK' /\ LineInv /\ Rtu!TypeOK
  BY RtuStepType, RtuType DEF RtuRunInv
<1> USE DEF Promise!vars, Rtu!line, Rtu!Return
<1>1. ASSUME NEW u \in Units, NEW f \in Rtu!Functions, NEW q \in Quantities, Rtu!Call(u, f, q)
      PROVE  Promise!Call \/ Promise!Refuse
  <2>1. /\ pc = "idle" /\ req' \in Request /\ req'.id = req.id + 1
        /\ UNCHANGED <<accepted, runs>>
    BY <1>0, <1>1 DEF Rtu!Call, RtuTypeOK
  <2>2. \/ pc' = "flush" /\ result' = "pending"
        \/ pc' = "idle" /\ result' = "merCantOpenPort"
    BY <1>1 DEF Rtu!Call
  <2>3. QED
    BY <2>1, <2>2, SharedDefinitions DEF Promise!Call, Promise!Refuse
<1>2. CASE Rtu!Flush \/ Rtu!Write \/ Rtu!Poll \/ Rtu!WaitExpires \/ Rtu!Arrive \/ UNCHANGED Rtu!vars
  BY <1>2 DEF Rtu!Flush, Rtu!Write, Rtu!Poll, Rtu!WaitExpires, Rtu!Arrive, Rtu!vars
<1>3. CASE Rtu!Take
  <2>1. /\ pc = "take" /\ pc' = "idle" /\ UNCHANGED <<req, runs>>
    BY <1>0, <1>3, TakeReturns
  <2>2. CASE result' \in Errors /\ UNCHANGED accepted
    BY <2>1, <2>2, SharedDefinitions DEF Promise!Fail, Promise!Next
  <2>3. CASE /\ result' = "merNone" /\ 1 \in 1 .. Len(pipe)
             /\ accepted' = pipe[1].ans /\ accepted' \in Answer
             /\ Verdict(req, accepted') = "merNone"
    <3>1. /\ accepted'.unit = req.unit
          /\ accepted'.func = req.func
          /\ req.func = "write" => accepted'.qty = req.qty
          /\ Executes(accepted'.form)
      BY <1>0, <2>3, VerdictNone DEF RtuTypeOK
    <3>2. accepted'.id \in 1 .. req.id /\ runs[accepted'.id] = 1
      BY <1>0, <2>3, <3>1 DEF LineInv, AnswersWereRun, Executes
    <3>3. Promise!Answers(accepted')
      BY <3>1, <3>2 DEF Promise!Answers
    <3>4. QED
      BY <2>1, <2>3, <3>3, SharedDefinitions DEF Promise!Succeed, Promise!Next
  <2>4. QED
    BY <1>0, <1>3, <2>2, <2>3, TakeReturns
<1>4. CASE Rtu!SlaveIsSilent \/ \E form \in Forms : Rtu!SlaveAnswers(form)
  <2> DEFINE i == Head(toSlave).id
  <2>1. /\ toSlave # << >> /\ toSlave' = Tail(toSlave)
        /\ runs' = [runs EXCEPT ![i] = @ + 1] \/ UNCHANGED runs
        /\ UNCHANGED <<pc, req, result, accepted>>
    BY <1>4 DEF Rtu!SlaveIsSilent, Rtu!SlaveAnswers
  <2>2. i \in 1 .. req.id /\ runs[i] = 0 /\ i \in Ids
    BY <1>0, <2>1, SlaveStep DEF Request
  <2> HIDE DEF i
  <2>3. CASE runs' = [runs EXCEPT ![i] = @ + 1]
    <3>1. runs' = [runs EXCEPT ![i] = 1]
      BY <2>2, <2>3
    <3>2. Promise!Run(i)
      BY <2>1, <2>2, <3>1 DEF Promise!Run
    <3>3. QED
      BY <2>2, <3>2, SharedDefinitions DEF Promise!Next
  <2>4. QED
    BY <2>1, <2>3
<1>5. QED
  BY <1>1, <1>2, <1>3, <1>4
  DEF Rtu!Next, Rtu!Master, Rtu!Environment, Promise!Next

-----------------------------------------------------------------------------
(* The class                                                               *)

DelphiProofs == INSTANCE DelphiModbusProofs

\* The client's TModbus is the one the theorems of DelphiModbusProofs are about:
\* its definitions, expanded, are the same.
LEMMA SameDelphi ==
  /\ Delphi!Init = DelphiProofs!Init
  /\ Delphi!Next = DelphiProofs!Next
  /\ OwnAnswer = DelphiProofs!OwnAnswer
  /\ SuccessIsAnswer = DelphiProofs!SuccessIsAnswer
  /\ Delphi!ExecutedOnce = DelphiProofs!ExecutedOnce
  /\ Delphi!TypeOK = DelphiProofs!TypeOK
<1>1. Delphi!Init = DelphiProofs!Init
  BY Zenon DEF
        Delphi!Init, DelphiProofs!Init, Delphi!Callers, DelphiProofs!Callers, Delphi!Nobody,
        DelphiProofs!Nobody, Delphi!NoCall, DelphiProofs!NoCall, Delphi!NoRequest,
        DelphiProofs!NoRequest, Delphi!NoAnswer, DelphiProofs!NoAnswer, Delphi!Ids,
        DelphiProofs!Ids
<1>2. Delphi!Next = DelphiProofs!Next
  BY Zenon DEF
     Delphi!Next, DelphiProofs!Next, Delphi!Callers, DelphiProofs!Callers, Delphi!Nobody,
     DelphiProofs!Nobody, Delphi!line, DelphiProofs!line, Delphi!Part, DelphiProofs!Part,
     Delphi!Frame, DelphiProofs!Frame, Delphi!Own, DelphiProofs!Own, Delphi!NoCall,
     DelphiProofs!NoCall, Delphi!at, DelphiProofs!at, Delphi!GoOn, DelphiProofs!GoOn,
     Delphi!Failed, DelphiProofs!Failed, Delphi!Fail, DelphiProofs!Fail,
     Delphi!DelphiVerdict, DelphiProofs!DelphiVerdict, Delphi!Judge, DelphiProofs!Judge,
     Delphi!Read, DelphiProofs!Read, Delphi!Close, DelphiProofs!Close, Delphi!Latest,
     DelphiProofs!Latest, Delphi!Call, DelphiProofs!Call, Delphi!Begun, DelphiProofs!Begun,
     Delphi!Enter, DelphiProofs!Enter, Delphi!Connect, DelphiProofs!Connect, Delphi!Flush,
     DelphiProofs!Flush, Delphi!WriteStr, DelphiProofs!WriteStr, Delphi!Raises,
     DelphiProofs!Raises, Delphi!Count, DelphiProofs!Count, Delphi!ReadStr,
     DelphiProofs!ReadStr, Delphi!CrcIsRight, DelphiProofs!CrcIsRight, Delphi!Collect,
     DelphiProofs!Collect, Delphi!Collected, DelphiProofs!Collected, Delphi!SendAll,
     DelphiProofs!SendAll, Delphi!SendSome, DelphiProofs!SendSome, Delphi!SendFails,
     DelphiProofs!SendFails, Delphi!Receive, DelphiProofs!Receive, Delphi!Lost,
     DelphiProofs!Lost, Delphi!NoData, DelphiProofs!NoData, Delphi!OwnRequest,
     DelphiProofs!OwnRequest, Delphi!SlaveAnswers, DelphiProofs!SlaveAnswers,
     Delphi!SlaveIsSilent, DelphiProofs!SlaveIsSilent, Delphi!Arrive, DelphiProofs!Arrive,
     Delphi!PeerCloses, DelphiProofs!PeerCloses, Delphi!PeerResets, DelphiProofs!PeerResets,
     Delphi!Inside, DelphiProofs!Inside, Delphi!Environment, DelphiProofs!Environment,
     Delphi!Functions, DelphiProofs!Functions, Delphi!Ids, DelphiProofs!Ids, Delphi!Request,
     DelphiProofs!Request, Delphi!NoRequest, DelphiProofs!NoRequest, Delphi!NoAnswer,
     DelphiProofs!NoAnswer, Delphi!AnswerTo, DelphiProofs!AnswerTo, Delphi!Executes,
     DelphiProofs!Executes, Delphi!ExceptionError, DelphiProofs!ExceptionError,
     Delphi!SentVerdict, DelphiProofs!SentVerdict, Delphi!ReadAccepts,
     DelphiProofs!ReadAccepts, Delphi!WriteAccepts, DelphiProofs!WriteAccepts,
     Delphi!CallerVerdict, DelphiProofs!CallerVerdict, Delphi!Verdict, DelphiProofs!Verdict,
     Delphi!Exceptions, DelphiProofs!Exceptions
<1>3. OwnAnswer = DelphiProofs!OwnAnswer
  BY Zenon DEF OwnAnswer, Delphi!OwnAnswer, DelphiProofs!OwnAnswer, Delphi!Callers,
     DelphiProofs!Callers
<1>4. SuccessIsAnswer = DelphiProofs!SuccessIsAnswer
  BY Zenon DEF SuccessIsAnswer, Delphi!SuccessIsAnswer, DelphiProofs!SuccessIsAnswer,
     Delphi!Callers, DelphiProofs!Callers, Delphi!Own, DelphiProofs!Own
<1>5. Delphi!TypeOK = DelphiProofs!TypeOK
  BY Zenon DEF Delphi!TypeOK, DelphiProofs!TypeOK, Delphi!Callers, DelphiProofs!Callers,
     Delphi!Nobody, DelphiProofs!Nobody, Delphi!Part, DelphiProofs!Part,
     Delphi!Ids, DelphiProofs!Ids, Delphi!Request, DelphiProofs!Request,
     Delphi!Answer, DelphiProofs!Answer, Delphi!Functions,
     DelphiProofs!Functions
<1>6. Delphi!ExecutedOnce = DelphiProofs!ExecutedOnce
  BY Zenon DEF Delphi!ExecutedOnce, DelphiProofs!ExecutedOnce, Delphi!Ids, DelphiProofs!Ids
<1>7. QED BY <1>1, <1>2, <1>3, <1>4, <1>5, <1>6

LEMMA DelphiHolds ==
  /\ DelphiProofs!Spec => []OwnAnswer
  /\ DelphiProofs!Spec => []Delphi!ExecutedOnce
  /\ DelphiProofs!Spec => []SuccessIsAnswer
  /\ DelphiProofs!Spec => []DelphiProofs!TypeOK
<1>1. DelphiProofs!PduAssumption
  BY PduAssumption DEF DelphiProofs!AllForms, AllForms, DelphiProofs!Exceptions, Exceptions
<1>2. DelphiProofs!Spec => []DelphiProofs!OwnAnswer
  BY <1>1, DelphiProofs!AnswersAreOwn
<1>3. DelphiProofs!Spec => []DelphiProofs!SuccessIsAnswer
  BY <1>1, DelphiProofs!SuccessIsTrue
<1>4. (DelphiProofs!OwnAnswer => OwnAnswer) /\ (DelphiProofs!SuccessIsAnswer => SuccessIsAnswer)
  BY SameDelphi
<1>5. DelphiProofs!Spec => []DelphiProofs!TypeOK
  BY <1>1, DelphiProofs!TypeCorrect
<1>6. DelphiProofs!Spec => []DelphiProofs!ExecutedOnce
  BY <1>1, DelphiProofs!ClientRunsOnce
<1>7. DelphiProofs!ExecutedOnce => Delphi!ExecutedOnce
  BY SameDelphi
<1>8. QED BY <1>2, <1>3, <1>4, <1>5, <1>6, <1>7, PTL

\* A TModbus is of one library for its whole life; of the other's nothing is used.
OfClient == library = "delphi"

LEMMA OneLibrary ==
  /\ ClassInit => library = "cpp" \/ OfClient
  /\ ClassInit /\ OfClient => DelphiProofs!Init
  /\ OfClient /\ [ClassNext]_classVars =>
       [DelphiProofs!Next]_(DelphiProofs!vars) /\ OfClient'
<1>1. ClassInit => library = "cpp" \/ (library = "delphi" /\ Delphi!Init)
  BY DEF ClassInit
<1>2. library = "delphi" /\ [ClassNext]_classVars =>
        [Delphi!Next]_(Delphi!vars) /\ library' = "delphi"
  BY DEF ClassNext, Cpp, OfDelphi, classVars, delphiVars, Delphi!vars, Delphi!line
<1>3. ClassInit /\ library = "delphi" => DelphiProofs!Init
  BY <1>1, SameDelphi
<1>4. [Delphi!Next]_(Delphi!vars) => [DelphiProofs!Next]_(DelphiProofs!vars)
  <2>1. UNCHANGED Delphi!vars => UNCHANGED DelphiProofs!vars
    BY DEF Delphi!vars, DelphiProofs!vars, Delphi!line, DelphiProofs!line
  <2>2. QED BY <2>1, SameDelphi
<1>5. QED BY <1>1, <1>2, <1>3, <1>4 DEF OfClient

NoCallOfDelphi ==
    /\ library = "cpp"
    /\ \A c \in Delphi!Callers : call[c].result = "pending"
    /\ ran = [i \in Ids |-> 0]

LEMMA CppCallsNone ==
  /\ ClassInit /\ library = "cpp" => NoCallOfDelphi
  /\ NoCallOfDelphi /\ [ClassNext]_classVars => NoCallOfDelphi'
  /\ NoCallOfDelphi => OwnAnswer /\ SuccessIsAnswer /\ Delphi!ExecutedOnce
<1>1. ClassInit /\ library = "cpp" => NoCallOfDelphi
  BY DEF ClassInit, NoCallOfDelphi, Delphi!NoCall
<1>2. NoCallOfDelphi /\ [ClassNext]_classVars => NoCallOfDelphi'
  BY DEF NoCallOfDelphi, ClassNext, Cpp, OfDelphi, classVars, delphiVars
<1>3. NoCallOfDelphi => OwnAnswer /\ SuccessIsAnswer
  BY DEF NoCallOfDelphi, OwnAnswer, SuccessIsAnswer, Delphi!OwnAnswer, Delphi!SuccessIsAnswer
<1>4. NoCallOfDelphi => Delphi!ExecutedOnce
  BY DEF NoCallOfDelphi, Delphi!ExecutedOnce, Delphi!Ids, Ids
<1>5. QED BY <1>1, <1>2, <1>3, <1>4

LEMMA DelphiOrNone == ClassSpec => DelphiProofs!Spec \/ []NoCallOfDelphi
<1>1. ClassSpec /\ OfClient => DelphiProofs!Spec
  BY OneLibrary, PTL DEF ClassSpec, DelphiProofs!Spec
<1>2. ClassSpec /\ library = "cpp" => []NoCallOfDelphi
  BY CppCallsNone, PTL DEF ClassSpec
<1>3. ClassSpec => library = "cpp" \/ OfClient
  BY OneLibrary, PTL DEF ClassSpec
<1>4. QED BY <1>1, <1>2, <1>3, PTL

\* Over either channel and however its two callers take turns, the client's Send
\* gives a call whose flush left nothing the answer to its own request or none
\* (TModbus.Send of the Delphi client).
THEOREM ClientAnswersAreOwn == ClassSpec => []OwnAnswer
BY DelphiOrNone, CppCallsNone, DelphiHolds, PTL

\* A call of the client that succeeds hands over an answer of the slave and function
\* it asked for, to a request executed exactly once, except that a write over a lost
\* connection may be handed its own request (TModbus.Send, SendTCP).
THEOREM ClientSuccessIsTrue == ClassSpec => []SuccessIsAnswer
BY DelphiOrNone, CppCallsNone, DelphiHolds, PTL

-----------------------------------------------------------------------------
(***************************************************************************)
(* The properties of Send, of the class: over TCP those of ModbusTcp, over *)
(* a serial line those of ModbusRtu, and in the client's library nothing   *)
(* of the service's moves.                                                 *)
(***************************************************************************)
OverTcp == library = "cpp" /\ FModbusTCP
OverRtu == library = "cpp" /\ ~FModbusTCP

\* The kind of a TModbus never changes, and its steps are those of the kind.
LEMMA KindStays ==
  ASSUME [ClassNext]_classVars
  PROVE  /\ OverTcp => OverTcp' /\ [Next]_vars
         /\ OverRtu => OverRtu' /\ [Rtu!Next]_(Rtu!vars)
         /\ OfClient => OfClient' /\ UNCHANGED cppVars
<1>1. OverTcp => OverTcp' /\ [Next]_vars
  BY DEF ClassNext, Cpp, OfDelphi, Send, SendTCP, SendRTU, classVars, cppVars, vars, OverTcp
<1>2. OverRtu => OverRtu' /\ [Rtu!Next]_(Rtu!vars)
  BY DEF ClassNext, Cpp, OfDelphi, Send, SendTCP, SendRTU, classVars, cppVars, Rtu!vars, OverRtu
<1>3. OfClient => OfClient' /\ UNCHANGED cppVars
  BY DEF ClassNext, Cpp, OfDelphi, classVars, cppVars, OfClient
<1>4. QED
  BY <1>1, <1>2, <1>3

\* Of the service's TModbus that is none: as before the first call.
Unused ==
    /\ pc = "idle" /\ req = NoRequest /\ result = "pending" /\ accepted = NoAnswer
    /\ runs = [i \in Ids |-> 0]

LEMMA KindInit ==
  ASSUME ClassInit
  PROVE  \/ OverTcp /\ Init
         \/ OverRtu /\ Rtu!Init
         \/ OfClient /\ Unused
  BY DEF ClassInit, SendInit, OverTcp, OverRtu, OfClient, Unused

ClassInv ==
    \/ OverTcp /\ RunInv /\ FreshInv
    \/ OverRtu /\ RtuRunInv /\ RtuFreshInv
    \/ OfClient /\ Unused

LEMMA ClassInvInit == ClassInit => ClassInv
<1>1. Init => RunInv /\ FreshInv
  BY RunInit, FreshInit
<1>2. Rtu!Init => RtuRunInv /\ RtuFreshInv
  BY RtuRunInit, RtuFreshInit
<1>3. QED
  BY <1>1, <1>2, KindInit DEF ClassInv

LEMMA ClassInvStep == ClassInv /\ [ClassNext]_classVars => ClassInv'
<1> SUFFICES ASSUME ClassInv, [ClassNext]_classVars PROVE ClassInv'
  OBVIOUS
<1>1. CASE OverTcp /\ RunInv /\ FreshInv
  BY <1>1, KindStays, RunStep, FreshStep DEF ClassInv
<1>2. CASE OverRtu /\ RtuRunInv /\ RtuFreshInv
  BY <1>2, KindStays, RtuRunStep, RtuFreshStep DEF ClassInv
<1>3. CASE OfClient /\ Unused
  <2>1. Unused'
    BY <1>3, KindStays DEF Unused, cppVars
  <2>2. QED
    BY <1>3, <2>1, KindStays DEF ClassInv
<1>4. QED
  BY <1>1, <1>2, <1>3 DEF ClassInv

LEMMA ClassInvMeans == ClassInv => NeverRunTwice /\ SuccessIsFresh
<1>1. LineInv => NeverRunTwice
  BY DEF LineInv, RunsAreOfCalls, NeverRunTwice
<1>2. Unused => NeverRunTwice /\ SuccessIsFresh
  BY DEF Unused, NeverRunTwice, SuccessIsFresh
<1>3. QED
  BY <1>1, <1>2 DEF ClassInv, RunInv, FreshInv, RtuRunInv, RtuFreshInv

\* Whichever library and channel, no request is ever run twice by the slave: none of
\* the service's, which `runs` counts (TModbus::Send, SendTCP, SendRTU), and none of
\* the client's two callers, which `ran` counts (TModbus.Send).
THEOREM ClassRunsOnce == ClassSpec => []RunsOnce
<1>1. ClassSpec => []NeverRunTwice
  BY ClassInvInit, ClassInvStep, ClassInvMeans, PTL DEF ClassSpec
<1>2. ClassSpec => []Delphi!ExecutedOnce
  BY DelphiOrNone, CppCallsNone, DelphiHolds, PTL
<1>3. RunsOnce <=> NeverRunTwice /\ Delphi!ExecutedOnce
  BY DEF RunsOnce
<1>4. QED BY <1>1, <1>2, <1>3, PTL

\* Over TCP and over a serial line alike, a call whose flush left nothing of older
\* calls and that succeeds hands over the answer to its own request, though
\* neither transport's frames say which request they answer (SendTCP, SendRTU).
THEOREM ClassSuccessIsFresh == ClassSpec => []SuccessIsFresh
BY ClassInvInit, ClassInvStep, ClassInvMeans, PTL DEF ClassSpec

\* Send implements the abstract call over both channels: whatever is late, cut,
\* disturbed or lost, a call that succeeds returns an answer of the slave and the
\* function it asked for to a request that was run, and each is run at most once.
THEOREM ClassKeepsPromise == ClassSpec => KeepsPromise
<1>1. ClassInit => Promise!Init
  <2>1. Init => Promise!Init
    BY PromiseInit
  <2>2. Rtu!Init => Promise!Init
    BY SharedDefinitions, SharedWithRtu DEF Rtu!Init, Promise!Init
  <2>3. Unused => Promise!Init
    BY SharedDefinitions DEF Unused, Promise!Init
  <2>4. QED
    BY <2>1, <2>2, <2>3, KindInit
<1>2. ClassInv /\ [ClassNext]_classVars => [Promise!Next]_(Promise!vars)
  <2> SUFFICES ASSUME ClassInv, [ClassNext]_classVars
               PROVE  [Promise!Next]_(Promise!vars)
    OBVIOUS
  <2>1. CASE OverTcp /\ RunInv
    BY <2>1, KindStays, PromiseStep
  <2>2. CASE OverRtu /\ RtuRunInv
    BY <2>2, KindStays, RtuPromiseStep
  <2>3. CASE OfClient
    BY <2>3, KindStays DEF cppVars, Promise!vars
  <2>4. QED
    BY <2>1, <2>2, <2>3 DEF ClassInv
<1>3. QED
  BY <1>1, <1>2, ClassInvInit, ClassInvStep, PTL
  DEF ClassSpec, KeepsPromise, Promise!Spec

\* Every state of a TModbus is well typed, whichever its library and its channel.
THEOREM ClassTypeCorrect == ClassSpec => []ClassTypeOK
<1>1. OverTcp /\ TypeOK => ClassTypeOK
  BY DEF OverTcp, ClassTypeOK, SendTypeOK
<1>2. OverRtu /\ Rtu!TypeOK /\ FModbusTCP \in BOOLEAN => ClassTypeOK
  BY DEF OverRtu, ClassTypeOK, SendTypeOK
<1>3. OfClient /\ DelphiProofs!TypeOK => ClassTypeOK
  BY SameDelphi DEF OfClient, ClassTypeOK
<1>4. ClassInit /\ OverRtu => FModbusTCP \in BOOLEAN
  BY DEF ClassInit, SendInit, OverRtu
<1>5. OverRtu /\ FModbusTCP \in BOOLEAN /\ [ClassNext]_classVars => (FModbusTCP \in BOOLEAN)'
  BY DEF ClassNext, Cpp, OfDelphi, Send, SendTCP, SendRTU, classVars, OverRtu
<1>6. ClassInv => (OverTcp => TypeOK) /\ (OverRtu => Rtu!TypeOK)
  BY DEF ClassInv, RunInv, RtuRunInv, OverTcp, OverRtu, OfClient
<1>7. ClassInit => OverTcp \/ OverRtu \/ OfClient
  BY KindInit
<1>8. [ClassNext]_classVars =>
        /\ OverTcp => OverTcp'
        /\ OverRtu => OverRtu'
        /\ OfClient => OfClient'
  BY KindStays
<1>9. ClassSpec /\ OfClient => []DelphiProofs!TypeOK
  BY DelphiHolds, OneLibrary, PTL DEF ClassSpec, DelphiProofs!Spec
<1>10. QED
  BY <1>1, <1>2, <1>3, <1>4, <1>5, <1>6, <1>7, <1>8, <1>9, ClassInvInit, ClassInvStep, PTL
  DEF ClassSpec
=============================================================================
