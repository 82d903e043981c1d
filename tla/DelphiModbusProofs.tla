------------------------- MODULE DelphiModbusProofs --------------------------
(***************************************************************************)
(* Theorems about DelphiModbus, for all units, counts and forms, any       *)
(* number of calls of both callers and of further reads.                   *)
(***************************************************************************)
EXTENDS DelphiModbus, SequenceTheorems, TLAPS

Places == {"idle", "enter", "connect", "reconnect", "flush", "write", "resend",
           "wait", "again", "read", "collect"}

Accepted == [id : Ids, unit : Units, func : Functions, qty : Quantities,
             form : Forms \cup {"ok", "own"}]

CallRecord == [pc : Places, req : Request, result : {"pending", "merNone", "failed"},
               accepted : Accepted, dataout : Seq(Part), cnt : Nat, i : Nat,
               flushed : {"all", "some"}]

LEMMA CallType == TypeOK => call \in [Callers -> CallRecord]
BY DEF TypeOK, CallRecord, Places, Accepted

LEMMA NoRequestType == NoRequest \in Request /\ NoRequest.id = 0
<1>1. (CHOOSE u \in Units : TRUE) \in Units /\ (CHOOSE q \in Quantities : TRUE) \in Quantities
  BY PduAssumption
<1>2. QED BY <1>1, PduAssumption DEF NoRequest, Request, Ids, Functions

LEMMA NoCallType == NoCall \in CallRecord /\ NoCall.req.id = 0
<1>1. NoAnswer \in Accepted
  BY NoRequestType DEF NoAnswer, Accepted, Request, Ids, Functions
<1>2. QED BY <1>1, NoRequestType DEF NoCall, CallRecord, Places

LEMMA AnswerAccepted == Answer \subseteq Accepted
BY DEF Answer, Accepted

LEMMA OwnAccepted == \A r \in Request : Own(r) \in Accepted /\ Own(r).id = r.id
BY DEF Own, Accepted, Request

LEMMA AnswerToType ==
  ASSUME NEW r \in Request, NEW form \in Forms
  PROVE  AnswerTo(r, form) \in Answer /\ AnswerTo(r, form).id = r.id
BY DEF AnswerTo, Answer, Request

LEMMA FrameType ==
  ASSUME NEW a \in Answer
  PROVE  /\ Frame(a) \in Seq(Part) /\ Len(Frame(a)) = 2
         /\ Frame(a)[1].ans = a /\ Frame(a)[2].ans = a
BY DEF Frame, Part

\* What a call that ends leaves of its record.
LEMMA FailedType ==
  ASSUME call \in [Callers -> CallRecord], NEW c \in Callers
  PROVE  /\ Failed(c) \in CallRecord
         /\ Failed(c).pc = "idle" /\ Failed(c).result = "failed"
         /\ Failed(c).req.id = call[c].req.id
<1>1. call[c].req \in Request /\ call[c].req.id \in Ids
  BY DEF CallRecord, Request
<1>2. [NoRequest EXCEPT !.id = call[c].req.id] \in Request
  BY <1>1, NoRequestType DEF Request
<1>3. QED BY <1>1, <1>2, NoCallType, NoRequestType DEF Failed, CallRecord, Request, NoCall

\* The elements of a part of a sequence, and of two joined.
LEMMA PartOf ==
  ASSUME NEW S, NEW s \in Seq(S), NEW m \in 1 .. Len(s) + 1, NEW n \in 0 .. Len(s)
  PROVE  /\ SubSeq(s, m, n) \in Seq(S)
         /\ \A k \in 1 .. Len(SubSeq(s, m, n)) :
              k + m - 1 \in 1 .. Len(s) /\ SubSeq(s, m, n)[k] = s[k + m - 1]
  OBVIOUS

LEMMA Joined ==
  ASSUME NEW S, NEW s \in Seq(S), NEW t \in Seq(S)
  PROVE  /\ s \o t \in Seq(S)
         /\ \A k \in 1 .. Len(s \o t) :
              \/ k \in 1 .. Len(s) /\ (s \o t)[k] = s[k]
              \/ k - Len(s) \in 1 .. Len(t) /\ (s \o t)[k] = t[k - Len(s)]
  OBVIOUS

LEMMA ReadType ==
  ASSUME TypeOK, NEW n \in 0 .. arrived, Read(n)
  PROVE  /\ pipe' \in Seq(Part) /\ arrived' \in 0 .. Len(pipe')
         /\ SubSeq(pipe, 1, n) \in Seq(Part)
<1>1. pipe \in Seq(Part) /\ arrived \in 0 .. Len(pipe)
  BY DEF TypeOK
<1>2. QED BY <1>1 DEF Read

-----------------------------------------------------------------------------
\* What the ways on, and out, of a call make of call and FSection.
LEMMA GoOnEffect ==
  ASSUME call \in [Callers -> CallRecord], NEW c \in Callers, NEW p \in Places, GoOn(c, p)
  PROVE  /\ call' \in [Callers -> CallRecord]
         /\ call' = [call EXCEPT ![c].pc = p] /\ FSection' = FSection
BY DEF GoOn, CallRecord

LEMMA FailEffect ==
  ASSUME call \in [Callers -> CallRecord], NEW c \in Callers, Fail(c)
  PROVE  /\ call' \in [Callers -> CallRecord] /\ FSection' = Nobody
         /\ call' = [call EXCEPT ![c] = Failed(c)]
BY FailedType DEF Fail

\* The record of a call that got answer a.
Won(c, a) == [NoCall EXCEPT !.req = call[c].req, !.flushed = call[c].flushed,
                            !.accepted = a, !.result = "merNone"]

LEMMA WonType ==
  ASSUME call \in [Callers -> CallRecord], NEW c \in Callers, NEW a \in Accepted
  PROVE  /\ Won(c, a) \in CallRecord
         /\ Won(c, a).pc = "idle" /\ Won(c, a).req = call[c].req
         /\ Won(c, a).accepted = a /\ Won(c, a).flushed = call[c].flushed
BY NoCallType DEF Won, CallRecord, NoCall

LEMMA JudgeEffect ==
  ASSUME call \in [Callers -> CallRecord], NEW c \in Callers, NEW a \in Accepted, Judge(c, a)
  PROVE  /\ call' \in [Callers -> CallRecord] /\ FSection' = Nobody
         /\ \/ call' = [call EXCEPT ![c] = Failed(c)]
            \/ /\ DelphiVerdict(call[c].req, a) = "merNone"
               /\ call' = [call EXCEPT ![c] = Won(c, a)]
<1>1. CASE DelphiVerdict(call[c].req, a) # "merNone"
  BY <1>1, FailEffect DEF Judge
<1>2. CASE DelphiVerdict(call[c].req, a) = "merNone"
  <2>1. call' = [call EXCEPT ![c] = Won(c, a)] /\ FSection' = Nobody
    BY <1>2 DEF Judge, Won
  <2>2. QED BY <1>2, <2>1, WonType
<1>3. QED BY <1>1, <1>2

LEMMA BegunEffect ==
  ASSUME call \in [Callers -> CallRecord], NEW c \in Callers, Begun(c)
  PROVE  /\ call' \in [Callers -> CallRecord] /\ FSection' = c
         /\ \E p \in {"connect", "flush"} : call' = [call EXCEPT ![c].pc = p]
<1>1. PICK p \in {"connect", "flush"} : call' = [call EXCEPT ![c].pc = p]
  BY DEF Begun
<1>2. call' \in [Callers -> CallRecord]
  <2>1. call[c] \in CallRecord /\ p \in Places
    BY DEF Places
  <2>2. [call[c] EXCEPT !.pc = p] \in CallRecord
    BY <2>1 DEF CallRecord
  <2>3. QED BY <1>1, <2>2
<1>3. QED BY <1>1, <1>2 DEF Begun

LEMMA CallEffect ==
  ASSUME TypeOK, NEW c \in Callers, NEW u \in Units, NEW f \in Functions,
         NEW q \in Quantities, Call(c, u, f, q), Latest \in Nat
  PROVE  /\ call' \in [Callers -> CallRecord]
         /\ call'[c].req.id = Latest + 1 /\ call'[c].pc = "enter"
         /\ call'[c].result = "pending"
         /\ \A d \in Callers \ {c} : call'[d] = call[d]
<1>1. call \in [Callers -> CallRecord]
  BY CallType
<1>2. [id |-> Latest + 1, unit |-> u, func |-> f, qty |-> q] \in Request
  BY PduAssumption DEF Call, Request, Ids
<1> DEFINE new == [call[c] EXCEPT !.req = [id |-> Latest + 1, unit |-> u, func |-> f, qty |-> q],
                                  !.pc = "enter", !.result = "pending"]
<1>3. call' = [call EXCEPT ![c] = new]
  BY <1>1 DEF Call, CallRecord
<1>4. call[c] \in CallRecord
  BY <1>1
<1>5. /\ new \in CallRecord /\ new.req.id = Latest + 1 /\ new.pc = "enter"
      /\ new.result = "pending"
  BY <1>2, <1>4 DEF CallRecord, Places
<1>6. QED BY <1>1, <1>3, <1>5

LEMMA LatestIsLatest ==
  ASSUME TypeOK
  PROVE  /\ Latest \in Ids /\ Latest \in Nat
         /\ \A c \in Callers : call[c].req.id <= Latest
<1>1. \A c \in Callers : call[c].req.id \in Ids /\ call[c].req.id \in Nat
  BY CallType DEF CallRecord, Request, Ids
<1> DEFINE a == call["thread"].req.id
           b == call["form"].req.id
           ids == {call[c].req.id : c \in Callers}
<1>2. ids = {a, b} /\ a \in Nat /\ b \in Nat
  BY <1>1 DEF Callers
<1>3. \E n \in ids : \A m \in ids : m <= n
  <2>1. CASE a <= b
    <3>1. b \in ids /\ \A m \in ids : m <= b
      BY <1>2, <2>1
    <3>2. QED BY <3>1
  <2>2. CASE b <= a
    <3>1. a \in ids /\ \A m \in ids : m <= a
      BY <1>2, <2>2
    <3>2. QED BY <3>1
  <2>3. QED BY <1>2, <2>1, <2>2
<1>4. Latest \in ids /\ \A m \in ids : m <= Latest
  BY <1>3 DEF Latest
<1>5. QED BY <1>1, <1>4

-----------------------------------------------------------------------------
(* Type correctness                                                        *)

LEMMA TypeParts ==
  /\ TypeOK => /\ call \in [Callers -> CallRecord] /\ FSection \in Callers \cup {Nobody}
               /\ toSlave \in Seq(Request) /\ pipe \in Seq(Part)
               /\ arrived \in Nat /\ arrived <= Len(pipe) /\ ran \in [Ids -> Nat]
               /\ sock \in {"up", "closed", "halfclosed", "broken", "reset"}
  /\ (/\ FModbusTCP' \in BOOLEAN
      /\ call' \in [Callers -> CallRecord] /\ FSection' \in Callers \cup {Nobody}
      /\ toSlave' \in Seq(Request) /\ pipe' \in Seq(Part)
      /\ arrived' \in 0 .. Len(pipe') /\ ran' \in [Ids -> Nat]
      /\ sock' \in {"up", "closed", "halfclosed", "broken", "reset"}) => TypeOK'
BY DEF TypeOK, CallRecord, Places, Accepted

LEMMA CloseType ==
  ASSUME Close
  PROVE  /\ toSlave' \in Seq(Request) /\ pipe' \in Seq(Part) /\ arrived' \in 0 .. Len(pipe')
         /\ sock' = "closed"
BY DEF Close

LEMMA InitType == Init => TypeOK
<1> SUFFICES ASSUME Init PROVE TypeOK
  OBVIOUS
<1>1. call \in [Callers -> CallRecord]
  BY NoCallType DEF Init
<1>2. QED BY <1>1 DEF Init, TypeOK, CallRecord, Places, Accepted

LEMMA InsideType ==
  ASSUME TypeOK, NEW c \in Callers, Inside(c), FModbusTCP' = FModbusTCP
  PROVE  TypeOK'
<1>0. /\ call \in [Callers -> CallRecord] /\ FSection \in Callers \cup {Nobody}
      /\ toSlave \in Seq(Request) /\ pipe \in Seq(Part)
      /\ arrived \in Nat /\ arrived <= Len(pipe) /\ ran \in [Ids -> Nat]
      /\ sock \in {"up", "closed", "halfclosed", "broken", "reset"}
      /\ FModbusTCP' \in BOOLEAN
  BY TypeParts DEF TypeOK
<1>c. call[c] \in CallRecord
  BY <1>0
<1>r. call[c].req \in Request /\ call[c].dataout \in Seq(Part) /\ call[c].cnt \in Nat
      /\ call[c].i \in Nat
  BY <1>0 DEF CallRecord
<1>1. CASE Enter(c)
  <2>1. call' \in [Callers -> CallRecord] /\ FSection' \in Callers \cup {Nobody}
    BY <1>0, <1>1, FailEffect, BegunEffect DEF Enter
  <2>2. QED BY <1>0, <1>1, <2>1, TypeParts DEF Enter, line
<1>2. CASE Connect(c)
  <2>1. call' \in [Callers -> CallRecord] /\ FSection' \in Callers \cup {Nobody}
    BY <1>0, <1>2, FailEffect, GoOnEffect DEF Connect, Places
  <2>2. QED BY <1>0, <1>2, <2>1, TypeParts DEF Connect, line
<1>3. CASE Flush(c)
  <2>1. pipe' \in Seq(Part) /\ arrived' \in 0 .. Len(pipe') /\ SubSeq(pipe, 1, arrived) \in Seq(Part)
    BY <1>0, <1>3, ReadType DEF Flush
  <2>2. call' \in [Callers -> CallRecord]
    <3> DEFINE d == IF FModbusTCP THEN << >> ELSE SubSeq(pipe, 1, arrived)
               f == IF toSlave = << >> /\ arrived = Len(pipe) THEN "all" ELSE "some"
    <3>1. d \in Seq(Part) /\ f \in {"all", "some"}
      BY <2>1
    <3>2. call' = [call EXCEPT ![c].pc = "write", ![c].dataout = d, ![c].flushed = f]
      BY <1>3 DEF Flush
    <3> HIDE DEF d, f
    <3>3. call' = [call EXCEPT ![c] = [call[c] EXCEPT !.pc = "write", !.dataout = d, !.flushed = f]]
      BY <1>0, <3>2 DEF CallRecord
    <3>4. [call[c] EXCEPT !.pc = "write", !.dataout = d, !.flushed = f] \in CallRecord
      BY <1>c, <3>1 DEF CallRecord, Places
    <3>5. QED BY <1>0, <3>3, <3>4
  <2>3. QED BY <1>0, <1>3, <2>1, <2>2, TypeParts DEF Flush
<1>4. CASE WriteStr(c)
  BY <1>0, <1>r, <1>4, GoOnEffect, TypeParts DEF WriteStr, Places
<1>5. CASE Raises(c)
  <2>1. call' \in [Callers -> CallRecord] /\ FSection' = Nobody
    BY <1>0, <1>5, FailEffect DEF Raises
  <2>2. Append(toSlave, call[c].req) \in Seq(Request)
    BY <1>0, <1>r
  <2>3. toSlave' \in Seq(Request)
    BY <1>0, <1>5, <2>2 DEF Raises
  <2>4. QED BY <1>0, <1>5, <2>1, <2>3, TypeParts DEF Raises
<1>6. CASE Count(c)
  <2>1. PICK n \in 0 .. arrived :
          call' = [call EXCEPT ![c].pc = IF n = 0 THEN "collect" ELSE "read",
                               ![c].cnt = n, ![c].dataout = << >>]
    BY <1>6 DEF Count
  <2>2. PICK p \in {"collect", "read"} :
          call' = [call EXCEPT ![c].pc = p, ![c].cnt = n, ![c].dataout = << >>]
    BY <2>1
  <2>3. call' \in [Callers -> CallRecord]
    <3>1. call' = [call EXCEPT ![c] = [call[c] EXCEPT !.pc = p, !.cnt = n, !.dataout = << >>]]
      BY <1>0, <2>2 DEF CallRecord
    <3>2. n \in Nat /\ << >> \in Seq(Part)
      BY <1>0
    <3>3. [call[c] EXCEPT !.pc = p, !.cnt = n, !.dataout = << >>] \in CallRecord
      BY <1>c, <3>2 DEF CallRecord, Places
    <3>4. QED BY <1>0, <3>1, <3>3
  <2>4. QED BY <1>0, <1>6, <2>3, TypeParts DEF Count, line
<1>7. CASE ReadStr(c)
  <2>1. PICK n \in 0 .. arrived :
          /\ call' = [call EXCEPT ![c].pc = "collect", ![c].dataout = SubSeq(pipe, 1, n)]
          /\ Read(n)
    <3> DEFINE n == IF call[c].cnt < arrived THEN call[c].cnt ELSE arrived
    <3>1. n \in 0 .. arrived
      BY <1>0, <1>r
    <3>2. /\ call' = [call EXCEPT ![c].pc = "collect", ![c].dataout = SubSeq(pipe, 1, n)]
          /\ Read(n)
      BY <1>7 DEF ReadStr
    <3> HIDE DEF n
    <3>3. QED BY <3>1, <3>2
  <2>2. pipe' \in Seq(Part) /\ arrived' \in 0 .. Len(pipe') /\ SubSeq(pipe, 1, n) \in Seq(Part)
    BY <2>1, ReadType
  <2>3. call' \in [Callers -> CallRecord]
    <3> DEFINE d == SubSeq(pipe, 1, n)
    <3>1. d \in Seq(Part) /\ call' = [call EXCEPT ![c].pc = "collect", ![c].dataout = d]
      BY <2>1, <2>2
    <3> HIDE DEF d
    <3>2. call' = [call EXCEPT ![c] = [call[c] EXCEPT !.pc = "collect", !.dataout = d]]
      BY <1>0, <3>1 DEF CallRecord
    <3>3. [call[c] EXCEPT !.pc = "collect", !.dataout = d] \in CallRecord
      BY <1>c, <3>1 DEF CallRecord, Places
    <3>4. QED BY <1>0, <3>2, <3>3
  <2>4. QED BY <1>0, <1>7, <2>2, <2>3, TypeParts DEF ReadStr
<1>8. CASE Collect(c)
  <2>1. pipe' \in Seq(Part) /\ arrived' \in 0 .. Len(pipe') /\ SubSeq(pipe, 1, arrived) \in Seq(Part)
    BY <1>0, <1>8, ReadType DEF Collect
  <2> DEFINE d == call[c].dataout \o SubSeq(pipe, 1, arrived)
  <2>2. d \in Seq(Part)
    BY <1>r, <2>1, Joined
  <2>3. call' = [call EXCEPT ![c].dataout = d, ![c].i = call[c].i + 1]
    BY <1>0, <1>8 DEF Collect
  <2> HIDE DEF d
  <2>4. call' \in [Callers -> CallRecord]
    <3>1. call' = [call EXCEPT ![c] = [call[c] EXCEPT !.dataout = d, !.i = call[c].i + 1]]
      BY <1>0, <2>3 DEF CallRecord
    <3> DEFINE j == call[c].i + 1
    <3>2. j \in Nat
      BY <1>r
    <3>3. call' = [call EXCEPT ![c] = [call[c] EXCEPT !.dataout = d, !.i = j]]
      BY <3>1
    <3> HIDE DEF j
    <3>4. [call[c] EXCEPT !.dataout = d, !.i = j] \in CallRecord
      BY <1>c, <3>2, <2>2 DEF CallRecord
    <3>5. QED BY <1>0, <3>3, <3>4
  <2>5. QED BY <1>0, <1>8, <2>1, <2>4, TypeParts DEF Collect
<1>9. CASE Collected(c)
  <2>1. call' \in [Callers -> CallRecord] /\ FSection' \in Callers \cup {Nobody}
    <3>1. CASE CrcIsRight(call[c].dataout) /\ Judge(c, call[c].dataout[1].ans)
      <4>1. call[c].dataout[1] \in Part
        BY <1>r, <3>1 DEF CrcIsRight
      <4>2. call[c].dataout[1].ans \in Accepted
        BY <4>1, AnswerAccepted DEF Part
      <4>3. QED BY <1>0, <3>1, <4>2, JudgeEffect
    <3>2. CASE Fail(c)
      BY <1>0, <3>2, FailEffect
    <3>3. QED BY <1>9, <3>1, <3>2 DEF Collected
  <2>2. QED BY <1>0, <1>9, <2>1, TypeParts DEF Collected, line
<1>10. CASE SendAll(c)
  <2>1. call' \in [Callers -> CallRecord] /\ FSection' = FSection
    BY <1>0, <1>10, GoOnEffect DEF SendAll, Places
  <2>2. Append(toSlave, call[c].req) \in Seq(Request)
    BY <1>0, <1>r
  <2>3. toSlave' \in Seq(Request) /\ sock' \in {"up", "broken"}
    BY <1>0, <1>10, <2>2 DEF SendAll
  <2>4. QED BY <1>0, <1>10, <2>1, <2>3, TypeParts DEF SendAll
<1>11. CASE SendSome(c)
  BY <1>0, <1>11, FailEffect, CloseType, TypeParts DEF SendSome
<1>12. CASE SendFails(c)
  <2>1. call' \in [Callers -> CallRecord] /\ FSection' \in Callers \cup {Nobody}
    BY <1>0, <1>12, FailEffect, GoOnEffect DEF SendFails, Places
  <2>2. QED BY <1>0, <1>12, <2>1, CloseType, TypeParts DEF SendFails
<1>13. CASE Receive(c)
  <2>1. pipe' \in Seq(Part) /\ arrived' \in 0 .. Len(pipe')
    BY <1>0, <1>13, ReadType DEF Receive
  <2>2. pipe[1].ans \in Accepted
    <3>1. pipe[1] \in Part
      BY <1>0, <1>13 DEF Receive
    <3>2. QED BY <3>1, AnswerAccepted DEF Part
  <2>3. call' \in [Callers -> CallRecord] /\ FSection' \in Callers \cup {Nobody}
    BY <1>0, <1>13, <2>2, JudgeEffect, FailEffect DEF Receive
  <2>4. QED BY <1>0, <1>13, <2>1, <2>3, TypeParts DEF Receive
<1>14. CASE NoData(c)
  <2>1. call' \in [Callers -> CallRecord] /\ FSection' \in Callers \cup {Nobody}
    BY <1>0, <1>14, FailEffect, GoOnEffect DEF NoData, Places
  <2>2. QED BY <1>0, <1>14, <2>1, TypeParts DEF NoData, line
<1>15. CASE OwnRequest(c)
  <2>1. call' \in [Callers -> CallRecord] /\ FSection' \in Callers \cup {Nobody}
    BY <1>0, <1>r, <1>15, OwnAccepted, JudgeEffect DEF OwnRequest
  <2>2. QED BY <1>0, <1>15, <2>1, TypeParts DEF OwnRequest, line
<1>16. QED
  BY <1>1, <1>2, <1>3, <1>4, <1>5, <1>6, <1>7, <1>8, <1>9, <1>10, <1>11, <1>12, <1>13,
     <1>14, <1>15 DEF Inside

LEMMA TypeStep == TypeOK /\ [Next]_vars => TypeOK'
<1> SUFFICES ASSUME TypeOK, [Next]_vars PROVE TypeOK'
  OBVIOUS
<1>0. /\ call \in [Callers -> CallRecord] /\ FSection \in Callers \cup {Nobody}
      /\ toSlave \in Seq(Request) /\ pipe \in Seq(Part)
      /\ arrived \in Nat /\ arrived <= Len(pipe) /\ ran \in [Ids -> Nat]
      /\ sock \in {"up", "closed", "halfclosed", "broken", "reset"}
      /\ FModbusTCP' \in BOOLEAN
  BY TypeParts DEF TypeOK, Next, vars
<1>1. ASSUME NEW c \in Callers, NEW u \in Units, NEW f \in Functions, NEW q \in Quantities,
             Call(c, u, f, q)
      PROVE  TypeOK'
  <2>1. call' \in [Callers -> CallRecord]
    BY <1>1, CallEffect, LatestIsLatest
  <2>2. QED BY <1>0, <1>1, <2>1, TypeParts DEF Call, line
<1>2. ASSUME NEW c \in Callers, Inside(c), FModbusTCP' = FModbusTCP
      PROVE  TypeOK'
  BY <1>2, InsideType
<1>3. ASSUME NEW form \in Forms, SlaveAnswers(form)
      PROVE  TypeOK'
  <2>1. Head(toSlave) \in Request /\ Tail(toSlave) \in Seq(Request)
    BY <1>0, <1>3 DEF SlaveAnswers
  <2> DEFINE a == AnswerTo(Head(toSlave), form)
  <2>2. a \in Answer
    BY <2>1, AnswerToType
  <2>3. Frame(a) \in Seq(Part) /\ Len(Frame(a)) = 2
    BY <2>2, FrameType
  <2>4. pipe' = pipe \o Frame(a)
    BY <1>3 DEF SlaveAnswers
  <2> HIDE DEF a
  <2>5. pipe' \in Seq(Part) /\ arrived' \in 0 .. Len(pipe')
    <3> DEFINE fr == Frame(a)
    <3>1. fr \in Seq(Part) /\ Len(fr) = 2 /\ pipe' = pipe \o fr /\ arrived' = arrived
      BY <1>3, <2>3, <2>4 DEF SlaveAnswers
    <3> HIDE DEF fr
    <3>2. QED BY <1>0, <3>1
  <2>6. Head(toSlave).id \in Ids
    BY <2>1 DEF Request
  <2>7. ran' \in [Ids -> Nat]
    BY <1>0, <1>3, <2>6 DEF SlaveAnswers
  <2>8. toSlave' \in Seq(Request) /\ UNCHANGED <<FSection, call, sock>>
    BY <1>3, <2>1 DEF SlaveAnswers
  <2>9. QED BY <1>0, <2>5, <2>7, <2>8, TypeParts
<1>4. CASE SlaveIsSilent
  <2>1. Head(toSlave) \in Request /\ Tail(toSlave) \in Seq(Request)
    BY <1>0, <1>4 DEF SlaveIsSilent
  <2>2. ran' \in [Ids -> Nat]
    BY <1>0, <1>4, <2>1 DEF SlaveIsSilent, Request
  <2>3. QED BY <1>0, <1>4, <2>1, <2>2, TypeParts DEF SlaveIsSilent
<1>5. CASE Arrive
  BY <1>0, <1>5, TypeParts DEF Arrive
<1>6. CASE PeerCloses
  BY <1>0, <1>6, TypeParts DEF PeerCloses
<1>7. CASE PeerResets
  BY <1>0, <1>7, TypeParts DEF PeerResets
<1>8. CASE UNCHANGED vars
  BY <1>0, <1>8, TypeParts DEF vars, line
<1>9. QED
  BY <1>1, <1>2, <1>3, <1>4, <1>5, <1>6, <1>7, <1>8 DEF Next, Environment

\* Type correctness of the client's Send, both of its transports and both of its
\* callers (TModbus.Send, SendRTU, SendTCP): no more is read than has arrived.
THEOREM TypeCorrect == Spec => []TypeOK
BY InitType, TypeStep, PTL DEF Spec

-----------------------------------------------------------------------------
(* The critical section                                                    *)

\* Who is inside holds the section, and who holds it is inside; a call is
\* undecided until it returns.
SectionInv ==
    \A c \in Callers : /\ FSection = c <=> at(c) \notin {"idle", "enter"}
                       /\ at(c) # "idle" => call[c].result = "pending"

\* A step of c within Send leaves the other's call alone and keeps its number; it
\* ends the call and leaves the section, or keeps its request.
LEMMA InsideEffect ==
  ASSUME TypeOK, NEW c \in Callers, Inside(c)
  PROVE  /\ \A d \in Callers \ {c} : call'[d] = call[d]
         /\ at(c) # "idle" /\ (at(c) = "enter" => Enter(c) /\ FSection = Nobody)
         /\ call'[c].req.id = call[c].req.id
         /\ \/ call'[c].pc = "idle" /\ FSection' = Nobody
            \/ /\ call'[c].pc \in Places \ {"idle", "enter"}
               /\ call'[c].req = call[c].req /\ call'[c].result = call[c].result
               /\ FSection' = c \/ (at(c) # "enter" /\ FSection' = FSection)
<1>0. call \in [Callers -> CallRecord] /\ call[c] \in CallRecord /\ call[c].req \in Request
  BY CallType DEF CallRecord
<1> DEFINE Goal ==
         /\ \A d \in Callers \ {c} : call'[d] = call[d]
         /\ at(c) # "idle" /\ (at(c) = "enter" => Enter(c) /\ FSection = Nobody)
         /\ call'[c].req.id = call[c].req.id
         /\ \/ call'[c].pc = "idle" /\ FSection' = Nobody
            \/ /\ call'[c].pc \in Places \ {"idle", "enter"}
               /\ call'[c].req = call[c].req /\ call'[c].result = call[c].result
               /\ FSection' = c \/ (at(c) # "enter" /\ FSection' = FSection)
<1>1. ASSUME Fail(c), at(c) # "idle", at(c) = "enter" => Enter(c) /\ FSection = Nobody
      PROVE  Goal
  <2>1. call' = [call EXCEPT ![c] = Failed(c)] /\ FSection' = Nobody
    BY <1>0, <1>1, FailEffect
  <2>2. Failed(c).pc = "idle" /\ Failed(c).req.id = call[c].req.id
    BY <1>0, FailedType
  <2>3. QED BY <1>0, <1>1, <2>1, <2>2
<1>2. ASSUME NEW a \in Accepted, Judge(c, a), at(c) \notin {"idle", "enter"}
      PROVE  Goal
  <2>1. CASE call' = [call EXCEPT ![c] = Failed(c)]
    BY <1>0, <1>2, <2>1, JudgeEffect, FailedType
  <2>2. CASE call' = [call EXCEPT ![c] = Won(c, a)]
    BY <1>0, <1>2, <2>2, JudgeEffect, WonType
  <2>3. QED BY <1>0, <1>2, <2>1, <2>2, JudgeEffect
<1>3. ASSUME NEW p \in Places \ {"idle", "enter"}, GoOn(c, p), at(c) \notin {"idle", "enter"}
      PROVE  Goal
  <2>1. call' = [call EXCEPT ![c].pc = p] /\ FSection' = FSection
    BY <1>0, <1>3, GoOnEffect
  <2>2. QED BY <1>0, <1>3, <2>1 DEF CallRecord
<1>4. CASE Enter(c)
  <2>1. at(c) = "enter" /\ FSection = Nobody
    BY <1>4 DEF Enter
  <2>2. CASE Fail(c)
    BY <1>1, <1>4, <2>1, <2>2
  <2>3. CASE Begun(c)
    <3>1. PICK p \in {"connect", "flush"} : call' = [call EXCEPT ![c].pc = p] /\ FSection' = c
      BY <1>0, <2>3, BegunEffect
    <3>2. QED BY <1>0, <1>4, <2>1, <3>1 DEF CallRecord, Places
  <2>4. QED BY <1>4, <2>2, <2>3 DEF Enter
<1>5. CASE Connect(c)
  BY <1>1, <1>3, <1>5 DEF Connect, Places
<1>6. CASE Flush(c)
  <2>1. \E d, f : call' = [call EXCEPT ![c].pc = "write", ![c].dataout = d, ![c].flushed = f]
    BY <1>6 DEF Flush
  <2>2. PICK d, f : call' = [call EXCEPT ![c].pc = "write", ![c].dataout = d, ![c].flushed = f]
    BY <2>1
  <2>3. call' = [call EXCEPT ![c] = [call[c] EXCEPT !.pc = "write", !.dataout = d, !.flushed = f]]
    BY <1>0, <2>2 DEF CallRecord
  <2>4. QED BY <1>0, <1>6, <2>3 DEF Flush, CallRecord, Places
<1>7. CASE Raises(c) \/ SendSome(c)
  BY <1>1, <1>7 DEF Raises, SendSome
<1>8. CASE WriteStr(c) \/ SendAll(c)
  BY <1>3, <1>8 DEF WriteStr, SendAll, Places
<1>9. CASE Count(c)
  <2>1. \E n : call' = [call EXCEPT ![c].pc = IF n = 0 THEN "collect" ELSE "read",
                                    ![c].cnt = n, ![c].dataout = << >>]
    BY <1>9 DEF Count
  <2>2. PICK n : call' = [call EXCEPT ![c].pc = IF n = 0 THEN "collect" ELSE "read",
                                      ![c].cnt = n, ![c].dataout = << >>]
    BY <2>1
  <2>3. PICK p \in {"collect", "read"} :
          call' = [call EXCEPT ![c].pc = p, ![c].cnt = n, ![c].dataout = << >>]
    BY <2>2
  <2>4. call' = [call EXCEPT ![c] = [call[c] EXCEPT !.pc = p, !.cnt = n, !.dataout = << >>]]
    BY <1>0, <2>3 DEF CallRecord
  <2>5. QED BY <1>0, <1>9, <2>4 DEF Count, CallRecord, Places
<1>10. CASE ReadStr(c)
  <2>1. \E d : call' = [call EXCEPT ![c].pc = "collect", ![c].dataout = d]
    BY <1>10 DEF ReadStr
  <2>2. PICK d : call' = [call EXCEPT ![c].pc = "collect", ![c].dataout = d]
    BY <2>1
  <2>3. call' = [call EXCEPT ![c] = [call[c] EXCEPT !.pc = "collect", !.dataout = d]]
    BY <1>0, <2>2 DEF CallRecord
  <2>4. QED BY <1>0, <1>10, <2>3 DEF ReadStr, CallRecord, Places
<1>11. CASE Collect(c)
  <2>1. \E d, j : call' = [call EXCEPT ![c].dataout = d, ![c].i = j]
    BY <1>0, <1>11 DEF Collect
  <2>2. PICK d, j : call' = [call EXCEPT ![c].dataout = d, ![c].i = j]
    BY <2>1
  <2>3. call' = [call EXCEPT ![c] = [call[c] EXCEPT !.dataout = d, !.i = j]]
    BY <1>0, <2>2 DEF CallRecord
  <2>4. at(c) = "collect" /\ FSection' = FSection
    BY <1>11 DEF Collect
  <2>5. QED BY <1>0, <2>3, <2>4 DEF at, CallRecord, Places
<1>12. CASE Collected(c)
  <2>1. CASE Fail(c)
    BY <1>1, <1>12, <2>1 DEF Collected
  <2>2. CASE CrcIsRight(call[c].dataout) /\ Judge(c, call[c].dataout[1].ans)
    <3>1. call[c].dataout[1] \in Part
      BY <1>0, <2>2 DEF CrcIsRight, CallRecord
    <3>2. call[c].dataout[1].ans \in Accepted
      BY <3>1, AnswerAccepted DEF Part
    <3>3. QED BY <1>2, <1>12, <2>2, <3>2 DEF Collected
  <2>3. QED BY <1>12, <2>1, <2>2 DEF Collected
<1>13. CASE SendFails(c)
  BY <1>1, <1>3, <1>13 DEF SendFails, Places
<1>14. CASE Receive(c)
  <2>1. pipe[1] \in Part
    BY <1>14, TypeParts DEF Receive
  <2>2. pipe[1].ans \in Accepted
    BY <2>1, AnswerAccepted DEF Part
  <2>3. QED BY <1>1, <1>2, <1>14, <2>2 DEF Receive
<1>15. CASE NoData(c)
  BY <1>1, <1>3, <1>15 DEF NoData, Places
<1>16. CASE OwnRequest(c)
  BY <1>0, <1>2, <1>16, OwnAccepted DEF OwnRequest
<1>17. QED
  BY <1>4, <1>5, <1>6, <1>7, <1>8, <1>9, <1>10, <1>11, <1>12, <1>13, <1>14, <1>15, <1>16
  DEF Inside

LEMMA SectionStep == TypeOK /\ SectionInv /\ [Next]_vars => SectionInv'
<1> SUFFICES ASSUME TypeOK, SectionInv, [Next]_vars PROVE SectionInv'
  OBVIOUS
<1>0. Nobody \notin Callers
  BY DEF Nobody, Callers
<1>1. ASSUME NEW c \in Callers, NEW u \in Units, NEW f \in Functions, NEW q \in Quantities,
             Call(c, u, f, q)
      PROVE  SectionInv'
  <2>1. /\ call'[c].pc = "enter" /\ call'[c].result = "pending"
        /\ \A d \in Callers \ {c} : call'[d] = call[d]
    BY <1>1, CallEffect, LatestIsLatest
  <2>2. FSection' = FSection /\ at(c) = "idle"
    BY <1>1 DEF Call
  <2>3. QED BY <2>1, <2>2 DEF SectionInv, at
<1>2. ASSUME NEW c \in Callers, Inside(c)
      PROVE  SectionInv'
  <2>1. /\ \A d \in Callers \ {c} : call'[d] = call[d]
        /\ at(c) # "idle" /\ (at(c) = "enter" => FSection = Nobody)
        /\ \/ call'[c].pc = "idle" /\ FSection' = Nobody
           \/ /\ call'[c].pc \in Places \ {"idle", "enter"}
              /\ call'[c].result = call[c].result
              /\ FSection' = c \/ (at(c) # "enter" /\ FSection' = FSection)
    BY <1>2, InsideEffect
  <2>2. at(c) # "enter" => FSection = c
    BY <2>1 DEF SectionInv
  <2>3. \A d \in Callers \ {c} : at(d) \in {"idle", "enter"}
    BY <1>0, <2>1, <2>2 DEF SectionInv
  <2>4. QED BY <1>0, <2>1, <2>2, <2>3 DEF SectionInv, at
<1>3. ASSUME UNCHANGED <<FSection, call>>
      PROVE  SectionInv'
  BY <1>3 DEF SectionInv, at
<1>4. QED
  BY <1>1, <1>2, <1>3 DEF Next, vars, Environment, SlaveAnswers, SlaveIsSilent, Arrive,
     PeerCloses, PeerResets

LEMMA SectionInit == Init => SectionInv
BY DEF Init, SectionInv, NoCall, at, Callers, Nobody

\* Never are both callers inside Send, and the section is held by no caller that
\* has returned (TModbus.Send).
THEOREM OneInside == Spec => []SectionInv
BY SectionInit, SectionStep, TypeCorrect, PTL DEF Spec

-----------------------------------------------------------------------------
(* Whose answer a call gets                                                *)

AfterFlush == {"write", "reconnect", "resend", "wait", "again", "read", "collect"}

\* Every request and answer under way is one of call number n.
LineOf(n) ==
    /\ \A k \in 1 .. Len(toSlave) : toSlave[k].id = n
    /\ \A k \in 1 .. Len(pipe) : pipe[k].ans.id = n

\* After a flush that left nothing there is nothing but what the call itself
\* sends and gets; nobody else is let in until it has returned.
FreshCall(c) ==
    (at(c) \in AfterFlush /\ call[c].flushed = "all") =>
        /\ LineOf(call[c].req.id)
        /\ at(c) \in {"read", "collect"} =>
             \A k \in 1 .. Len(call[c].dataout) : call[c].dataout[k].ans.id = call[c].req.id

OwnCall(c) ==
    (call[c].result = "merNone" /\ call[c].flushed = "all") =>
        call[c].accepted.id = call[c].req.id

FreshInv == \A c \in Callers : FreshCall(c) /\ OwnCall(c)

\* A read, a close and a further request of the same call.
LEMMA LineSteps ==
  ASSUME TypeOK, NEW n
  PROVE  /\ \A m \in 0 .. arrived :
              Read(m) => /\ UNCHANGED toSlave /\ LineOf(n) => LineOf(n)'
                         /\ LineOf(n) => \A k \in 1 .. Len(SubSeq(pipe, 1, m)) :
                                           SubSeq(pipe, 1, m)[k].ans.id = n
         /\ Close => LineOf(n)'
         /\ \A r \in Request : (r.id = n /\ toSlave' = Append(toSlave, r) /\ UNCHANGED pipe) =>
              (LineOf(n) => LineOf(n)')
         /\ (UNCHANGED <<toSlave, pipe>> /\ LineOf(n)) => LineOf(n)'
<1>0. toSlave \in Seq(Request) /\ pipe \in Seq(Part) /\ arrived \in Nat /\ arrived <= Len(pipe)
  BY TypeParts
<1>1. ASSUME NEW m \in 0 .. arrived, Read(m), LineOf(n)
      PROVE  /\ UNCHANGED toSlave => LineOf(n)'
             /\ \A k \in 1 .. Len(SubSeq(pipe, 1, m)) : SubSeq(pipe, 1, m)[k].ans.id = n
  <2>1. pipe' = SubSeq(pipe, m + 1, Len(pipe)) /\ m + 1 \in 1 .. Len(pipe) + 1
        /\ Len(pipe) \in 0 .. Len(pipe)
    BY <1>0, <1>1 DEF Read
  <2>2. \A k \in 1 .. Len(pipe') : k + m \in 1 .. Len(pipe) /\ pipe'[k] = pipe[k + m]
    BY <1>0, <2>1, PartOf
  <2>3. \A k \in 1 .. Len(SubSeq(pipe, 1, m)) :
          k \in 1 .. Len(pipe) /\ SubSeq(pipe, 1, m)[k] = pipe[k]
    BY <1>0, PartOf
  <2>4. QED BY <1>1, <2>2, <2>3 DEF LineOf
<1>2. Close => LineOf(n)'
  BY DEF Close, LineOf
<1>3. ASSUME NEW r \in Request, r.id = n, toSlave' = Append(toSlave, r), UNCHANGED pipe, LineOf(n)
      PROVE  LineOf(n)'
  BY <1>0, <1>3 DEF LineOf
<1>4. (UNCHANGED <<toSlave, pipe>> /\ LineOf(n)) => LineOf(n)'
  BY DEF LineOf
<1>5. QED BY <1>1, <1>2, <1>3, <1>4

LEMMA FreshInside ==
  ASSUME TypeOK, SectionInv, FreshInv, NEW c \in Callers, Inside(c)
  PROVE  FreshCall(c)' /\ OwnCall(c)'
<1>0. /\ call \in [Callers -> CallRecord] /\ call[c] \in CallRecord /\ call[c].req \in Request
      /\ toSlave \in Seq(Request) /\ pipe \in Seq(Part) /\ arrived \in Nat /\ arrived <= Len(pipe)
      /\ call[c].dataout \in Seq(Part) /\ call[c].cnt \in Nat
  BY TypeParts DEF CallRecord
<1>n. PICK n : n = call[c].req.id
  OBVIOUS
<1>p. /\ at(c) # "idle" /\ call[c].result = "pending"
      /\ call'[c].req.id = n
  BY <1>n, InsideEffect DEF SectionInv
<1>f. (at(c) \in AfterFlush /\ call[c].flushed = "all") =>
        /\ LineOf(n)
        /\ at(c) \in {"read", "collect"} =>
             \A k \in 1 .. Len(call[c].dataout) : call[c].dataout[k].ans.id = n
  BY <1>n DEF FreshInv, FreshCall
<1>g. ASSUME call'[c].pc = "idle" => call'[c].result = "failed",
             call'[c].pc # "idle" => call'[c].result = "pending",
             (call'[c].pc \in AfterFlush /\ call'[c].flushed = "all") =>
               /\ LineOf(n)'
               /\ call'[c].pc \in {"read", "collect"} =>
                    \A k \in 1 .. Len(call'[c].dataout) : call'[c].dataout[k].ans.id = n
      PROVE  FreshCall(c)' /\ OwnCall(c)'
  BY <1>p, <1>g DEF FreshCall, OwnCall, at, AfterFlush
<1>1. ASSUME Fail(c)
      PROVE  FreshCall(c)' /\ OwnCall(c)'
  BY <1>0, <1>1, <1>g, FailEffect, FailedType DEF AfterFlush
<1>2. ASSUME NEW a \in Accepted, Judge(c, a), call[c].flushed = "all" => a.id = n
      PROVE  FreshCall(c)' /\ OwnCall(c)'
  <2>1. CASE call' = [call EXCEPT ![c] = Failed(c)]
    BY <1>0, <1>g, <2>1, FailedType DEF AfterFlush
  <2>2. CASE call' = [call EXCEPT ![c] = Won(c, a)]
    <3>1. /\ call'[c].pc = "idle" /\ call'[c].req = call[c].req /\ call'[c].accepted = a
          /\ call'[c].flushed = call[c].flushed
      BY <1>0, <1>2, <2>2, WonType
    <3>2. QED BY <1>n, <1>2, <3>1 DEF FreshCall, OwnCall, at, AfterFlush
  <2>3. QED BY <1>0, <1>2, <2>1, <2>2, JudgeEffect
<1>3. ASSUME NEW p \in AfterFlush \ {"read", "collect"}, GoOn(c, p), at(c) \in AfterFlush,
             LineOf(n) => LineOf(n)'
      PROVE  FreshCall(c)' /\ OwnCall(c)'
  <2>1. call' = [call EXCEPT ![c].pc = p]
    BY <1>0, <1>3, GoOnEffect DEF AfterFlush, Places
  <2>2. /\ call'[c].pc = p /\ call'[c].result = "pending"
        /\ call'[c].flushed = call[c].flushed
    BY <1>0, <1>p, <2>1 DEF CallRecord
  <2>3. QED BY <1>3, <1>f, <1>g, <2>2 DEF AfterFlush
<1>4. ASSUME NEW p \in {"connect", "flush"}, call' = [call EXCEPT ![c].pc = p]
      PROVE  FreshCall(c)' /\ OwnCall(c)'
  <2>1. call'[c].pc = p /\ call'[c].result = "pending"
    BY <1>0, <1>p, <1>4 DEF CallRecord
  <2>2. QED BY <1>g, <2>1 DEF AfterFlush
<1>s. UNCHANGED line => (LineOf(n) => LineOf(n)')
  BY LineSteps DEF line
<1>5. CASE Enter(c)
  <2>1. CASE Begun(c)
    BY <1>0, <1>4, <2>1, BegunEffect
  <2>2. QED BY <1>1, <1>5, <2>1 DEF Enter
<1>6. CASE Connect(c)
  <2>1. CASE Fail(c)
    BY <1>1, <2>1
  <2>2. CASE at(c) = "connect" /\ GoOn(c, "flush")
    BY <1>0, <1>4, <2>2, GoOnEffect DEF Places
  <2>3. CASE at(c) = "reconnect" /\ GoOn(c, "resend")
    BY <1>3, <1>6, <1>s, <2>3 DEF Connect, AfterFlush
  <2>4. QED BY <1>6, <2>1, <2>2, <2>3 DEF Connect
<1>7. CASE Flush(c)
  <2> DEFINE f == IF toSlave = << >> /\ arrived = Len(pipe) THEN "all" ELSE "some"
  <2>1. \E d : call' = [call EXCEPT ![c].pc = "write", ![c].dataout = d, ![c].flushed = f]
    BY <1>7 DEF Flush
  <2>2. PICK d : call' = [call EXCEPT ![c].pc = "write", ![c].dataout = d, ![c].flushed = f]
    BY <2>1
  <2>3. f = "all" => LineOf(n)'
    <3>1. ASSUME f = "all" PROVE toSlave' = << >> /\ pipe' = << >>
      <4>1. toSlave = << >> /\ arrived = Len(pipe)
        BY <3>1
      <4>2. pipe' = SubSeq(pipe, Len(pipe) + 1, Len(pipe))
        BY <1>7, <4>1 DEF Flush, Read
      <4>3. pipe' = << >>
        BY <1>0, <4>2
      <4>4. QED BY <1>7, <4>1, <4>3 DEF Flush
    <3>2. QED BY <3>1 DEF LineOf
  <2> HIDE DEF f
  <2>4. call' = [call EXCEPT ![c] = [call[c] EXCEPT !.pc = "write", !.dataout = d, !.flushed = f]]
    BY <1>0, <2>2 DEF CallRecord
  <2>5. call'[c].pc = "write" /\ call'[c].result = "pending" /\ call'[c].flushed = f
    BY <1>0, <1>p, <2>4 DEF CallRecord
  <2>6. QED BY <1>g, <2>3, <2>5 DEF AfterFlush
<1>8. CASE WriteStr(c)
  <2>1. LineOf(n) => LineOf(n)'
    BY <1>0, <1>n, <1>8, LineSteps DEF WriteStr
  <2>2. QED BY <1>3, <1>8, <2>1 DEF WriteStr, AfterFlush
<1>9. CASE Raises(c) \/ SendSome(c)
  BY <1>1, <1>9 DEF Raises, SendSome
<1>10. CASE Count(c)
  <2>1. \E m : call' = [call EXCEPT ![c].pc = IF m = 0 THEN "collect" ELSE "read",
                                    ![c].cnt = m, ![c].dataout = << >>]
    BY <1>10 DEF Count
  <2>2. PICK m : call' = [call EXCEPT ![c].pc = IF m = 0 THEN "collect" ELSE "read",
                                      ![c].cnt = m, ![c].dataout = << >>]
    BY <2>1
  <2>3. PICK p \in {"collect", "read"} :
          call' = [call EXCEPT ![c].pc = p, ![c].cnt = m, ![c].dataout = << >>]
    BY <2>2
  <2>4. call' = [call EXCEPT ![c] = [call[c] EXCEPT !.pc = p, !.cnt = m, !.dataout = << >>]]
    BY <1>0, <2>3 DEF CallRecord
  <2>5. /\ call'[c].pc = p /\ call'[c].result = "pending"
        /\ call'[c].flushed = call[c].flushed /\ call'[c].dataout = << >>
    BY <1>0, <1>p, <2>4 DEF CallRecord
  <2>6. at(c) \in AfterFlush /\ UNCHANGED line
    BY <1>10 DEF Count, AfterFlush
  <2>7. QED BY <1>f, <1>g, <1>s, <2>5, <2>6
<1>11. CASE ReadStr(c)
  <2>1. PICK m \in 0 .. arrived :
          /\ call' = [call EXCEPT ![c].pc = "collect", ![c].dataout = SubSeq(pipe, 1, m)]
          /\ Read(m)
    <3> DEFINE m == IF call[c].cnt < arrived THEN call[c].cnt ELSE arrived
    <3>1. m \in 0 .. arrived
      BY <1>0
    <3>2. /\ call' = [call EXCEPT ![c].pc = "collect", ![c].dataout = SubSeq(pipe, 1, m)]
          /\ Read(m)
      BY <1>11 DEF ReadStr
    <3> HIDE DEF m
    <3>3. QED BY <3>1, <3>2
  <2> DEFINE d == SubSeq(pipe, 1, m)
  <2>2. at(c) \in AfterFlush /\ UNCHANGED toSlave
    BY <1>11 DEF ReadStr, AfterFlush
  <2>3. LineOf(n) => LineOf(n)' /\ \A k \in 1 .. Len(d) : d[k].ans.id = n
    BY <2>1, <2>2, LineSteps
  <2>4. call' = [call EXCEPT ![c].pc = "collect", ![c].dataout = d]
    BY <2>1
  <2> HIDE DEF d
  <2>5. call' = [call EXCEPT ![c] = [call[c] EXCEPT !.pc = "collect", !.dataout = d]]
    BY <1>0, <2>4 DEF CallRecord
  <2>6. /\ call'[c].pc = "collect" /\ call'[c].result = "pending"
        /\ call'[c].flushed = call[c].flushed /\ call'[c].dataout = d
    BY <1>0, <1>p, <2>5 DEF CallRecord
  <2>7. QED BY <1>f, <1>g, <2>2, <2>3, <2>6
<1>12. CASE Collect(c)
  <2> DEFINE e == SubSeq(pipe, 1, arrived)
             d == call[c].dataout \o e
  <2>1. at(c) = "collect" /\ UNCHANGED toSlave /\ Read(arrived)
    BY <1>12 DEF Collect
  <2>2. arrived \in 0 .. arrived /\ e \in Seq(Part)
    BY <1>0
  <2>3. LineOf(n) => LineOf(n)' /\ \A k \in 1 .. Len(e) : e[k].ans.id = n
    BY <2>1, <2>2, LineSteps
  <2>4. \E j : call' = [call EXCEPT ![c].dataout = d, ![c].i = j]
    BY <1>0, <1>12 DEF Collect
  <2> HIDE DEF e
  <2>5. \A k \in 1 .. Len(d) :
          \/ k \in 1 .. Len(call[c].dataout) /\ d[k] = call[c].dataout[k]
          \/ /\ k - Len(call[c].dataout) \in 1 .. Len(e)
             /\ d[k] = e[k - Len(call[c].dataout)]
    BY <1>0, <2>2, Joined
  <2> HIDE DEF d
  <2>6. PICK j : call' = [call EXCEPT ![c].dataout = d, ![c].i = j]
    BY <2>4
  <2>7. call' = [call EXCEPT ![c] = [call[c] EXCEPT !.dataout = d, !.i = j]]
    BY <1>0, <2>6 DEF CallRecord
  <2>8. /\ call'[c].pc = "collect" /\ call'[c].result = "pending"
        /\ call'[c].flushed = call[c].flushed /\ call'[c].dataout = d
    BY <1>0, <1>p, <2>1, <2>7 DEF CallRecord, at
  <2>9. call[c].flushed = "all" => LineOf(n)' /\ \A k \in 1 .. Len(d) : d[k].ans.id = n
    BY <1>f, <2>1, <2>3, <2>5 DEF AfterFlush
  <2>10. QED BY <1>g, <2>8, <2>9
<1>13. CASE Collected(c)
  <2>1. CASE CrcIsRight(call[c].dataout) /\ Judge(c, call[c].dataout[1].ans)
    <3>1. call[c].dataout[1] \in Part /\ 1 \in 1 .. Len(call[c].dataout)
      BY <1>0, <2>1 DEF CrcIsRight
    <3>2. call[c].dataout[1].ans \in Accepted
      BY <3>1, AnswerAccepted DEF Part
    <3>3. call[c].flushed = "all" => call[c].dataout[1].ans.id = n
      BY <1>f, <1>13, <3>1 DEF Collected, AfterFlush
    <3>4. QED BY <1>2, <2>1, <3>2, <3>3
  <2>2. QED BY <1>1, <1>13, <2>1 DEF Collected
<1>14. CASE SendAll(c)
  <2>1. LineOf(n) => LineOf(n)'
    BY <1>0, <1>n, <1>14, LineSteps DEF SendAll
  <2>2. QED BY <1>3, <1>14, <2>1 DEF SendAll, AfterFlush
<1>15. CASE SendFails(c)
  <2>1. LineOf(n) => LineOf(n)'
    BY <1>15, LineSteps DEF SendFails
  <2>2. QED BY <1>1, <1>3, <1>15, <2>1 DEF SendFails, AfterFlush
<1>16. CASE Receive(c)
  <2>1. pipe[1] \in Part /\ 1 \in 1 .. Len(pipe)
    BY <1>0, <1>16 DEF Receive
  <2>2. pipe[1].ans \in Accepted
    BY <2>1, AnswerAccepted DEF Part
  <2>3. call[c].flushed = "all" => pipe[1].ans.id = n
    BY <1>f, <1>16, <2>1 DEF Receive, AfterFlush, LineOf
  <2>4. QED BY <1>1, <1>2, <1>16, <2>2, <2>3 DEF Receive
<1>17. CASE NoData(c)
  BY <1>1, <1>3, <1>17, <1>s DEF NoData, AfterFlush
<1>18. CASE OwnRequest(c)
  BY <1>0, <1>n, <1>2, <1>18, OwnAccepted DEF OwnRequest
<1>19. QED
  BY <1>5, <1>6, <1>7, <1>8, <1>9, <1>10, <1>11, <1>12, <1>13, <1>14, <1>15, <1>16, <1>17,
     <1>18 DEF Inside

\* What the slaves and the line do leaves all that is under way with its number.
LEMMA LineGoesOn ==
  ASSUME TypeOK, Environment, NEW n, LineOf(n)
  PROVE  LineOf(n)' /\ UNCHANGED call
<1>0. toSlave \in Seq(Request) /\ pipe \in Seq(Part)
  BY TypeParts
<1>t. ASSUME toSlave # << >>
      PROVE  /\ Head(toSlave) \in Request /\ Head(toSlave).id = n
             /\ \A k \in 1 .. Len(Tail(toSlave)) : Tail(toSlave)[k].id = n
  BY <1>0, <1>t DEF LineOf
<1>1. ASSUME NEW form \in Forms, SlaveAnswers(form)
      PROVE  LineOf(n)' /\ UNCHANGED call
  <2> DEFINE a == AnswerTo(Head(toSlave), form)
             fr == Frame(a)
  <2>1. toSlave # << >> /\ toSlave' = Tail(toSlave) /\ pipe' = pipe \o fr /\ UNCHANGED call
    BY <1>1 DEF SlaveAnswers
  <2>2. a \in Answer /\ a.id = n
    BY <1>t, <2>1, AnswerToType
  <2> HIDE DEF a
  <2>3. fr \in Seq(Part) /\ \A k \in 1 .. Len(fr) : fr[k].ans.id = n
    <3>1. /\ fr \in Seq(Part) /\ Len(fr) = 2 /\ fr[1].ans.id = n /\ fr[2].ans.id = n
      BY <2>2, FrameType
    <3> HIDE DEF fr
    <3>2. QED BY <3>1
  <2> HIDE DEF fr
  <2>4. \A k \in 1 .. Len(pipe \o fr) : (pipe \o fr)[k].ans.id = n
    BY <1>0, <2>3, Joined DEF LineOf
  <2>5. QED BY <1>t, <2>1, <2>4 DEF LineOf
<1>2. CASE SlaveIsSilent
  BY <1>t, <1>2 DEF SlaveIsSilent, LineOf
<1>3. CASE Arrive \/ PeerCloses \/ PeerResets
  BY <1>3 DEF Arrive, PeerCloses, PeerResets, LineOf
<1>4. QED BY <1>1, <1>2, <1>3 DEF Environment

LEMMA FreshStep == TypeOK /\ SectionInv /\ FreshInv /\ [Next]_vars => FreshInv'
<1> SUFFICES ASSUME TypeOK, SectionInv, FreshInv, [Next]_vars, NEW d \in Callers
             PROVE  FreshCall(d)' /\ OwnCall(d)'
  BY DEF FreshInv
<1>0. Nobody \notin Callers
  BY DEF Nobody, Callers
<1>n. PICK n : n = call[d].req.id
  OBVIOUS
<1>s. ASSUME call'[d] = call[d], (at(d) \in AfterFlush /\ LineOf(n)) => LineOf(n)'
      PROVE  FreshCall(d)' /\ OwnCall(d)'
  <2>1. OwnCall(d)'
    BY <1>s DEF FreshInv, OwnCall
  <2>2. FreshCall(d)'
    BY <1>n, <1>s DEF FreshInv, FreshCall, at
  <2>3. QED BY <2>1, <2>2
<1>1. ASSUME NEW c \in Callers, NEW u \in Units, NEW f \in Functions, NEW q \in Quantities,
             Call(c, u, f, q)
      PROVE  FreshCall(d)' /\ OwnCall(d)'
  <2>1. /\ call'[c].pc = "enter" /\ call'[c].result = "pending"
        /\ \A e \in Callers \ {c} : call'[e] = call[e]
    BY <1>1, CallEffect, LatestIsLatest
  <2>2. LineOf(n) => LineOf(n)'
    BY <1>1, LineSteps DEF Call, line
  <2>3. CASE d = c
    BY <2>1, <2>3 DEF FreshCall, OwnCall, at, AfterFlush
  <2>4. QED BY <1>s, <2>1, <2>2, <2>3
<1>2. ASSUME NEW c \in Callers, Inside(c)
      PROVE  FreshCall(d)' /\ OwnCall(d)'
  <2>1. CASE d = c
    BY <1>2, <2>1, FreshInside
  <2>2. CASE d # c
    <3>1. call'[d] = call[d] /\ at(c) # "idle" /\ (at(c) = "enter" => FSection = Nobody)
      BY <1>2, <2>2, InsideEffect
    <3>2. FSection # d
      BY <1>0, <2>2, <3>1 DEF SectionInv
    <3>3. at(d) \notin AfterFlush
      BY <3>2 DEF SectionInv, AfterFlush
    <3>4. QED BY <1>s, <3>1, <3>3
  <2>3. QED BY <2>1, <2>2
<1>3. CASE Environment
  <2>1. UNCHANGED call
    BY <1>3 DEF Environment, SlaveAnswers, SlaveIsSilent, Arrive, PeerCloses, PeerResets
  <2>2. QED BY <1>3, <1>s, <2>1, LineGoesOn
<1>4. CASE UNCHANGED vars
  <2>1. LineOf(n) => LineOf(n)'
    BY <1>4, LineSteps DEF vars, line
  <2>2. QED BY <1>4, <1>s, <2>1 DEF vars
<1>5. QED BY <1>1, <1>2, <1>3, <1>4 DEF Next

LEMMA FreshInit == Init => FreshInv
BY DEF Init, FreshInv, FreshCall, OwnCall, NoCall, at, AfterFlush

\* However the thread and the form take turns, and however late the slaves answer,
\* a call whose flush left nothing gets the answer to its own request or none
\* (TModbus.Send, SendRTU, SendTCP).
THEOREM AnswersAreOwn == Spec => []OwnAnswer
<1>1. FreshInv => OwnAnswer
  BY DEF FreshInv, OwnCall, OwnAnswer
<1>2. QED BY <1>1, FreshInit, FreshStep, TypeCorrect, OneInside, PTL DEF Spec

-----------------------------------------------------------------------------
(* Whose request was executed                                              *)

\* The places of a call that has sent nothing yet.
BeforeSend == {"enter", "connect", "flush", "write", "reconnect", "resend"}

Known(i)  == \E c \in Callers : i <= call[c].req.id
Unsent(i) == ran[i] = 0 /\ \A k \in 1 .. Len(toSlave) : toSlave[k].id # i
Ran(a)    == Executes(a.form) => ran[a.id] = 1

\* No two requests under way are of one call, none of them was executed, and an
\* answer is to one that was.
LineRan ==
    /\ \A k \in 1 .. Len(toSlave) : ran[toSlave[k].id] = 0 /\ Known(toSlave[k].id)
    /\ \A j, k \in 1 .. Len(toSlave) : j # k => toSlave[j].id # toSlave[k].id
    /\ \A k \in 1 .. Len(pipe) : Ran(pipe[k].ans)

\* A number is executed only once it was given, and no two calls under way have one.
NumbersInv ==
    /\ \A i \in Ids : ran[i] # 0 => Known(i)
    /\ \A c, d \in Callers : (c # d /\ at(c) # "idle") => call[c].req.id # call[d].req.id

Truthful(c) ==
    call[c].result = "merNone" =>
        LET r == call[c].req
            a == call[c].accepted
        IN  /\ a.unit = r.unit /\ a.func = r.func
            /\ r.func = "write" => a.qty = r.qty
            /\ ran[a.id] = 1 \/ (FModbusTCP /\ r.func = "write" /\ a = Own(r))

\* What a call has sent it sends no more, and what it has read was executed.
CallRan(c) ==
    /\ at(c) \in BeforeSend => Unsent(call[c].req.id)
    /\ at(c) \in {"read", "collect"} =>
         \A k \in 1 .. Len(call[c].dataout) : Ran(call[c].dataout[k].ans)
    /\ Truthful(c)

RunInv == LineRan /\ NumbersInv /\ \A c \in Callers : CallRan(c)

LEMMA VerdictNone ==
  ASSUME NEW r \in Request, NEW a \in Accepted, DelphiVerdict(r, a) = "merNone"
  PROVE  /\ a.unit = r.unit /\ a.func = r.func
         /\ r.func = "write" => a.qty = r.qty
         /\ Executes(a.form)
         /\ a.form = "own" => r.func = "write"
<1>1. a.form = "own" => r.func # "read"
  BY DEF DelphiVerdict
<1>2. Verdict(r, a) = "merNone"
  BY DEF DelphiVerdict
<1>3. SentVerdict(r, a) = "merNone" /\ CallerVerdict(r, a) = "merNone"
  BY <1>2 DEF Verdict
<1>4. a.unit = r.unit /\ a.func = r.func /\ Executes(a.form)
  BY <1>3 DEF SentVerdict, ExceptionError
<1>5. r.func = "write" => a.qty = r.qty
  BY <1>3 DEF CallerVerdict, WriteAccepts
<1>6. QED BY <1>1, <1>4, <1>5 DEF Request, Functions

\* What a read leaves and what it takes was in the pipe.
LEMMA ReadParts ==
  ASSUME TypeOK, NEW m \in 0 .. arrived, Read(m)
  PROVE  /\ \A k \in 1 .. Len(pipe') : \E j \in 1 .. Len(pipe) : pipe'[k] = pipe[j]
         /\ \A k \in 1 .. Len(SubSeq(pipe, 1, m)) :
              k \in 1 .. Len(pipe) /\ SubSeq(pipe, 1, m)[k] = pipe[k]
<1>0. pipe \in Seq(Part) /\ arrived \in Nat /\ arrived <= Len(pipe)
  BY TypeParts
<1>1. pipe' = SubSeq(pipe, m + 1, Len(pipe)) /\ m + 1 \in 1 .. Len(pipe) + 1
      /\ Len(pipe) \in 0 .. Len(pipe)
  BY <1>0 DEF Read
<1>2. \A k \in 1 .. Len(pipe') : k + m \in 1 .. Len(pipe) /\ pipe'[k] = pipe[k + m]
  BY <1>0, <1>1, PartOf
<1>3. \A k \in 1 .. Len(SubSeq(pipe, 1, m)) :
        k \in 1 .. Len(pipe) /\ SubSeq(pipe, 1, m)[k] = pipe[k]
  BY <1>0, PartOf
<1>4. QED BY <1>2, <1>3

\* A step within Send executes nothing, adds no answer, and sends a request no more
\* than once.
LEMMA InsideLine ==
  ASSUME TypeOK, NEW c \in Callers, Inside(c)
  PROVE  /\ ran' = ran
         /\ \A k \in 1 .. Len(pipe') : \E j \in 1 .. Len(pipe) : pipe'[k] = pipe[j]
         /\ \/ /\ toSlave' = toSlave \/ toSlave' = << >>
               /\ call'[c].pc \in BeforeSend => at(c) \in BeforeSend
            \/ /\ at(c) \in BeforeSend /\ call'[c].pc \notin BeforeSend
               /\ toSlave' = Append(toSlave, call[c].req)
<1>0. /\ call \in [Callers -> CallRecord] /\ call[c] \in CallRecord
      /\ pipe \in Seq(Part) /\ arrived \in Nat /\ arrived <= Len(pipe)
  BY TypeParts
<1>f. Fail(c) => call'[c].pc = "idle"
  BY <1>0, FailEffect, FailedType
<1>g. \A p \in Places : GoOn(c, p) => call'[c].pc = p
  BY <1>0, GoOnEffect DEF CallRecord
<1>i. \/ call'[c].pc = "idle"
      \/ call'[c].pc \in Places \ {"idle", "enter"}
  BY InsideEffect
<1>p. UNCHANGED pipe \/ Close \/ (\E m \in 0 .. arrived : Read(m))
      => \A k \in 1 .. Len(pipe') : \E j \in 1 .. Len(pipe) : pipe'[k] = pipe[j]
  BY ReadParts DEF Close
<1>1. CASE Enter(c) \/ Connect(c)
  BY <1>1, <1>p DEF Enter, Connect, line, BeforeSend
<1>2. CASE Flush(c)
  <2>1. arrived \in 0 .. arrived
    BY <1>0
  <2>2. QED BY <1>2, <1>p, <2>1 DEF Flush, BeforeSend
<1>3. CASE WriteStr(c) \/ SendAll(c)
  <2>1. call'[c].pc = "wait"
    BY <1>3, <1>g DEF WriteStr, SendAll, Places
  <2>2. QED BY <1>3, <1>p, <2>1 DEF WriteStr, SendAll, BeforeSend
<1>4. CASE Raises(c)
  BY <1>4, <1>f, <1>p DEF Raises, BeforeSend
<1>5. CASE Count(c)
  <2>1. \E m : call' = [call EXCEPT ![c].pc = IF m = 0 THEN "collect" ELSE "read",
                                    ![c].cnt = m, ![c].dataout = << >>]
    BY <1>5 DEF Count
  <2>2. call'[c].pc \in {"collect", "read"}
    BY <1>0, <2>1 DEF CallRecord
  <2>3. QED BY <1>5, <1>p, <2>2 DEF Count, line, BeforeSend
<1>6. CASE ReadStr(c)
  <2>1. \E m \in 0 .. arrived : Read(m)
    BY <1>0, <1>6 DEF ReadStr, CallRecord
  <2>2. \E d : call' = [call EXCEPT ![c].pc = "collect", ![c].dataout = d]
    BY <1>6 DEF ReadStr
  <2>3. call'[c].pc = "collect"
    BY <1>0, <2>2 DEF CallRecord
  <2>4. QED BY <1>6, <1>p, <2>1, <2>3 DEF ReadStr, BeforeSend
<1>7. CASE Collect(c)
  <2>1. arrived \in 0 .. arrived
    BY <1>0
  <2>2. \E d, j : call' = [call EXCEPT ![c].dataout = d, ![c].i = j]
    BY <1>0, <1>7 DEF Collect
  <2>3. call'[c].pc = call[c].pc
    BY <1>0, <2>2 DEF CallRecord
  <2>4. QED BY <1>7, <1>p, <2>1, <2>3 DEF Collect, BeforeSend, at
<1>8. CASE Collected(c)
  <2>1. call'[c].pc = "idle"
    <3>1. \A a : Judge(c, a) => call'[c].pc = "idle"
      BY <1>0, <1>f DEF Judge, NoCall
    <3>2. QED BY <1>8, <1>f, <3>1 DEF Collected
  <2>2. QED BY <1>8, <1>p, <2>1 DEF Collected, line, BeforeSend
<1>9. CASE SendSome(c)
  BY <1>9, <1>f, <1>p DEF SendSome, Close, BeforeSend
<1>10. CASE SendFails(c)
  BY <1>10, <1>p DEF SendFails, Close, BeforeSend
<1>11. CASE Receive(c)
  <2>1. arrived \in 0 .. arrived
    BY <1>0
  <2>2. call'[c].pc = "idle"
    <3>1. \A a : Judge(c, a) => call'[c].pc = "idle"
      BY <1>0, <1>f DEF Judge, NoCall
    <3>2. QED BY <1>11, <1>f, <3>1 DEF Receive
  <2>3. QED BY <1>11, <1>p, <2>1, <2>2 DEF Receive, BeforeSend
<1>12. CASE NoData(c)
  <2>1. call'[c].pc \in {"idle", "again"}
    BY <1>12, <1>f, <1>g DEF NoData, Places
  <2>2. QED BY <1>12, <1>p, <2>1 DEF NoData, line, BeforeSend
<1>13. CASE OwnRequest(c)
  <2>1. call'[c].pc = "idle"
    BY <1>0, <1>f, <1>13 DEF OwnRequest, Judge, NoCall
  <2>2. QED BY <1>13, <1>p, <2>1 DEF OwnRequest, line, BeforeSend
<1>14. QED
  BY <1>1, <1>2, <1>3, <1>4, <1>5, <1>6, <1>7, <1>8, <1>9, <1>10, <1>11, <1>12, <1>13
  DEF Inside

\* What it has read was in the pipe, and what it succeeds with it has read - or it
\* is its own request.
LEMMA InsideData ==
  ASSUME TypeOK, SectionInv, RunInv, NEW c \in Callers, Inside(c)
  PROVE  /\ call'[c].pc \in {"read", "collect"} =>
              \A k \in 1 .. Len(call'[c].dataout) : Ran(call'[c].dataout[k].ans)
         /\ call'[c].result = "merNone" =>
              LET r == call'[c].req
                  a == call'[c].accepted
              IN  /\ a.unit = r.unit /\ a.func = r.func
                  /\ r.func = "write" => a.qty = r.qty
                  /\ ran[a.id] = 1 \/ (FModbusTCP /\ r.func = "write" /\ a = Own(r))
<1>0. /\ call \in [Callers -> CallRecord] /\ call[c] \in CallRecord /\ call[c].req \in Request
      /\ pipe \in Seq(Part) /\ arrived \in Nat /\ arrived <= Len(pipe)
      /\ call[c].dataout \in Seq(Part) /\ call[c].cnt \in Nat
  BY TypeParts DEF CallRecord
<1> DEFINE Data == call'[c].pc \in {"read", "collect"} =>
                     \A k \in 1 .. Len(call'[c].dataout) : Ran(call'[c].dataout[k].ans)
           True(r, a) == /\ a.unit = r.unit /\ a.func = r.func
                         /\ r.func = "write" => a.qty = r.qty
                         /\ ran[a.id] = 1 \/ (FModbusTCP /\ r.func = "write" /\ a = Own(r))
           Goal == Data /\ (call'[c].result = "merNone" => True(call'[c].req, call'[c].accepted))
<1>p. at(c) # "idle" /\ call[c].result = "pending"
  BY InsideEffect DEF SectionInv
<1>r. /\ \A k \in 1 .. Len(pipe) : Ran(pipe[k].ans)
      /\ at(c) \in {"read", "collect"} =>
           \A k \in 1 .. Len(call[c].dataout) : Ran(call[c].dataout[k].ans)
  BY DEF RunInv, LineRan, CallRan
<1>1. Fail(c) => Goal
  BY <1>0, FailEffect, FailedType
<1>2. ASSUME NEW a \in Accepted, Judge(c, a),
             Ran(a) \/ (FModbusTCP /\ a = Own(call[c].req))
      PROVE  Goal
  <2>1. CASE call' = [call EXCEPT ![c] = Failed(c)]
    BY <1>0, <2>1, FailedType
  <2>2. CASE /\ DelphiVerdict(call[c].req, a) = "merNone"
             /\ call' = [call EXCEPT ![c] = Won(c, a)]
    <3>1. call'[c].pc = "idle" /\ call'[c].req = call[c].req /\ call'[c].accepted = a
      BY <1>0, <2>2, WonType
    <3>2. True(call[c].req, a)
      <4>1. /\ a.unit = call[c].req.unit /\ a.func = call[c].req.func
            /\ call[c].req.func = "write" => a.qty = call[c].req.qty
            /\ Executes(a.form)
            /\ a.form = "own" => call[c].req.func = "write"
        BY <1>0, <2>2, VerdictNone
      <4>2. Own(call[c].req).form = "own"
        BY DEF Own
      <4>3. QED BY <1>2, <4>1, <4>2 DEF Ran
    <3> HIDE DEF True
    <3>3. QED BY <3>1, <3>2
  <2>3. QED BY <1>0, <1>2, <2>1, <2>2, JudgeEffect
<1>3. ASSUME NEW p \in Places \ {"read", "collect"}, GoOn(c, p)
      PROVE  Goal
  <2>1. call' = [call EXCEPT ![c].pc = p]
    BY <1>0, <1>3, GoOnEffect
  <2>2. call'[c].pc = p /\ call'[c].result = "pending"
    BY <1>0, <1>p, <2>1 DEF CallRecord
  <2>3. QED BY <2>2
<1> SUFFICES Goal
  OBVIOUS
<1> HIDE DEF Goal
<1>4. CASE Enter(c)
  <2>1. CASE Begun(c)
    <3>1. PICK p \in {"connect", "flush"} : call' = [call EXCEPT ![c].pc = p]
      BY <1>0, <2>1, BegunEffect
    <3>2. call'[c].pc = p /\ call'[c].result = "pending"
      BY <1>0, <1>p, <3>1 DEF CallRecord
    <3>3. QED BY <3>2 DEF Goal
  <2>2. QED BY <1>1, <1>4, <2>1 DEF Enter
<1>5. CASE Connect(c) \/ WriteStr(c) \/ Raises(c) \/ SendAll(c) \/ SendSome(c) \/ SendFails(c)
           \/ NoData(c)
  <2>1. \/ Fail(c)
        \/ \E p \in {"flush", "resend", "wait", "reconnect", "again"} : GoOn(c, p)
    BY <1>5 DEF Connect, WriteStr, Raises, SendAll, SendSome, SendFails, NoData
  <2>2. {"flush", "resend", "wait", "reconnect", "again"} \subseteq Places \ {"read", "collect"}
    BY DEF Places
  <2>3. QED BY <1>1, <1>3, <2>1, <2>2
<1>6. CASE Flush(c)
  <2>1. \E d, f : call' = [call EXCEPT ![c].pc = "write", ![c].dataout = d, ![c].flushed = f]
    BY <1>6 DEF Flush
  <2>2. PICK d, f : call' = [call EXCEPT ![c].pc = "write", ![c].dataout = d, ![c].flushed = f]
    BY <2>1
  <2>3. call' = [call EXCEPT ![c] = [call[c] EXCEPT !.pc = "write", !.dataout = d, !.flushed = f]]
    BY <1>0, <2>2 DEF CallRecord
  <2>4. call'[c].pc = "write" /\ call'[c].result = "pending"
    BY <1>0, <1>p, <2>3 DEF CallRecord
  <2>5. QED BY <2>4 DEF Goal
<1>7. CASE Count(c)
  <2>1. \E m : call' = [call EXCEPT ![c].pc = IF m = 0 THEN "collect" ELSE "read",
                                    ![c].cnt = m, ![c].dataout = << >>]
    BY <1>7 DEF Count
  <2>2. PICK m : call' = [call EXCEPT ![c].pc = IF m = 0 THEN "collect" ELSE "read",
                                      ![c].cnt = m, ![c].dataout = << >>]
    BY <2>1
  <2>3. PICK p \in {"collect", "read"} :
          call' = [call EXCEPT ![c].pc = p, ![c].cnt = m, ![c].dataout = << >>]
    BY <2>2
  <2>4. call' = [call EXCEPT ![c] = [call[c] EXCEPT !.pc = p, !.cnt = m, !.dataout = << >>]]
    BY <1>0, <2>3 DEF CallRecord
  <2>5. call'[c].result = "pending" /\ call'[c].dataout = << >>
    BY <1>0, <1>p, <2>4 DEF CallRecord
  <2>6. QED BY <2>5 DEF Goal
<1>8. CASE ReadStr(c)
  <2>1. PICK m \in 0 .. arrived :
          /\ call' = [call EXCEPT ![c].pc = "collect", ![c].dataout = SubSeq(pipe, 1, m)]
          /\ Read(m)
    <3> DEFINE m == IF call[c].cnt < arrived THEN call[c].cnt ELSE arrived
    <3>1. m \in 0 .. arrived
      BY <1>0
    <3>2. /\ call' = [call EXCEPT ![c].pc = "collect", ![c].dataout = SubSeq(pipe, 1, m)]
          /\ Read(m)
      BY <1>8 DEF ReadStr
    <3> HIDE DEF m
    <3>3. QED BY <3>1, <3>2
  <2> DEFINE d == SubSeq(pipe, 1, m)
  <2>2. \A k \in 1 .. Len(d) : Ran(d[k].ans)
    BY <1>r, <2>1, ReadParts
  <2>3. call' = [call EXCEPT ![c].pc = "collect", ![c].dataout = d]
    BY <2>1
  <2> HIDE DEF d
  <2>4. call' = [call EXCEPT ![c] = [call[c] EXCEPT !.pc = "collect", !.dataout = d]]
    BY <1>0, <2>3 DEF CallRecord
  <2>5. call'[c].result = "pending" /\ call'[c].dataout = d
    BY <1>0, <1>p, <2>4 DEF CallRecord
  <2>6. QED BY <2>2, <2>5 DEF Goal
<1>9. CASE Collect(c)
  <2> DEFINE e == SubSeq(pipe, 1, arrived)
             d == call[c].dataout \o e
  <2>1. at(c) = "collect" /\ Read(arrived)
    BY <1>9 DEF Collect
  <2>2. arrived \in 0 .. arrived /\ e \in Seq(Part)
    BY <1>0
  <2>3. \A k \in 1 .. Len(e) : Ran(e[k].ans)
    BY <1>r, <2>1, <2>2, ReadParts
  <2>4. \E j : call' = [call EXCEPT ![c].dataout = d, ![c].i = j]
    BY <1>0, <1>9 DEF Collect
  <2> HIDE DEF e
  <2>5. \A k \in 1 .. Len(d) :
          \/ k \in 1 .. Len(call[c].dataout) /\ d[k] = call[c].dataout[k]
          \/ /\ k - Len(call[c].dataout) \in 1 .. Len(e)
             /\ d[k] = e[k - Len(call[c].dataout)]
    BY <1>0, <2>2, Joined
  <2> HIDE DEF d
  <2>6. PICK j : call' = [call EXCEPT ![c].dataout = d, ![c].i = j]
    BY <2>4
  <2>7. call' = [call EXCEPT ![c] = [call[c] EXCEPT !.dataout = d, !.i = j]]
    BY <1>0, <2>6 DEF CallRecord
  <2>8. call'[c].result = "pending" /\ call'[c].dataout = d
    BY <1>0, <1>p, <2>7 DEF CallRecord
  <2>9. \A k \in 1 .. Len(d) : Ran(d[k].ans)
    BY <1>r, <2>1, <2>3, <2>5
  <2>10. QED BY <2>8, <2>9 DEF Goal
<1>10. CASE Collected(c)
  <2>1. CASE CrcIsRight(call[c].dataout) /\ Judge(c, call[c].dataout[1].ans)
    <3>1. call[c].dataout[1] \in Part /\ 1 \in 1 .. Len(call[c].dataout)
      BY <1>0, <2>1 DEF CrcIsRight
    <3>2. call[c].dataout[1].ans \in Accepted
      BY <3>1, AnswerAccepted DEF Part
    <3>3. Ran(call[c].dataout[1].ans)
      BY <1>r, <1>10, <3>1 DEF Collected
    <3>4. QED BY <1>2, <2>1, <3>2, <3>3
  <2>2. QED BY <1>1, <1>10, <2>1 DEF Collected
<1>11. CASE Receive(c)
  <2>1. pipe[1] \in Part /\ 1 \in 1 .. Len(pipe)
    BY <1>0, <1>11 DEF Receive
  <2>2. pipe[1].ans \in Accepted
    BY <2>1, AnswerAccepted DEF Part
  <2>3. Ran(pipe[1].ans)
    BY <1>r, <2>1
  <2>4. QED BY <1>1, <1>2, <1>11, <2>2, <2>3 DEF Receive
<1>12. CASE OwnRequest(c)
  BY <1>0, <1>2, <1>12, OwnAccepted DEF OwnRequest
<1>13. QED
  BY <1>4, <1>5, <1>6, <1>7, <1>8, <1>9, <1>10, <1>11, <1>12 DEF Inside

LEMMA RunInside ==
  ASSUME TypeOK, SectionInv, RunInv, NEW c \in Callers, Inside(c), FModbusTCP' = FModbusTCP
  PROVE  RunInv'
<1>0. /\ call \in [Callers -> CallRecord] /\ call[c].req \in Request
      /\ toSlave \in Seq(Request)
  BY TypeParts DEF CallRecord
<1>1. /\ ran' = ran
      /\ \A k \in 1 .. Len(pipe') : \E j \in 1 .. Len(pipe) : pipe'[k] = pipe[j]
      /\ \/ /\ toSlave' = toSlave \/ toSlave' = << >>
            /\ call'[c].pc \in BeforeSend => at(c) \in BeforeSend
         \/ /\ at(c) \in BeforeSend /\ call'[c].pc \notin BeforeSend
            /\ toSlave' = Append(toSlave, call[c].req)
  BY InsideLine
<1>2. /\ \A d \in Callers \ {c} : call'[d] = call[d]
      /\ at(c) # "idle" /\ call'[c].req.id = call[c].req.id
  BY InsideEffect
<1>3. \A d \in Callers : call'[d].req.id = call[d].req.id
  BY <1>2
<1>4. \A i : Known(i) => Known(i)'
  BY <1>3 DEF Known
<1>5. Known(call[c].req.id)
  BY <1>0 DEF Known, Request, Ids
<1>6. at(c) \in BeforeSend => Unsent(call[c].req.id)
  BY DEF RunInv, CallRan
<1>7. LineRan'
  <2>1. \A k \in 1 .. Len(pipe') : Executes(pipe'[k].ans.form) => ran'[pipe'[k].ans.id] = 1
    BY <1>1 DEF RunInv, LineRan, Ran
  <2>2. CASE toSlave' = toSlave \/ toSlave' = << >>
    <3>1. \A k \in 1 .. Len(toSlave') :
            /\ ran'[toSlave'[k].id] = 0
            /\ \E d \in Callers : toSlave'[k].id <= call'[d].req.id
      BY <1>1, <1>3, <2>2 DEF RunInv, LineRan, Known
    <3>2. \A j, k \in 1 .. Len(toSlave') : j # k => toSlave'[j].id # toSlave'[k].id
      BY <2>2 DEF RunInv, LineRan
    <3>3. QED BY <2>1, <3>1, <3>2 DEF LineRan, Known, Ran, Executes
  <2>3. CASE at(c) \in BeforeSend /\ toSlave' = Append(toSlave, call[c].req)
    <3>1. /\ Len(toSlave') = Len(toSlave) + 1 /\ toSlave'[Len(toSlave) + 1] = call[c].req
          /\ \A k \in 1 .. Len(toSlave) : toSlave'[k] = toSlave[k]
      BY <1>0, <2>3
    <3>2. \A k \in 1 .. Len(toSlave) : /\ ran[toSlave[k].id] = 0 /\ Known(toSlave[k].id)
                                       /\ toSlave[k].id # call[c].req.id
      BY <1>6, <2>3 DEF RunInv, LineRan, Unsent
    <3>3. \A k \in 1 .. Len(toSlave') : \/ k \in 1 .. Len(toSlave) /\ toSlave'[k] = toSlave[k]
                                        \/ k = Len(toSlave) + 1 /\ toSlave'[k] = call[c].req
      BY <1>0, <3>1
    <3>4. \A k \in 1 .. Len(toSlave') :
            /\ ran'[toSlave'[k].id] = 0
            /\ \E d \in Callers : toSlave'[k].id <= call'[d].req.id
      BY <1>1, <1>3, <1>5, <1>6, <2>3, <3>2, <3>3 DEF Unsent, Known
    <3>5. \A j, k \in 1 .. Len(toSlave') : j # k => toSlave'[j].id # toSlave'[k].id
      BY <3>2, <3>3 DEF RunInv, LineRan
    <3>6. QED BY <2>1, <3>4, <3>5 DEF LineRan, Known, Ran, Executes
  <2>4. QED BY <1>1, <2>2, <2>3
<1>8. NumbersInv'
  BY <1>1, <1>2, <1>3, <1>4 DEF RunInv, NumbersInv, at
<1>9. ASSUME NEW d \in Callers PROVE CallRan(d)'
  <2>1. CASE d = c
    <3>1. call'[c].pc \in BeforeSend =>
            /\ ran'[call'[c].req.id] = 0
            /\ \A k \in 1 .. Len(toSlave') : toSlave'[k].id # call'[c].req.id
      BY <1>1, <1>2, <1>6 DEF Unsent
    <3>2. call'[c].pc \in {"read", "collect"} =>
            \A k \in 1 .. Len(call'[c].dataout) :
              Executes(call'[c].dataout[k].ans.form) => ran'[call'[c].dataout[k].ans.id] = 1
      BY <1>1, InsideData DEF Ran
    <3>3. Truthful(c)'
      BY <1>1, InsideData DEF Truthful, Own
    <3>4. QED BY <2>1, <3>1, <3>2, <3>3 DEF CallRan, Unsent, Ran, Executes, at
  <2>2. CASE d # c
    <3>1. call'[d] = call[d] /\ call[c].req.id # call[d].req.id
      BY <1>2, <2>2 DEF RunInv, NumbersInv
    <3>2. CallRan(d)
      BY DEF RunInv
    <3>3. Unsent(call[d].req.id) =>
            /\ ran'[call[d].req.id] = 0
            /\ \A k \in 1 .. Len(toSlave') : toSlave'[k].id # call[d].req.id
      <4>1. CASE toSlave' = toSlave \/ toSlave' = << >>
        BY <1>1, <4>1 DEF Unsent
      <4>2. CASE toSlave' = Append(toSlave, call[c].req)
        BY <1>0, <1>1, <3>1, <4>2 DEF Unsent
      <4>3. QED BY <1>1, <4>1, <4>2
    <3>4. Truthful(d)'
      BY <1>1, <3>1, <3>2 DEF CallRan, Truthful, Own
    <3>5. call'[d].pc \in {"read", "collect"} =>
            \A k \in 1 .. Len(call'[d].dataout) :
              Executes(call'[d].dataout[k].ans.form) => ran'[call'[d].dataout[k].ans.id] = 1
      BY <1>1, <3>1, <3>2 DEF CallRan, Ran, at
    <3>6. QED BY <3>1, <3>2, <3>3, <3>4, <3>5 DEF CallRan, Unsent, at, Ran, Executes
  <2>3. QED BY <2>1, <2>2
<1>10. QED BY <1>7, <1>8, <1>9 DEF RunInv

LEMMA Numbers ==
  ASSUME TypeOK
  PROVE  /\ \A k \in 1 .. Len(toSlave) : toSlave[k].id \in Ids
         /\ \A k \in 1 .. Len(pipe) : pipe[k].ans.id \in Ids
         /\ \A c \in Callers :
              /\ call[c].req.id \in Ids /\ call[c].accepted.id \in Ids
              /\ \A k \in 1 .. Len(call[c].dataout) : call[c].dataout[k].ans.id \in Ids
         /\ Ids \subseteq Nat
<1>0. toSlave \in Seq(Request) /\ pipe \in Seq(Part) /\ call \in [Callers -> CallRecord]
  BY TypeParts
<1>1. \A r \in Request : r.id \in Ids
  BY DEF Request
<1>2. \A p \in Part : p.ans.id \in Ids
  BY DEF Part, Answer
<1>3. \A k \in 1 .. Len(toSlave) : toSlave[k] \in Request
  BY <1>0
<1>4. \A k \in 1 .. Len(pipe) : pipe[k] \in Part
  BY <1>0
<1>5. ASSUME NEW c \in Callers
      PROVE  /\ call[c].req.id \in Ids /\ call[c].accepted.id \in Ids
             /\ \A k \in 1 .. Len(call[c].dataout) : call[c].dataout[k].ans.id \in Ids
  <2>1. call[c].req \in Request /\ call[c].accepted \in Accepted /\ call[c].dataout \in Seq(Part)
    BY <1>0 DEF CallRecord
  <2>2. \A k \in 1 .. Len(call[c].dataout) : call[c].dataout[k] \in Part
    BY <2>1
  <2>3. QED BY <1>1, <1>2, <2>1, <2>2 DEF Accepted
<1>6. QED BY <1>1, <1>2, <1>3, <1>4, <1>5 DEF Ids

LEMMA RunCall ==
  ASSUME TypeOK, RunInv, NEW c \in Callers, NEW u \in Units, NEW f \in Functions,
         NEW q \in Quantities, Call(c, u, f, q), FModbusTCP' = FModbusTCP
  PROVE  RunInv'
<1>0. toSlave \in Seq(Request) /\ Latest \in Nat /\ MaxCalls \in Nat
      /\ \A d \in Callers : call[d].req.id \in Nat /\ call[d].req.id <= Latest
  BY TypeParts, LatestIsLatest, PduAssumption DEF CallRecord, Request, Ids
<1>1. /\ call'[c].req.id = Latest + 1 /\ call'[c].pc = "enter" /\ call'[c].result = "pending"
      /\ \A d \in Callers \ {c} : call'[d] = call[d]
      /\ UNCHANGED <<toSlave, pipe, ran>>
      /\ Latest + 1 \in Ids
  <2>1. Latest + 1 \in Ids /\ UNCHANGED <<toSlave, pipe, ran>>
    BY <1>0 DEF Call, line, Ids
  <2>2. QED BY <1>0, <2>1, CallEffect
<1>2. ASSUME NEW i \in Nat, Known(i)
      PROVE  i <= Latest /\ \E d \in Callers : i <= call'[d].req.id
  <2>1. PICK d \in Callers : i <= call[d].req.id
    BY <1>2 DEF Known
  <2>2. i <= Latest
    BY <1>0, <2>1
  <2>3. i <= call'[c].req.id
    BY <1>0, <1>1, <2>2
  <2>4. QED BY <2>2, <2>3
<1>3. \A k \in 1 .. Len(toSlave) : toSlave[k].id \in Nat
  BY Numbers
<1>4. LineRan'
  <2>1. \A k \in 1 .. Len(toSlave) : \E d \in Callers : toSlave[k].id <= call'[d].req.id
    BY <1>2, <1>3 DEF RunInv, LineRan
  <2>2. QED BY <1>1, <2>1 DEF RunInv, LineRan, Known, Ran, Executes
<1>5. NumbersInv'
  <2>1. ASSUME NEW i \in Ids, ran'[i] # 0
        PROVE  \E d \in Callers : i <= call'[d].req.id
    BY <1>1, <1>2, <2>1 DEF RunInv, NumbersInv, Ids
  <2>2. ASSUME NEW d \in Callers, NEW e \in Callers, d # e, call'[d].pc # "idle"
        PROVE  call'[d].req.id # call'[e].req.id
    <3>1. CASE d = c \/ e = c
      BY <1>0, <1>1, <2>2, <3>1
    <3>2. CASE d # c /\ e # c
      BY <1>1, <2>2, <3>2 DEF RunInv, NumbersInv, at
    <3>3. QED BY <3>1, <3>2
  <2>3. QED BY <2>1, <2>2 DEF NumbersInv, Known, at, Ids
<1>6. ASSUME NEW d \in Callers PROVE CallRan(d)'
  <2>1. CASE d = c
    <3>1. ran[Latest + 1] = 0
      <4>1. ~Known(Latest + 1)
        BY <1>0, <1>2
      <4>2. QED BY <1>1, <4>1 DEF RunInv, NumbersInv
    <3>2. \A k \in 1 .. Len(toSlave) : toSlave[k].id # Latest + 1
      BY <1>0, <1>2, <1>3 DEF RunInv, LineRan
    <3>3. QED BY <1>1, <2>1, <3>1, <3>2 DEF CallRan, Unsent, Truthful, at, BeforeSend
  <2>2. CASE d # c
    BY <1>1, <2>2 DEF RunInv, CallRan, Unsent, Truthful, Ran, Executes, Own, at
  <2>3. QED BY <2>1, <2>2
<1>7. QED BY <1>4, <1>5, <1>6 DEF RunInv

\* A slave takes the first request and executes it, or does not.
LEMMA SlaveTakes ==
  ASSUME TypeOK, RunInv, toSlave # << >>, toSlave' = Tail(toSlave),
         ran' \in {ran, [ran EXCEPT ![Head(toSlave).id] = @ + 1]},
         UNCHANGED <<call, FModbusTCP>>
  PROVE  /\ \A k \in 1 .. Len(pipe) : Executes(pipe[k].ans.form) => ran'[pipe[k].ans.id] = 1
         /\ ran' # ran => ran'[Head(toSlave).id] = 1
         /\ (\A k \in 1 .. Len(pipe') : Executes(pipe'[k].ans.form) => ran'[pipe'[k].ans.id] = 1)
              => RunInv'
<1>0. toSlave \in Seq(Request) /\ pipe \in Seq(Part) /\ ran \in [Ids -> Nat]
      /\ call \in [Callers -> CallRecord]
  BY TypeParts
<1> DEFINE h == Head(toSlave).id
<1>1. h \in Ids /\ h = toSlave[1].id /\ 1 \in 1 .. Len(toSlave)
  BY <1>0, Numbers
<1>2. ran[h] = 0 /\ Known(h)
  BY <1>1 DEF RunInv, LineRan
<1>3. ran'[h] \in {0, 1} /\ (ran' # ran => ran'[h] = 1)
  BY <1>0, <1>1, <1>2
<1>4. \A i \in Ids : i # h => ran'[i] = ran[i]
  BY <1>0
<1>5. \A i \in Ids : ran[i] = 1 => ran'[i] = 1
  BY <1>2, <1>4
<1>6. /\ Len(toSlave') = Len(toSlave) - 1
      /\ \A k \in 1 .. Len(toSlave') : k + 1 \in 1 .. Len(toSlave) /\ toSlave'[k] = toSlave[k + 1]
  BY <1>0
<1> HIDE DEF h
<1>7. \A k \in 1 .. Len(toSlave') : toSlave'[k].id # h /\ toSlave'[k].id \in Ids
  <2>1. ASSUME NEW k \in 1 .. Len(toSlave')
        PROVE  toSlave'[k].id # h /\ toSlave'[k].id \in Ids
    <3>1. k + 1 \in 1 .. Len(toSlave) /\ k + 1 # 1 /\ toSlave'[k] = toSlave[k + 1]
      BY <1>6
    <3>2. QED BY <1>1, <3>1, Numbers DEF RunInv, LineRan
  <2>2. QED BY <2>1
<1>8. \A k \in 1 .. Len(pipe) : Executes(pipe[k].ans.form) => ran'[pipe[k].ans.id] = 1
  BY <1>5, Numbers DEF RunInv, LineRan, Ran
<1>9. ASSUME \A k \in 1 .. Len(pipe') : Executes(pipe'[k].ans.form) => ran'[pipe'[k].ans.id] = 1
      PROVE  RunInv'
  <2>1. LineRan'
    <3>1. \A k \in 1 .. Len(toSlave') : ran'[toSlave'[k].id] = 0 /\ Known(toSlave'[k].id)
      BY <1>4, <1>6, <1>7 DEF RunInv, LineRan
    <3>2. \A j, k \in 1 .. Len(toSlave') : j # k => toSlave'[j].id # toSlave'[k].id
      BY <1>0, <1>6 DEF RunInv, LineRan
    <3>3. QED BY <1>9, <3>1, <3>2 DEF LineRan, Known, Ran, Executes
  <2>2. NumbersInv'
    <3>1. \A i \in Ids : ran'[i] # 0 => Known(i)
      BY <1>2, <1>4 DEF RunInv, NumbersInv
    <3>2. QED BY <3>1 DEF RunInv, NumbersInv, Known, at, Ids
  <2>3. ASSUME NEW d \in Callers PROVE CallRan(d)'
    <3>0. /\ call[d].req.id \in Ids /\ call[d].accepted.id \in Ids
          /\ \A k \in 1 .. Len(call[d].dataout) : call[d].dataout[k].ans.id \in Ids
      BY Numbers
    <3>1. CallRan(d)
      BY DEF RunInv
    <3>2. Unsent(call[d].req.id) =>
            /\ ran'[call[d].req.id] = 0
            /\ \A k \in 1 .. Len(toSlave') : toSlave'[k].id # call[d].req.id
      BY <1>1, <1>4, <1>6, <3>0 DEF Unsent
    <3>3. at(d) \in {"read", "collect"} =>
            \A k \in 1 .. Len(call[d].dataout) :
              Executes(call[d].dataout[k].ans.form) => ran'[call[d].dataout[k].ans.id] = 1
      BY <1>5, <3>0, <3>1 DEF CallRan, Ran
    <3>4. Truthful(d)'
      BY <1>5, <3>0, <3>1 DEF CallRan, Truthful, Own
    <3>5. QED BY <3>1, <3>2, <3>3, <3>4 DEF CallRan, Unsent, Ran, Executes, at
  <2>4. QED BY <2>1, <2>2, <2>3 DEF RunInv
<1>10. QED BY <1>3, <1>8, <1>9 DEF h

LEMMA RunEnvironment ==
  ASSUME TypeOK, RunInv, Environment, FModbusTCP' = FModbusTCP
  PROVE  RunInv'
<1>0. toSlave \in Seq(Request) /\ pipe \in Seq(Part) /\ ran \in [Ids -> Nat]
  BY TypeParts
<1>1. ASSUME NEW form \in Forms, SlaveAnswers(form)
      PROVE  RunInv'
  <2> DEFINE a == AnswerTo(Head(toSlave), form)
             fr == Frame(a)
  <2>1. /\ toSlave # << >> /\ toSlave' = Tail(toSlave) /\ pipe' = pipe \o fr /\ UNCHANGED call
        /\ ran' = IF Executes(form) THEN [ran EXCEPT ![Head(toSlave).id] = @ + 1] ELSE ran
    BY <1>1 DEF SlaveAnswers
  <2>2. Head(toSlave) \in Request
    BY <1>0, <2>1
  <2>3. a \in Answer /\ a.id = Head(toSlave).id /\ a.form = form
    BY <2>2, AnswerToType DEF AnswerTo
  <2> HIDE DEF a
  <2>4. /\ fr \in Seq(Part) /\ Len(fr) = 2 /\ fr[1].ans = a /\ fr[2].ans = a
    BY <2>3, FrameType
  <2> HIDE DEF fr
  <2>5. \A k \in 1 .. Len(pipe') : \/ k \in 1 .. Len(pipe) /\ pipe'[k] = pipe[k]
                                   \/ pipe'[k].ans = a
    <3>1. \A k \in 1 .. Len(fr) : fr[k].ans = a
      BY <2>4
    <3>2. \A k \in 1 .. Len(pipe \o fr) :
            \/ k \in 1 .. Len(pipe) /\ (pipe \o fr)[k] = pipe[k]
            \/ k - Len(pipe) \in 1 .. Len(fr) /\ (pipe \o fr)[k] = fr[k - Len(pipe)]
      BY <1>0, <2>4, Joined
    <3>3. QED BY <2>1, <3>1, <3>2
  <2>6. ran' \in {ran, [ran EXCEPT ![Head(toSlave).id] = @ + 1]}
    BY <2>1
  <2>7. /\ \A k \in 1 .. Len(pipe) : Executes(pipe[k].ans.form) => ran'[pipe[k].ans.id] = 1
        /\ ran' # ran => ran'[Head(toSlave).id] = 1
        /\ (\A k \in 1 .. Len(pipe') : Executes(pipe'[k].ans.form) => ran'[pipe'[k].ans.id] = 1)
             => RunInv'
    BY <2>1, <2>6, SlaveTakes
  <2>8. Executes(form) => ran'[a.id] = 1
    <3>1. Head(toSlave).id \in Ids
      BY <2>2 DEF Request
    <3>2. Executes(form) => ran' # ran
      BY <1>0, <2>1, <3>1
    <3>3. QED BY <2>3, <2>7, <3>2
  <2>9. \A k \in 1 .. Len(pipe') : Executes(pipe'[k].ans.form) => ran'[pipe'[k].ans.id] = 1
    BY <2>3, <2>5, <2>7, <2>8
  <2>10. QED BY <2>7, <2>9
<1>2. CASE SlaveIsSilent
  <2>1. /\ toSlave # << >> /\ toSlave' = Tail(toSlave) /\ UNCHANGED <<call, pipe>>
        /\ ran' \in {ran, [ran EXCEPT ![Head(toSlave).id] = @ + 1]}
    BY <1>2 DEF SlaveIsSilent
  <2>2. QED BY <2>1, SlaveTakes
<1>3. CASE Arrive \/ PeerCloses \/ PeerResets
  <2>1. /\ UNCHANGED <<call, ran, FModbusTCP>> /\ toSlave' \in {toSlave, << >>}
        /\ pipe' \in {pipe, << >>}
    BY <1>3 DEF Arrive, PeerCloses, PeerResets
  <2>2. LineRan'
    BY <2>1 DEF RunInv, LineRan, Known, Ran, Executes
  <2>3. NumbersInv'
    BY <2>1 DEF RunInv, NumbersInv, Known, at, Ids
  <2>4. ASSUME NEW d \in Callers PROVE CallRan(d)'
    BY <2>1 DEF RunInv, CallRan, Unsent, Truthful, Ran, Executes, Own, at
  <2>5. QED BY <2>2, <2>3, <2>4 DEF RunInv
<1>4. QED BY <1>1, <1>2, <1>3 DEF Environment

LEMMA RunStep == TypeOK /\ SectionInv /\ RunInv /\ [Next]_vars => RunInv'
<1> SUFFICES ASSUME TypeOK, SectionInv, RunInv, [Next]_vars PROVE RunInv'
  OBVIOUS
<1>1. CASE UNCHANGED vars
  <2>1. UNCHANGED <<call, ran, FModbusTCP, toSlave, pipe>>
    BY <1>1 DEF vars, line
  <2>2. LineRan'
    BY <2>1 DEF RunInv, LineRan, Known, Ran, Executes
  <2>3. NumbersInv'
    BY <2>1 DEF RunInv, NumbersInv, Known, at, Ids
  <2>4. ASSUME NEW d \in Callers PROVE CallRan(d)'
    BY <2>1 DEF RunInv, CallRan, Unsent, Truthful, Ran, Executes, Own, at
  <2>5. QED BY <2>2, <2>3, <2>4 DEF RunInv
<1>2. QED BY <1>1, RunCall, RunInside, RunEnvironment DEF Next

LEMMA RanStays ==
  ASSUME NEW c \in Callers, Inside(c)
  PROVE  ran' = ran
BY DEF Inside, Enter, Connect, Flush, WriteStr, Raises, Count, ReadStr, Collect, Collected,
   SendAll, SendSome, SendFails, Receive, NoData, OwnRequest

LEMMA RunInit == Init => RunInv
<1> SUFFICES ASSUME Init PROVE RunInv
  OBVIOUS
<1>1. LineRan
  BY DEF Init, LineRan
<1>2. NumbersInv
  BY DEF Init, NumbersInv, NoCall, at
<1>3. ASSUME NEW c \in Callers PROVE CallRan(c)
  BY DEF Init, CallRan, Truthful, NoCall, at, BeforeSend
<1>4. QED BY <1>1, <1>2, <1>3 DEF RunInv

\* A call of the client that succeeds hands over an answer of the slave and function
\* it asked for, to a request executed exactly once, except that a write over a lost
\* connection may be handed its own request (TModbus.Send, SendTCP,
\* ReadHoldingRegisters, WriteMultipleRegisters).
THEOREM SuccessIsTrue == Spec => []SuccessIsAnswer
<1>1. RunInv => SuccessIsAnswer
  BY DEF RunInv, CallRan, Truthful, SuccessIsAnswer
<1>2. QED BY <1>1, RunInit, RunStep, TypeCorrect, OneInside, PTL DEF Spec

\* No request of the client is executed twice, though a write over a connection that
\* turns out to be lost is made again over a new one (TModbus.SendTCP): a request
\* on its way was not executed yet, and no second one with its number is.
THEOREM ClientRunsOnce == Spec => []ExecutedOnce
<1>1. Init => ExecutedOnce
  BY DEF Init, ExecutedOnce
<1>2. TypeOK /\ RunInv /\ ExecutedOnce /\ [Next]_vars => ExecutedOnce'
  <2> SUFFICES ASSUME TypeOK, RunInv, ExecutedOnce, [Next]_vars PROVE ExecutedOnce'
    OBVIOUS
  <2>1. ran \in [Ids -> Nat] /\ toSlave \in Seq(Request)
    BY TypeParts
  <2>2. ASSUME toSlave # << >>, ran' = [ran EXCEPT ![Head(toSlave).id] = @ + 1]
        PROVE  ExecutedOnce'
    <3>1. 1 \in 1 .. Len(toSlave) /\ Head(toSlave) = toSlave[1]
      BY <2>1, <2>2
    <3>2. ran[Head(toSlave).id] = 0
      BY <3>1 DEF RunInv, LineRan
    <3>3. QED BY <2>1, <2>2, <3>2 DEF ExecutedOnce
  <2>3. CASE \/ \E form \in Forms : SlaveAnswers(form)
             \/ SlaveIsSilent
    <3>1. toSlave # << >> /\ (ran' = ran \/ ran' = [ran EXCEPT ![Head(toSlave).id] = @ + 1])
      BY <2>3 DEF SlaveAnswers, SlaveIsSilent
    <3>2. QED BY <2>2, <3>1 DEF ExecutedOnce
  <2>4. CASE Arrive \/ PeerCloses \/ PeerResets \/ UNCHANGED vars
    BY <2>4 DEF Arrive, PeerCloses, PeerResets, vars, ExecutedOnce
  <2>5. ASSUME NEW c \in Callers, Inside(c) PROVE ExecutedOnce'
    BY <2>5, RanStays DEF ExecutedOnce
  <2>6. ASSUME NEW c \in Callers, NEW u \in Units, NEW f \in Functions, NEW q \in Quantities,
               Call(c, u, f, q)
        PROVE  ExecutedOnce'
    BY <2>6 DEF Call, ExecutedOnce
  <2>7. QED BY <2>3, <2>4, <2>5, <2>6 DEF Next, Environment
<1>3. QED
  BY <1>1, <1>2, RunInit, RunStep, TypeCorrect, OneInside, PTL DEF Spec
=============================================================================
