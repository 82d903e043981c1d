------------------------------ MODULE ModbusPdu ------------------------------
(***************************************************************************)
(* Requests, answers and the checks TModbus::Send and its two callers make *)
(* on an answer (TurnstileCPP/uModbus.cpp).  A frame is abstracted to what *)
(* those checks look at: the slave, the function code, the number of       *)
(* registers and the form of the body.  The field "id" is a ghost: it says *)
(* which call a frame belongs to.  No such number is on the wire: the TCP  *)
(* transaction identifier is the constant 1, and RTU has none.             *)
(***************************************************************************)
EXTENDS Naturals

CONSTANTS
    Units,       \* slave addresses the calls are made to
    Quantities,  \* register counts of the requests
    Forms,       \* forms an answer's body may have, a subset of AllForms
    MaxCalls     \* bound: number of Send calls in one behaviour

Exceptions == {"exc1", "exc2", "exc3", "exc4", "exc9"}
AllForms   == {"ok", "short", "badlen", "badheader", "corrupt"} \cup Exceptions

ASSUME PduAssumption ==
    /\ Units # {}
    /\ Quantities # {}
    /\ Forms \subseteq AllForms
    /\ MaxCalls \in Nat

\* 3 reads holding registers, 16 writes them; ReadCoilStatus (1) has no caller.
Functions == {"read", "write"}

Ids     == 0 .. MaxCalls
Request == [id : Ids, unit : Units, func : Functions, qty : Quantities]
Answer  == [id : Ids, unit : Units, func : Functions, qty : Quantities,
            form : Forms \cup {"ok"}]

\* Before the first call.
NoRequest == [id |-> 0, unit |-> CHOOSE u \in Units : TRUE, func |-> "read",
              qty |-> CHOOSE q \in Quantities : TRUE]
NoAnswer  == [id |-> 0, unit |-> NoRequest.unit, func |-> "read",
              qty |-> NoRequest.qty, form |-> "ok"]

\* What a slave answers to request r.
AnswerTo(r, form) == [id |-> r.id, unit |-> r.unit, func |-> r.func,
                      qty |-> r.qty, form |-> form]

\* An exception answer is one whose request the slave refused to execute.
Executes(form) == form \notin Exceptions

Errors == {"merCantOpenPort", "merTimeout", "merAddressError", "merFuncError",
           "merCRCError", "merWrongFromLength", "merWrongDataLenFrom",
           "merMBFunctionCode", "merMBDataAddress", "merMBDataValue",
           "merMBFuncExecute"}

\* The exception codes 1..4 have an error each; any other code (here 9) is
\* reported as a timeout.
ExceptionError(form) ==
    CASE form = "exc1" -> "merMBFunctionCode"
      [] form = "exc2" -> "merMBDataAddress"
      [] form = "exc3" -> "merMBDataValue"
      [] form = "exc4" -> "merMBFuncExecute"
      [] OTHER         -> "merTimeout"

\* Send compares the answer with the request: the slave, then the function.
SentVerdict_NoExceptionCheck(r, a) ==
    CASE a.form = "short"   -> "merWrongFromLength"
      [] a.unit # r.unit    -> "merAddressError"
      [] a.func # r.func    -> "merFuncError"
      [] OTHER              -> "merNone"

SentVerdict(r, a) ==
    CASE a.form = "short"   -> "merWrongFromLength"
      [] a.unit # r.unit    -> "merAddressError"
      [] a.func # r.func    -> "merFuncError"
      [] ~Executes(a.form)  -> ExceptionError(a.form)
      [] OTHER              -> "merNone"

\* ReadHoldingRegisters wants the byte count of the answer to agree with its
\* length, but not with the count it asked for.
ReadAccepts(r, a) == a.form # "badlen"

\* WriteMultipleRegisters wants the echoed count to be the one it wrote.
WriteAccepts(r, a) == a.qty = r.qty

CallerVerdict(r, a) ==
    IF \/ r.func = "read"  /\ ReadAccepts(r, a)
       \/ r.func = "write" /\ WriteAccepts(r, a)
    THEN "merNone"
    ELSE "merWrongDataLenFrom"

Verdict(r, a) ==
    IF SentVerdict(r, a) = "merNone" THEN CallerVerdict(r, a)
                                     ELSE SentVerdict(r, a)
=============================================================================
