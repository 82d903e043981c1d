----------------------------- MODULE ModbusCall ------------------------------
(***************************************************************************)
(* What TModbus::Send promises its callers, whatever carries the frames.   *)
(* A call is made and later returns.  The slave may run any call made so   *)
(* far, at any time, at most once.  A call that succeeds returns an answer *)
(* to a call that was run, by the slave and the function asked for; a call *)
(* that fails says nothing about whether it was, or still will be, run.    *)
(***************************************************************************)
EXTENDS ModbusPdu

VARIABLES busy, req, result, accepted, runs

vars == <<busy, req, result, accepted, runs>>

Init ==
    /\ busy = FALSE
    /\ req = NoRequest
    /\ result = "pending"
    /\ accepted = NoAnswer
    /\ runs = [i \in Ids |-> 0]

Call ==
    /\ ~busy
    /\ req' \in {r \in Request : r.id = req.id + 1}
    /\ busy' = TRUE
    /\ result' = "pending"
    /\ UNCHANGED <<accepted, runs>>

Run(i) ==
    /\ i \in 1 .. req.id
    /\ runs[i] = 0
    /\ runs' = [runs EXCEPT ![i] = 1]
    /\ UNCHANGED <<busy, req, result, accepted>>

Fail ==
    /\ busy
    /\ busy' = FALSE
    /\ result' \in Errors
    /\ UNCHANGED <<req, accepted, runs>>

\* A write's answer names the number of registers written, a read's does not.
Answers(a) ==
    /\ a.unit = req.unit
    /\ a.func = req.func
    /\ req.func = "write" => a.qty = req.qty
    /\ a.id \in 1 .. req.id
    /\ runs[a.id] = 1

Succeed ==
    /\ busy
    /\ busy' = FALSE
    /\ result' = "merNone"
    /\ accepted' \in {a \in Answer : Answers(a)}
    /\ UNCHANGED <<req, runs>>

\* A call that is refused at once, for want of an open port, is never busy.
Refuse ==
    /\ ~busy
    /\ req' \in {r \in Request : r.id = req.id + 1}
    /\ result' = "merCantOpenPort"
    /\ UNCHANGED <<busy, accepted, runs>>

Next == Call \/ Fail \/ Succeed \/ Refuse \/ \E i \in Ids : Run(i)

Spec == Init /\ [][Next]_vars
=============================================================================
