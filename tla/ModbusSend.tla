----------------------------- MODULE ModbusSend ------------------------------
(***************************************************************************)
(* TModbus::Send whichever channel carries it (TurnstileCPP/uModbus.cpp):  *)
(* one TModbus is over TCP or over a serial line for its whole life, as    *)
(* FModbusTCP says, and Send hands every request to SendTCP (ModbusTcp) or *)
(* to SendRTU (ModbusRtu).  What the two have in common is one set of      *)
(* variables; sock is used by the first alone, port and seen by the        *)
(* second.  The promise and the properties of ModbusTcp are checked of     *)
(* both.                                                                   *)
(***************************************************************************)
EXTENDS ModbusTcp

VARIABLES FModbusTCP, port, seen

Rtu == INSTANCE ModbusRtu

sendVars == <<FModbusTCP, vars, port, seen>>

\* The two constructors; the other channel's pointer is not set, and not used.
SendInit ==
    \/ FModbusTCP = TRUE /\ Init /\ port = "null" /\ seen = 0
    \/ FModbusTCP = FALSE /\ Rtu!Init /\ sock = "closed"

SendTCP == FModbusTCP /\ Next /\ UNCHANGED <<FModbusTCP, port, seen>>

SendRTU == ~FModbusTCP /\ Rtu!Next /\ UNCHANGED <<FModbusTCP, sock>>

Send == SendTCP \/ SendRTU

\* The calling thread keeps running, and the time given to the wait for an
\* answer over a serial line ends even if its byte count never stands still.
SendSpec ==
    /\ SendInit /\ [][Send]_sendVars
    /\ WF_sendVars(SendTCP /\ Master)
    /\ WF_sendVars(SendRTU /\ Rtu!Master)
    /\ WF_sendVars(SendRTU /\ Rtu!WaitExpires)

-----------------------------------------------------------------------------
SendTypeOK ==
    /\ FModbusTCP \in BOOLEAN
    /\ IF FModbusTCP THEN TypeOK ELSE Rtu!TypeOK
=============================================================================
