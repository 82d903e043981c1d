------------------------------- MODULE TfmMain -------------------------------
(***************************************************************************)
(* The two ways a TfmMain (TurnstileCPP/uMain.cpp) is put to use: a        *)
(* service thread searches for its device (StartFirstRTU, StartFirstTCP;   *)
(* Discovery), or a client of the library opens one at a known address     *)
(* (StartRTU, StartTCP) and sets and reads its registers (Controller).     *)
(* The variables of the way that is not taken keep their first values.     *)
(***************************************************************************)
EXTENDS Discovery, Controller

VARIABLE searching   \* which of the two this is

MainInit ==
    /\ searching \in BOOLEAN
    /\ Init /\ ClientInit
    /\ ~searching => addr = 0 /\ online = {}

SearchStep == searching /\ Next /\ UNCHANGED <<searching, client>>

ClientStep == ~searching /\ ClientNext /\ UNCHANGED <<searching, vars>>

MainNext == SearchStep \/ ClientStep

\* The thread runs; nothing is assumed of the devices, or of the client.
MainSpec ==
    /\ MainInit /\ [][MainNext]_<<searching, vars, client>>
    /\ WF_<<searching, vars, client>>(SearchStep /\ Thread)
=============================================================================
