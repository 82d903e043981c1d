------------------------------- MODULE Channel -------------------------------
(***************************************************************************)
(* The channel of a TfmMain (ChnlType in TurnstileCPP/uMain.h), and what   *)
(* the models assume of it.                                                *)
(***************************************************************************)
VARIABLES
    channel,  \* "rtu" or "tcp"
    medium    \* "good": it opens, and no call is lost, late or disturbed; "bad"

ChannelTypeOK ==
    /\ channel \in {"rtu", "tcp"}
    /\ medium \in {"good", "bad"}
=============================================================================
