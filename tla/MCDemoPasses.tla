----------------------------- MODULE MCDemoPasses -----------------------------
(* DemoPasses with cards of one and two bytes: the longer one, cut to the      *)
(* count of the shorter, is the code of the list, and the shorter, filled to   *)
(* the count of the longer, has a blank to trim.                               *)
EXTENDS DemoPasses

MCCards == {<<1>>, <<1, 2>>}
MCCodes == {<<1>>}
=============================================================================
