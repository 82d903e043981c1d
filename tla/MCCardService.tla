---------------------------- MODULE MCCardService ----------------------------
(* CardService with images of two and three bytes, which one and two         *)
(* registers hold; the one of three ends in CR LF, which LineLength = 3 cuts *)
(* off.  The file has the lines "00" and "01": the first names the card that *)
(* is left of it, the other image is not in the file but begins like both.   *)
(* The exit is shown the known card only, and only it is opened for          *)
(* everybody: the thread does the same for both.                             *)
EXTENDS CardService

MCFiles == {<<0, 0, Sep, 0, 1>>}
MCShown == {<<0, 1>>, <<0, CR, LF>>}
MCShownAt == [enter |-> MCShown, exit |-> {<<0, CR, LF>>}]
=============================================================================
