------------------------------- MODULE TModbus -------------------------------
(***************************************************************************)
(* The class TModbus in its two libraries, each over each of its channels: *)
(* that of the C++ service, which one thread calls (ModbusSend), and that  *)
(* of the Delphi client, which two threads call (DelphiModbus).  Its       *)
(* channel and the line are the same variables in both.                    *)
(***************************************************************************)
EXTENDS ModbusSend

CONSTANT Tries  \* further reads of the client's SendRTU, 5 in the code

ASSUME TriesAssumption == Tries \in Nat

VARIABLES library, FSection, call, ran

Delphi == INSTANCE DelphiModbus

delphiVars == <<FSection, call, ran>>
cppVars    == <<pc, req, result, accepted, runs, flushed, port, seen>>
classVars  == <<library, FModbusTCP, sock, toSlave, pipe, arrived, delphiVars, cppVars>>

ClassInit ==
    \/ /\ library = "cpp" /\ SendInit
       /\ FSection = Delphi!Nobody /\ ran = [i \in Ids |-> 0]
       /\ call = [c \in Delphi!Callers |-> Delphi!NoCall]
    \/ /\ library = "delphi" /\ Delphi!Init
       /\ pc = "idle" /\ req = NoRequest /\ result = "pending" /\ accepted = NoAnswer
       /\ runs = [i \in Ids |-> 0] /\ flushed = "all" /\ port = "null" /\ seen = 0

Cpp(step) == library = "cpp" /\ step /\ UNCHANGED <<library, delphiVars>>

OfDelphi(step) == library = "delphi" /\ step /\ UNCHANGED <<library, cppVars>>

ClassNext == Cpp(Send) \/ OfDelphi(Delphi!Next)

\* As SendSpec; and both threads of the client go on.  No thread calls without
\* end, so whoever waits for the section is let in.
ClassSpec ==
    /\ ClassInit /\ [][ClassNext]_classVars
    /\ WF_classVars(Cpp(SendTCP /\ Master))
    /\ WF_classVars(Cpp(SendRTU /\ Rtu!Master))
    /\ WF_classVars(Cpp(SendRTU /\ Rtu!WaitExpires))
    /\ \A c \in Delphi!Callers : WF_classVars(OfDelphi(Delphi!Inside(c) /\ UNCHANGED FModbusTCP))

-----------------------------------------------------------------------------
ClassTypeOK == IF library = "cpp" THEN SendTypeOK ELSE Delphi!TypeOK

\* No request is run twice by the slave, in neither library: a write that failed is
\* made again over a new connection only if nothing of it can have been run.
RunsOnce == NeverRunTwice /\ Delphi!ExecutedOnce

SuccessIsAnswer == Delphi!SuccessIsAnswer
OwnAnswer       == Delphi!OwnAnswer
CallsReturn     == Delphi!CallsReturn
=============================================================================
