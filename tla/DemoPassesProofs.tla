--------------------------- MODULE DemoPassesProofs ---------------------------
(***************************************************************************)
(* Theorems about DemoPasses, for every number of turnstiles, every set of *)
(* images and codes, and any number of threads and cards.                  *)
(***************************************************************************)
EXTENDS DemoPasses, TLAPS

(***************************************************************************)
(* Type correctness.  What is not obvious of it: the list never counts     *)
(* below zero, as a code is taken off only after it was found listed, and  *)
(* the list is the thread's own.  For that the type invariant is           *)
(* strengthened by GrantIsListed.                                          *)
(***************************************************************************)
GrantIsListed == at = "grant" => code \in Codes /\ left[code] > 0

LEMMA FollowingIsPlace ==
  ASSUME NEW p \in Places
  PROVE  Following(p) \in Places
BY DemoAssumption DEF Places, Following, Following_Entrance

LEMMA ReaderTypes ==
  ASSUME TypeOK, NextReader
  PROVE  /\ place' \in Places
         /\ at' \in {"round", "flag"}
         /\ count' = 0 /\ code' = << >> /\ guessed' = FALSE
BY FollowingIsPlace DEF NextReader, TypeOK

LEMMA NoneIsList == None \in [Codes -> Nat]
BY DEF None

LEMMA FirstIsPlace == <<1, "enter">> \in Places
BY DemoAssumption DEF Places

LEMMA FormTypes ==
  ASSUME TypeOK, GrantIsListed, Form
  PROVE  TypeOK' /\ GrantIsListed'
<1>1. ASSUME NEW c \in Codes, Edit(c) PROVE TypeOK' /\ GrantIsListed'
  <2>1. shown' \in [Codes -> Nat]
    <3>1. CASE shown' = [shown EXCEPT ![c] = @ + 1]
      BY <3>1 DEF TypeOK
    <3>2. CASE shown[c] > 0 /\ shown' = [shown EXCEPT ![c] = @ - 1]
      BY <3>2 DEF TypeOK
    <3> QED BY <1>1, <3>1, <3>2 DEF Edit
  <2> QED
    BY <1>1, <2>1 DEF Edit, TypeOK, GrantIsListed, lists, card, turnstile, ghosts
<1>2. CASE Start
  <2>1. /\ button' = "disconnect" /\ at' = "round" /\ terminated' = FALSE
        /\ left' = shown /\ given' = shown /\ letIn' = None /\ starts' = starts + 1
    BY <1>2 DEF Start
  <2>2. UNCHANGED <<shown, file, place, used, card, turnstile, presented, uses, lastUse>>
    BY <1>2 DEF Start
  <2>3. letIn' \in [Codes -> Nat]
    BY <2>1, NoneIsList
  <2>4. left' \in [Codes -> Nat] /\ given' \in [Codes -> Nat] /\ starts' \in Nat
    BY <2>1 DEF TypeOK
  <2> QED BY <2>1, <2>2, <2>3, <2>4 DEF TypeOK, GrantIsListed, Stages, card, turnstile
<1>3. CASE Stop
  BY <1>3 DEF Stop, TypeOK, GrantIsListed, lists, card, turnstile, ghosts
<1>4. CASE Reopen
  <2>1. /\ button' = "connect" /\ at' = "ended" /\ place' \in Places
        /\ terminated' = FALSE /\ left' = None /\ used' = << >> /\ given' = None
        /\ letIn' = None /\ count' = 0 /\ guessed' = FALSE /\ lastUse' = file
    BY <1>4, FirstIsPlace DEF Reopen, Forgotten
  <2>2. UNCHANGED <<shown, file, turnstile, starts, presented, uses>>
    BY <1>4 DEF Reopen
  <2>3. /\ left' \in [Codes -> Nat] /\ given' \in [Codes -> Nat]
        /\ letIn' \in [Codes -> Nat]
    BY <2>1, NoneIsList
  <2>4. used' \in Seq(Codes \X Nat) /\ lastUse' \in [Codes -> Nat] /\ count' \in Nat
    BY <2>1 DEF TypeOK
  <2> QED BY <2>1, <2>2, <2>3, <2>4 DEF TypeOK, GrantIsListed, Stages, turnstile
<1> QED BY <1>1, <1>2, <1>3, <1>4 DEF Form

\* What the rest of a turn that goes to the next reader leaves alone.
LEMMA NextReaderTypes ==
  ASSUME TypeOK, NextReader,
         UNCHANGED <<form, file, terminated, lists, turnstile, ghosts>>
  PROVE  TypeOK' /\ GrantIsListed'
<1>1. /\ place' \in Places /\ at' \in {"round", "flag"}
      /\ count' = 0 /\ code' = << >> /\ guessed' = FALSE
  BY ReaderTypes
<1> QED
  BY <1>1 DEF TypeOK, GrantIsListed, Stages, form, lists, turnstile, ghosts

LEMMA ThreadTypes ==
  ASSUME TypeOK, GrantIsListed, Thread
  PROVE  TypeOK' /\ GrantIsListed'
<1>1. CASE BeginRound
  BY <1>1 DEF BeginRound, NextRound, TypeOK, GrantIsListed, Stages, form, lists,
       card, turnstile, ghosts
<1>2. CASE ReadFlag
  <2>1. CASE FlagSeen
    <3>1. count' \in Nat
      BY <2>1, DemoAssumption DEF FlagSeen, TypeOK
    <3> QED BY <1>2, <2>1, <3>1 DEF ReadFlag, FlagSeen, TypeOK, GrantIsListed,
              Stages, form, lists, turnstile, ghosts
  <2> QED BY <1>2, <2>1, NextReaderTypes DEF ReadFlag
<1>3. CASE ReadImage
  BY <1>3 DEF ReadImage, TypeOK, GrantIsListed, Stages, form, lists, ghosts
<1>4. CASE ReadPasses
  <2>1. CASE NextReader
    BY <1>4, <2>1, NextReaderTypes DEF ReadPasses
  <2>2. CASE /\ guessed' = PassesLeft(passes[place])
             /\ IF place[2] = "enter" THEN Judge ELSE at' = "first"
             /\ UNCHANGED <<place, count, code>>
    <3>1. UNCHANGED <<form, file, terminated, lists, turnstile, ghosts>>
      BY <1>4 DEF ReadPasses
    <3>2. at' \in {"first", "grant", "red"} /\ (at' = "grant" => IsListed)
      BY <2>2 DEF Judge
    <3>3. guessed' \in BOOLEAN
      BY <2>2 DEF PassesLeft
    <3> QED BY <2>2, <3>1, <3>2, <3>3 DEF IsListed, TypeOK, GrantIsListed,
              Stages, form, lists, turnstile, ghosts
  <2> QED BY <1>4, <2>1, <2>2 DEF ReadPasses
<1>5. CASE OpenExit
  BY <1>5 DEF OpenExit, SetPass, Judge, IsListed, TypeOK, GrantIsListed, Stages,
       form, lists, card, ghosts
<1>6. CASE Grant
  <2>1. /\ place' \in Places /\ at' \in {"round", "flag"}
        /\ count' = 0 /\ code' = << >> /\ guessed' = FALSE
    BY <1>6, ReaderTypes DEF Grant
  <2>2. code \in Codes /\ left[code] > 0
    BY <1>6 DEF Grant, GrantIsListed
  <2>3. left' \in [Codes -> Nat]
    BY <1>6, <2>2 DEF Grant, TakeOff, TypeOK
  <2>4. used' \in Seq(Codes \X Nat)
    BY <1>6, <2>2 DEF Grant, TypeOK
  <2>5. lastUse' \in [Codes -> Nat] /\ uses' \in Nat /\ letIn' \in [Codes -> Nat]
    BY <1>6, <2>2 DEF Grant, TypeOK
  <2>6. passes' \in [Places -> {0, 1, Free}]
    BY <1>6 DEF Grant, SetPass, TypeOK
  <2> QED BY <1>6, <2>1, <2>3, <2>4, <2>5, <2>6
          DEF Grant, TypeOK, GrantIsListed, Stages, form
<1>7. CASE ShowRed
  BY <1>7, NextReaderTypes DEF ShowRed
<1>8. CASE Save
  <2>1. UNCHANGED <<form, turnstile, starts, presented, uses, lastUse>>
    BY <1>8 DEF Save
  <2>2. CASE used = << >>
    <3>1. /\ at' = "ended" /\ place' \in Places /\ terminated' = FALSE
          /\ left' = None /\ used' = << >> /\ given' = None /\ letIn' = None
          /\ count' = 0 /\ guessed' = FALSE /\ file' = file
      BY <1>8, <2>2, FirstIsPlace DEF Save, Forgotten
    <3>2. /\ left' \in [Codes -> Nat] /\ given' \in [Codes -> Nat]
          /\ letIn' \in [Codes -> Nat]
      BY <3>1, NoneIsList
    <3>3. used' \in Seq(Codes \X Nat) /\ file' \in [Codes -> Nat] /\ count' \in Nat
      BY <3>1 DEF TypeOK
    <3> QED BY <2>1, <3>1, <3>2, <3>3
            DEF TypeOK, GrantIsListed, Stages, form, turnstile
  <2>3. CASE used # << >>
    <3>1. Head(used) \in Codes \X Nat /\ Tail(used) \in Seq(Codes \X Nat)
      BY <2>3 DEF TypeOK
    <3>2. file' \in [Codes -> Nat]
      BY <1>8, <2>3, <3>1 DEF Save, SaveOne, TypeOK
    <3>3. /\ used' = Tail(used)
          /\ UNCHANGED <<at, place, terminated, left, card, given, letIn>>
      BY <1>8, <2>3 DEF Save
    <3> QED BY <2>1, <3>1, <3>2, <3>3 DEF TypeOK, GrantIsListed, form, card, turnstile
  <2> QED BY <2>2, <2>3
<1> QED BY <1>1, <1>2, <1>3, <1>4, <1>5, <1>6, <1>7, <1>8 DEF Thread

LEMMA TypeStep ==
  ASSUME TypeOK, GrantIsListed, [Next]_vars
  PROVE  TypeOK' /\ GrantIsListed'
<1>1. ASSUME NEW p \in Places, NEW c \in Cards, Present(p, c)
      PROVE  TypeOK' /\ GrantIsListed'
  BY <1>1 DEF Present, TypeOK, GrantIsListed, form, lists, card
<1>2. ASSUME NEW p \in Places, NEW n \in {0, Free}, PassesChange(p, n)
      PROVE  TypeOK' /\ GrantIsListed'
  BY <1>2 DEF PassesChange, TypeOK, GrantIsListed, form, lists, card, ghosts
<1>3. CASE UNCHANGED vars
  BY <1>3 DEF vars, TypeOK, GrantIsListed, form, lists, card, turnstile, ghosts
<1> QED BY <1>1, <1>2, <1>3, FormTypes, ThreadTypes DEF Next, Turnstile

LEMMA TypeInit == Init => TypeOK /\ GrantIsListed
<1> SUFFICES ASSUME Init PROVE TypeOK /\ GrantIsListed
  OBVIOUS
<1>1. file \in [Codes -> Nat] /\ lastUse \in [Codes -> Nat]
  BY DEF Init, Never
<1>2. shown \in [Codes -> Nat] /\ left \in [Codes -> Nat]
      /\ given \in [Codes -> Nat] /\ letIn \in [Codes -> Nat]
  BY NoneIsList DEF Init
<1>3. /\ flag \in [Places -> BOOLEAN]
      /\ image \in [Places -> Cards \cup {<< >>}]
      /\ passes \in [Places -> {0, 1, Free}]
  BY DEF Init
<1>4. /\ button = "connect" /\ at = "ended" /\ place \in Places
      /\ terminated = FALSE /\ used = << >> /\ count = 0
      /\ starts = 0 /\ presented = 0 /\ uses = 0 /\ guessed = FALSE
  BY FirstIsPlace DEF Init
<1>5. used \in Seq(Codes \X Nat) /\ count \in Nat /\ starts \in Nat
      /\ presented \in Nat /\ uses \in Nat
  BY <1>4
<1> QED BY <1>1, <1>2, <1>3, <1>4, <1>5 DEF TypeOK, GrantIsListed, Stages

LEMMA TypeAndListed == Spec => [](TypeOK /\ GrantIsListed)
<1>1. TypeOK /\ GrantIsListed /\ [Next]_vars => (TypeOK /\ GrantIsListed)'
  BY TypeStep
<1> QED BY TypeInit, <1>1, PTL DEF Spec

\* The list of the thread, what it has used and every record of it have their
\* types in every state: a code is taken off only while the list holds it.
THEOREM TypeCorrect == Spec => []TypeOK
BY TypeAndListed, PTL

-----------------------------------------------------------------------------
(***************************************************************************)
(* A code lets in no more often than the list held it.  Inductive is the   *)
(* sum: entries asked for, and what the list still holds, are together no  *)
(* more than the list held.                                                *)
(***************************************************************************)
UseInv == \A c \in Codes : letIn[c] + left[c] <= given[c]

LEMMA UseStep ==
  ASSUME TypeOK, GrantIsListed, UseInv, [Next]_vars
  PROVE  UseInv'
<1>1. CASE Start
  <2>1. left' = shown /\ given' = shown /\ letIn' = None
    BY <1>1 DEF Start
  <2> QED BY <2>1 DEF UseInv, None, TypeOK
<1>2. CASE Grant
  <2> SUFFICES ASSUME NEW c \in Codes PROVE letIn'[c] + left'[c] <= given'[c]
    BY DEF UseInv
  <2>1. code \in Codes /\ left[code] > 0
    BY <1>2 DEF Grant, GrantIsListed
  <2>2. /\ left' = [left EXCEPT ![code] = @ - 1]
        /\ letIn' \in {letIn, [letIn EXCEPT ![code] = @ + 1]}
        /\ given' = given
    BY <1>2 DEF Grant, TakeOff
  <2>3. letIn[c] + left[c] <= given[c]
    BY DEF UseInv
  <2>4. letIn \in [Codes -> Nat] /\ left \in [Codes -> Nat] /\ given \in [Codes -> Nat]
    BY DEF TypeOK
  <2> QED BY <2>1, <2>2, <2>3, <2>4
<1>3. ASSUME Forgotten PROVE UseInv'
  BY <1>3 DEF Forgotten, None, UseInv
<1>4. ASSUME UNCHANGED <<left, given, letIn>> PROVE UseInv'
  BY <1>4 DEF UseInv
<1>5. ASSUME NEW c \in Codes, Edit(c) PROVE UseInv'
  BY <1>4, <1>5 DEF Edit, lists, ghosts
<1>6. CASE Stop \/ Reopen
  BY <1>3, <1>4, <1>6 DEF Stop, Reopen, lists, ghosts
<1>7. CASE BeginRound \/ ReadFlag \/ ReadImage \/ ReadPasses \/ OpenExit \/ ShowRed
  BY <1>4, <1>7 DEF BeginRound, ReadFlag, ReadImage, ReadPasses, OpenExit, ShowRed,
       lists, ghosts
<1>8. CASE Save
  BY <1>3, <1>4, <1>8 DEF Save
<1>9. ASSUME NEW p \in Places, Turnstile(p) PROVE UseInv'
  BY <1>4, <1>9 DEF Turnstile, Present, PassesChange, lists, ghosts
<1>10. CASE UNCHANGED vars
  BY <1>4, <1>10 DEF vars, lists, ghosts
<1> QED BY <1>1, <1>2, <1>5, <1>6, <1>7, <1>8, <1>9, <1>10 DEF Next, Form, Thread

\* However often and wherever a code is shown, and whatever calls fail, it lets
\* in no more often than the list held it when the thread began.
THEOREM CodesLetInOnce == Spec => []SingleUse
<1>1. Init => UseInv
  BY DEF Init, UseInv, None
<1>2. TypeOK /\ GrantIsListed /\ UseInv /\ [Next]_vars => UseInv'
  BY UseStep
<1>3. TypeOK /\ UseInv => SingleUse
  <2> SUFFICES ASSUME TypeOK, UseInv, NEW c \in Codes PROVE letIn[c] <= given[c]
    BY DEF SingleUse
  <2>1. letIn[c] \in Nat /\ left[c] \in Nat /\ given[c] \in Nat
    BY DEF TypeOK
  <2>2. letIn[c] + left[c] <= given[c]
    BY DEF UseInv
  <2> QED BY <2>1, <2>2
<1> QED BY <1>1, <1>2, <1>3, TypeAndListed, PTL DEF Spec

-----------------------------------------------------------------------------
(***************************************************************************)
(* UsedCode.ini tells the last use of each code once a thread has ended.   *)
(* RecordInv says what is so while records wait: a code's last record that *)
(* waits is of its last use, and a code without one is up to date in the   *)
(* file.                                                                   *)
(***************************************************************************)
Waits(c) == \E i \in 1 .. Len(used) : used[i][1] = c

LastWaiting(c, i) ==
    /\ i \in 1 .. Len(used)
    /\ used[i][1] = c
    /\ \A j \in i + 1 .. Len(used) : used[j][1] # c

RecordInv ==
    /\ at = "ended" => used = << >>
    /\ \A c \in Codes :
         /\ ~Waits(c) => file[c] = lastUse[c]
         /\ \A i \in 1 .. Len(used) : LastWaiting(c, i) => used[i][2] = lastUse[c]

\* The new record is the last one of its code; of the others nothing changes.
LEMMA GrantRecords ==
  ASSUME TypeOK, GrantIsListed, RecordInv, Grant
  PROVE  RecordInv'
<1>1. code \in Codes /\ used \in Seq(Codes \X Nat) /\ uses \in Nat
  BY DEF Grant, GrantIsListed, TypeOK
<1>2. at' # "ended"
  BY DEF Grant, NextReader
<1>3. /\ used' = Append(used, <<code, uses + 1>>)
      /\ lastUse' = [lastUse EXCEPT ![code] = uses + 1]
      /\ file' = file
  BY DEF Grant
<1>4. /\ Len(used') = Len(used) + 1
      /\ Len(used) \in Nat
      /\ \A i \in 1 .. Len(used) : used'[i] = used[i]
      /\ used'[Len(used) + 1] = <<code, uses + 1>>
  BY <1>1, <1>3
<1>5. lastUse'[code] = uses + 1 /\ \A c \in Codes \ {code} : lastUse'[c] = lastUse[c]
  BY <1>1, <1>3 DEF TypeOK
<1>6. ASSUME NEW c \in Codes, ~Waits(c)'
      PROVE  file'[c] = lastUse'[c]
  <2>1. \A i \in 1 .. Len(used) + 1 : used'[i][1] # c
    BY <1>4, <1>6 DEF Waits
  <2>2. c # code
    BY <1>4, <2>1
  <2>3. ~Waits(c)
    BY <1>4, <2>1 DEF Waits
  <2> QED BY <1>3, <1>5, <2>2, <2>3 DEF RecordInv
<1>7. ASSUME NEW c \in Codes, NEW i \in 1 .. Len(used'), LastWaiting(c, i)'
      PROVE  used'[i][2] = lastUse'[c]
  <2>1. used'[i][1] = c /\ \A j \in i + 1 .. Len(used) + 1 : used'[j][1] # c
    BY <1>4, <1>7 DEF LastWaiting
  <2>2. CASE i = Len(used) + 1
    BY <1>4, <1>5, <2>1, <2>2
  <2>3. CASE i \in 1 .. Len(used)
    <3>1. c # code
      BY <1>4, <2>1, <2>3
    <3>2. LastWaiting(c, i)
      BY <1>4, <2>1, <2>3 DEF LastWaiting
    <3>3. used[i][2] = lastUse[c]
      BY <3>2, <2>3 DEF RecordInv
    <3> QED BY <1>4, <1>5, <2>3, <3>1, <3>3
  <2> QED BY <1>4, <2>2, <2>3
<1> QED BY <1>2, <1>6, <1>7 DEF RecordInv

\* The first record goes to the file: it was its code's last one, or another
\* of the code waits behind it.
LEMMA SaveRecords ==
  ASSUME TypeOK, RecordInv, Save, used # << >>
  PROVE  RecordInv'
<1>1. used \in Seq(Codes \X Nat) /\ Len(used) \in Nat \ {0}
  BY DEF TypeOK
<1> DEFINE first == used[1]
<1>2. first \in Codes \X Nat
  BY <1>1
<1>3. /\ file' = [file EXCEPT ![first[1]] = first[2]]
      /\ used' = Tail(used)
      /\ lastUse' = lastUse
      /\ at = "save" /\ at' = at
  BY <1>1 DEF Save, SaveOne
<1>4. /\ Len(used') = Len(used) - 1
      /\ \A i \in 1 .. Len(used) - 1 : used'[i] = used[i + 1]
  BY <1>1, <1>3
<1>5. ASSUME NEW c \in Codes, ~Waits(c)'
      PROVE  file'[c] = lastUse'[c]
  <2>1. \A i \in 1 .. Len(used) - 1 : used[i + 1][1] # c
    BY <1>1, <1>4, <1>5 DEF Waits
  <2>2. \A j \in 2 .. Len(used) : used[j][1] # c
    <3> SUFFICES ASSUME NEW j \in 2 .. Len(used) PROVE used[j][1] # c
      OBVIOUS
    <3>1. j - 1 \in 1 .. Len(used) - 1 /\ (j - 1) + 1 = j
      BY <1>1
    <3> QED BY <2>1, <3>1
  <2>3. CASE first[1] = c
    <3>1. LastWaiting(c, 1)
      BY <1>1, <2>2, <2>3 DEF LastWaiting
    <3>2. first[2] = lastUse[c]
      BY <1>1, <3>1 DEF RecordInv
    <3> QED BY <1>2, <1>3, <2>3, <3>2 DEF TypeOK
  <2>4. CASE first[1] # c
    <3>1. ~Waits(c)
      BY <1>1, <2>2, <2>4 DEF Waits
    <3> QED BY <1>2, <1>3, <2>4, <3>1 DEF RecordInv, TypeOK
  <2> QED BY <2>3, <2>4
<1>6. ASSUME NEW c \in Codes, NEW i \in 1 .. Len(used'), LastWaiting(c, i)'
      PROVE  used'[i][2] = lastUse'[c]
  <2>1. i + 1 \in 1 .. Len(used) /\ used'[i] = used[i + 1]
    BY <1>1, <1>4, <1>6
  <2>2. used[i + 1][1] = c /\ \A j \in i + 1 .. Len(used) - 1 : used[j + 1][1] # c
    <3>1. used'[i][1] = c /\ \A j \in i + 1 .. Len(used') : used'[j][1] # c
      BY <1>6 DEF LastWaiting
    <3>2. ASSUME NEW j \in i + 1 .. Len(used) - 1 PROVE used[j + 1][1] # c
      <4>1. j \in 1 .. Len(used) - 1 /\ j \in i + 1 .. Len(used')
        BY <1>1, <1>4, <2>1
      <4> QED BY <1>4, <3>1, <4>1
    <3> QED BY <2>1, <3>1, <3>2
  <2>3. \A j \in (i + 1) + 1 .. Len(used) : used[j][1] # c
    <3> SUFFICES ASSUME NEW j \in (i + 1) + 1 .. Len(used) PROVE used[j][1] # c
      OBVIOUS
    <3>1. j - 1 \in i + 1 .. Len(used) - 1 /\ (j - 1) + 1 = j
      BY <1>1, <2>1
    <3> QED BY <2>2, <3>1
  <2>4. LastWaiting(c, i + 1)
    BY <2>1, <2>2, <2>3 DEF LastWaiting
  <2> QED BY <1>3, <2>1, <2>4 DEF RecordInv
<1> QED BY <1>3, <1>5, <1>6 DEF RecordInv

LEMMA RecordStep ==
  ASSUME TypeOK, GrantIsListed, RecordInv, [Next]_vars
  PROVE  RecordInv'
<1>1. ASSUME UNCHANGED <<used, file, lastUse>>, at' = "ended" => used' = << >>
      PROVE  RecordInv'
  BY <1>1 DEF RecordInv, Waits, LastWaiting
<1>2. ASSUME used' = << >>, file' = lastUse'
      PROVE  RecordInv'
  BY <1>2 DEF RecordInv, Waits, LastWaiting
<1>3. ASSUME NEW c \in Codes, Edit(c) PROVE RecordInv'
  BY <1>1, <1>3 DEF Edit, lists, ghosts, RecordInv
<1>4. CASE Start \/ Stop
  BY <1>1, <1>4 DEF Start, Stop, lists, ghosts, RecordInv
<1>5. CASE Reopen
  BY <1>2, <1>5 DEF Reopen, Forgotten
<1>6. CASE BeginRound
  BY <1>1, <1>6 DEF BeginRound, NextRound, lists, ghosts
<1>7. CASE ReadFlag
  BY <1>1, <1>7 DEF ReadFlag, FlagSeen, NextReader, lists, ghosts
<1>8. CASE ReadImage
  BY <1>1, <1>8 DEF ReadImage, lists, ghosts
<1>9. CASE ReadPasses
  <2>1. at' # "ended"
    BY <1>9 DEF ReadPasses, NextReader, Judge
  <2> QED BY <1>1, <1>9, <2>1 DEF ReadPasses, lists, ghosts
<1>10. CASE OpenExit
  BY <1>1, <1>10 DEF OpenExit, Judge, lists, ghosts
<1>11. CASE Grant
  BY <1>11, GrantRecords
<1>12. CASE ShowRed
  BY <1>1, <1>12 DEF ShowRed, NextReader, lists, ghosts
<1>13. CASE Save
  <2>1. CASE used = << >>
    <3>1. used' = << >> /\ file' = file /\ lastUse' = lastUse
      BY <1>13, <2>1 DEF Save, Forgotten
    <3> QED BY <1>1, <2>1, <3>1
  <2> QED BY <1>13, <2>1, SaveRecords
<1>14. ASSUME NEW p \in Places, Turnstile(p) PROVE RecordInv'
  BY <1>1, <1>14 DEF Turnstile, Present, PassesChange, lists, ghosts, RecordInv
<1>15. CASE UNCHANGED vars
  BY <1>1, <1>15 DEF vars, lists, ghosts, RecordInv
<1> QED BY <1>3, <1>4, <1>5, <1>6, <1>7, <1>8, <1>9, <1>10, <1>11, <1>12, <1>13,
          <1>14, <1>15 DEF Next, Form, Thread

\* Once a thread has ended, UsedCode.ini tells the last use of every code, in
\* whatever order records of threads before it were written; what a program
\* that was closed had not written is the one exception.
THEOREM UsesRecorded == Spec => []UsesAreRecorded
<1>1. Init => RecordInv
  BY DEF Init, RecordInv, Waits, LastWaiting
<1>2. TypeOK /\ GrantIsListed /\ RecordInv /\ [Next]_vars => RecordInv'
  BY RecordStep
<1>3. TypeOK /\ RecordInv => UsesAreRecorded
  <2> SUFFICES ASSUME TypeOK, RecordInv, at = "ended" PROVE file = lastUse
    BY DEF UsesAreRecorded
  <2>1. \A c \in Codes : file[c] = lastUse[c]
    BY DEF RecordInv, Waits
  <2> QED BY <2>1 DEF TypeOK
<1> QED BY <1>1, <1>2, <1>3, TypeAndListed, PTL DEF Spec

-----------------------------------------------------------------------------
(***************************************************************************)
(* A pass that waits is not overwritten.  PassInv adds that only an exit   *)
(* is opened before the code is looked at.                                 *)
(***************************************************************************)
PassInv == NoPassOverwritten /\ (at = "first" => place[2] # "enter")

LEMMA PassStep ==
  ASSUME TypeOK, PassInv, [Next]_vars
  PROVE  PassInv'
<1>1. ASSUME UNCHANGED <<at, place, guessed, passes>> PROVE PassInv'
  BY <1>1 DEF PassInv, NoPassOverwritten
<1>2. ASSUME at' \notin {"first", "grant"} PROVE PassInv'
  BY <1>2 DEF PassInv, NoPassOverwritten
<1>3. CASE Form
  <2>1. ASSUME NEW c \in Codes, Edit(c) PROVE PassInv'
    BY <1>1, <2>1 DEF Edit, card, turnstile
  <2>2. CASE Start \/ Reopen
    BY <1>2, <2>2 DEF Start, Reopen, Forgotten
  <2>3. CASE Stop
    BY <1>1, <2>3 DEF Stop, card, turnstile
  <2> QED BY <1>3, <2>1, <2>2, <2>3 DEF Form
<1>4. CASE BeginRound \/ ReadFlag \/ ReadImage \/ Grant \/ ShowRed
  BY <1>2, <1>4 DEF BeginRound, NextRound, ReadFlag, FlagSeen, NextReader, ReadImage,
       Grant, ShowRed
<1>5. CASE ReadPasses
  <2>1. CASE NextReader
    BY <1>2, <2>1 DEF NextReader
  <2>2. CASE /\ guessed' = PassesLeft(passes[place])
             /\ IF place[2] = "enter" THEN Judge ELSE at' = "first"
             /\ UNCHANGED <<place, count, code>>
    <3>1. passes' = passes /\ place' = place
      BY <1>5, <2>2 DEF ReadPasses, turnstile
    <3>2. passes[place] = 1 => guessed'
      <4>1. passes[place] = 1 => PassesLeft(passes[place])
        BY DEF PassesLeft
      <4> QED BY <2>2, <4>1
    <3>3. at' = "first" => place[2] # "enter"
      BY <2>2 DEF Judge
    <3> QED BY <3>1, <3>2, <3>3 DEF PassInv, NoPassOverwritten
  <2> QED BY <1>5, <2>1, <2>2 DEF ReadPasses
<1>6. CASE OpenExit
  <2>1. at' \in {"grant", "red"} /\ place' = place /\ place[2] # "enter"
    BY <1>6 DEF OpenExit, Judge, PassInv
  <2> QED BY <2>1 DEF PassInv, NoPassOverwritten
<1>7. CASE Save
  <2>1. at' \notin {"first", "grant"}
    BY <1>7 DEF Save, Forgotten
  <2> QED BY <1>2, <2>1
<1>8. ASSUME NEW p \in Places, Turnstile(p) PROVE PassInv'
  <2>1. ASSUME NEW c \in Cards, Present(p, c) PROVE PassInv'
    BY <1>1, <2>1 DEF Present, card
  <2>2. ASSUME NEW n \in {0, Free}, PassesChange(p, n) PROVE PassInv'
    <3>1. /\ passes' = [passes EXCEPT ![p] = n] /\ n # 1
          /\ at' = at /\ place' = place /\ guessed' = guessed
      BY <2>2 DEF PassesChange, card, Free
    <3>2. passes'[place] = 1 => passes[place] = 1
      BY <3>1 DEF TypeOK
    <3> QED BY <3>1, <3>2 DEF PassInv, NoPassOverwritten
  <2> QED BY <1>8, <2>1, <2>2 DEF Turnstile
<1>9. CASE UNCHANGED vars
  BY <1>1, <1>9 DEF vars, card, turnstile
<1> QED BY <1>3, <1>4, <1>5, <1>6, <1>7, <1>8, <1>9 DEF Next, Thread

\* A reader's single pass that is still to be used is not overwritten for the
\* next card, unless the read of the passes failed and left 0.
THEOREM PassesAreNotOverwritten == Spec => []NoPassOverwritten
<1>1. Init => PassInv
  BY DEF Init, PassInv, NoPassOverwritten
<1>2. TypeOK /\ PassInv /\ [Next]_vars => PassInv'
  BY PassStep
<1> QED BY <1>1, <1>2, TypeAndListed, PTL DEF Spec, PassInv
=============================================================================
