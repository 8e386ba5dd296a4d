----------------------- MODULE MaintenanceWindowProofs -----------------------
(***************************************************************************)
(* What holds of MaintenanceWindow for any processes and operators, any age *)
(* an answer may have and any number of windows.                            *)
(***************************************************************************)
EXTENDS MaintenanceWindow, TLAPS

\* An answer that is not what holds now was asked for before what holds now began.
AskedBefore(window, at) == window.locked # open.locked => at <= since

Came(question) == question.answer \notin {Waiting, Refused}

\* A question was asked, and its answer, if it came, is of then or later.
QuestionFits(question) ==
    /\ question.at <= instant
    /\ Came(question) => AskedBefore(question.answer, question.at)

\* A write ends a lock only where it is an unlock.
WriteFits(operation) ==
    operation.place = "writing" =>
        /\ operation.kind # "overview"
        /\ operation.kind \in {"cancel", "lock"} => ~operation.found.locked

KnownFits ==
    \A p \in Processes :
        AskedBefore(known[p].window, known[p].at) /\ known[p].at <= instant

ReadingFits ==
    \A p \in Processes :
        /\ QuestionFits(reading[p])
        /\ reading[p] # NotReading => reading[p].answer # Refused

OperationsFit ==
    \A o \in Operators :
        /\ QuestionFits(operations[o].question)
        /\ operations[o].place = "finding" => operations[o].question.answer # Refused
        /\ operations[o].place # "idle" => operations[o].process \in Processes
        /\ WriteFits(operations[o])

MaintenanceInv ==
    /\ MaintenanceTypeOK
    /\ since <= instant
    /\ KnownFits /\ ReadingFits /\ OperationsFit /\ WriteFits(adrift)

-----------------------------------------------------------------------------
\* What is left of a line, after an answer or without an asker, is a line.
LEMMA LinesStay ==
    ASSUME NEW waiting \in Seq(Questioners), NEW asker
    PROVE  After(waiting, asker) \in Seq(Questioners) /\ Without(waiting, asker) \in Seq(Questioners)
  <1>1. CASE IsIn(waiting, asker)
    <2>1. Place(waiting, asker) \in 1 .. Len(waiting)
      BY <1>1 DEF IsIn, Place
    <2> QED
      BY <1>1, <2>1 DEF After, Without
  <1>2. CASE ~IsIn(waiting, asker)
    BY <1>2 DEF After, Without
  <1> QED
    BY <1>1, <1>2

\* A window is locked or it is not.
LEMMA WindowsLock ==
    ASSUME NEW window \in Windows
    PROVE  /\ window.locked = TRUE \/ window.locked = FALSE
           /\ [window EXCEPT !.locked = TRUE] \in Windows \/ window = NoWindow
           /\ window.locked = FALSE => [window EXCEPT !.locked = FALSE] = window
           /\ window.locked = TRUE => [window EXCEPT !.locked = TRUE] = window
  <1>1. CASE window = NoWindow
    BY <1>1 DEF NoWindow
  <1>2. CASE window \in [id : 1 .. MaxWindows, locked : BOOLEAN]
    BY <1>2 DEF Windows
  <1> QED
    BY <1>1, <1>2 DEF Windows

\* Where the moment of a change is kept, what was asked before is still before.
LEMMA ChangesAreDated ==
    ASSUME MaintenanceInv, since' = IF open'.locked # open.locked THEN instant ELSE since
    PROVE  /\ since' \in 0 .. LastInstant /\ since' <= instant
           /\ \A window \in Windows, at \in -MaxAge .. LastInstant :
                 at <= instant /\ AskedBefore(window, at) => AskedBefore(window, at)'
  <1>1. since \in Int /\ instant \in Int /\ since <= instant /\ since \in 0 .. LastInstant
        /\ instant \in 0 .. LastInstant
    BY MaintenanceAssumption DEF MaintenanceInv, MaintenanceTypeOK
  <1>2. ASSUME NEW window \in Windows, NEW at \in -MaxAge .. LastInstant, at <= instant,
               AskedBefore(window, at)
        PROVE  AskedBefore(window, at)'
    <2>1. at \in Int
      BY MaintenanceAssumption
    <2>3. CASE open'.locked = open.locked
      BY <1>2, <2>3 DEF AskedBefore
    <2>4. CASE open'.locked # open.locked
      BY <1>1, <1>2, <2>1, <2>4 DEF AskedBefore
    <2> QED
      BY <2>3, <2>4
  <1> QED
    BY <1>1, <1>2

\* A write leaves a window of its kind, and what was asked before is still before
\* what holds then.
LEMMA WritesFit ==
    ASSUME MaintenanceInv, NEW operation \in Operation, operation.place = "writing",
           WriteFits(operation), IsDone(operation)
    PROVE  /\ open' \in Windows /\ opened' \in 0 .. MaxWindows /\ open'.id <= opened'
           /\ since' \in 0 .. LastInstant /\ since' <= instant
           /\ \A window \in Windows, at \in -MaxAge .. LastInstant :
                 at <= instant /\ AskedBefore(window, at) => AskedBefore(window, at)'
           /\ open.locked /\ open' # open => operation.kind = "unlock" /\ operation.found = open
  <1> USE DEF MaintenanceInv, MaintenanceTypeOK, Windows, NoWindow, Operation
  <1>1. CASE TakesEffect(operation) /\ Opens(operation)
    <2>1. open = NoWindow /\ opened < MaxWindows /\ opened' = opened + 1
      BY <1>1 DEF TakesEffect, IsDone
    <2>2. open' = [id |-> opened + 1, locked |-> operation.kind = "lock"]
      BY <1>1 DEF Written, IsDone
    <2>3. open' \in Windows /\ opened' \in 0 .. MaxWindows /\ open'.id <= opened'
      BY <2>1, <2>2, MaintenanceAssumption
    <2>4. since' = IF open'.locked # open.locked THEN instant ELSE since
      BY <1>1 DEF IsDone
    <2>5. ~open.locked
      BY <2>1
    <2> QED
      BY <2>3, <2>4, <2>5, ChangesAreDated
  <1>2. CASE TakesEffect(operation) /\ ~Opens(operation)
    <2>1. open = operation.found
      BY <1>2 DEF TakesEffect, StandsAsFound
    <2>2. operation.kind # "announce" /\ operation.kind # "overview"
      BY <1>2 DEF Opens, WriteFits
    <2>3. open' = (IF operation.kind \in {"cancel", "unlock"} THEN NoWindow
                   ELSE [open EXCEPT !.locked = @ \/ operation.kind = "lock"])
      BY <1>2 DEF Written, IsDone
    <2>4. since' = (IF open'.locked # open.locked THEN instant ELSE since) /\ opened' = opened
      BY <1>2 DEF IsDone
    <2>5. operation.kind = "reschedule" => open' = open
      <3> SUFFICES ASSUME operation.kind = "reschedule"
                   PROVE  open' = open
        OBVIOUS
      <3>1. open' = [open EXCEPT !.locked = open.locked \/ FALSE]
        BY <2>3
      <3>2. CASE open.locked = TRUE
        <4>1. open' = [open EXCEPT !.locked = TRUE]
          BY <3>1, <3>2
        <4> QED
          BY <3>2, <4>1, WindowsLock
      <3>3. CASE open.locked = FALSE
        <4>1. open' = [open EXCEPT !.locked = FALSE]
          BY <3>1, <3>3
        <4> QED
          BY <3>3, <4>1, WindowsLock
      <3> QED
        BY <3>2, <3>3, WindowsLock
    <2>6. open' \in Windows /\ open'.id <= opened
      <3>1. CASE operation.kind \in {"cancel", "unlock"}
        BY <2>3, <3>1, MaintenanceAssumption
      <3>2. CASE operation.kind = "lock"
        <4>1. open # NoWindow
          BY <1>2, <2>1, <3>2 DEF Opens
        <4>2. open' = [open EXCEPT !.locked = TRUE]
          BY <2>3, <3>2
        <4> QED
          BY <4>1, <4>2, WindowsLock
      <3>3. CASE operation.kind = "reschedule"
        BY <2>5, <3>3
      <3> QED
        BY <2>2, <3>1, <3>2, <3>3
    <2>7. open.locked /\ open' # open => operation.kind = "unlock"
      <3>1. operation.kind \in {"cancel", "lock"} => ~open.locked
        BY <2>1 DEF WriteFits
      <3> QED
        BY <2>2, <2>5, <3>1
    <2> QED
      BY <2>1, <2>4, <2>6, <2>7, ChangesAreDated
  <1>3. CASE ~TakesEffect(operation)
    <2>1. open' = open /\ opened' = opened /\ since' = since
      BY <1>3 DEF IsDone
    <2>2. since' = IF open'.locked # open.locked THEN instant ELSE since
      BY <2>1
    <2> QED
      BY <2>1, <2>2, ChangesAreDated
  <1> QED
    BY <1>1, <1>2, <1>3

-----------------------------------------------------------------------------
\* What the invariant says of one process and of one operator.
LEMMA Typed ==
    ASSUME MaintenanceTypeOK
    PROVE  /\ instant \in 0 .. LastInstant /\ since \in 0 .. LastInstant /\ open \in Windows
           /\ \A p \in Processes :
                 /\ known[p] \in [window : Windows, at : -MaxAge .. LastInstant]
                 /\ line[p] \in Seq(Questioners) /\ reading[p] \in Question
           /\ \A o \in Operators : operations[o] \in Operation
  BY DEF MaintenanceTypeOK

\* A question asked now is one, and fits.
LEMMA AskedFits ==
    ASSUME MaintenanceTypeOK
    PROVE  /\ Asked \in Question /\ QuestionFits(Asked) /\ Asked.answer = Waiting
           /\ ~Came(Asked)
  BY Typed, MaintenanceAssumption DEF Asked, Question, QuestionFits, Came

\* Nothing asked fits, and nothing done.
LEMMA NothingFits ==
    ASSUME MaintenanceTypeOK
    PROVE  /\ NoOperation \in Operation /\ QuestionFits(NoOperation.question)
           /\ NoOperation.place = "idle" /\ WriteFits(NoOperation)
           /\ NotReading \in Question /\ QuestionFits(NotReading)
           /\ Unknown \in [window : Windows, at : -MaxAge .. LastInstant]
           /\ AskedBefore(Unknown.window, Unknown.at) /\ Unknown.at <= instant
  BY Typed, MaintenanceAssumption
     DEF NoOperation, NotAsked, NotReading, Unknown, Operation, Question, QuestionFits, Came, WriteFits,
         AskedBefore, Windows

\* What an answer that came tells fits what a process may know.
LEMMA AnswersFit ==
    ASSUME MaintenanceInv, NEW p \in Processes, NEW asker, NEW question \in Question,
           QuestionFits(question), Came(question)
    PROVE  LET knowledge == Learned(p, asker, question.answer, question.at)
           IN  /\ knowledge \in [window : Windows, at : -MaxAge .. LastInstant]
               /\ AskedBefore(knowledge.window, knowledge.at) /\ knowledge.at <= instant
  <1>1. question.answer \in Windows /\ question.at \in -MaxAge .. LastInstant
    BY MaintenanceAssumption DEF Question, Came
  <1>2. AskedBefore(question.answer, question.at) /\ question.at <= instant
    BY DEF QuestionFits
  <1>3. /\ known[p] \in [window : Windows, at : -MaxAge .. LastInstant]
        /\ AskedBefore(known[p].window, known[p].at) /\ known[p].at <= instant
    BY Typed DEF MaintenanceInv, KnownFits
  <1> QED
    BY <1>1, <1>2, <1>3 DEF Learned

\* A step that leaves the clock and the windows alone keeps the invariant, if what it
\* leaves each process and each operator with fits.
LEMMA StepsThatFit ==
    ASSUME MaintenanceInv, UNCHANGED <<instant, open, opened, since>>,
           known' \in [Processes -> [window : Windows, at : -MaxAge .. LastInstant]],
           line' \in [Processes -> Seq(Questioners)],
           reading' \in [Processes -> Question],
           operations' \in [Operators -> Operation], adrift' \in Operation,
           \A p \in Processes :
               /\ AskedBefore(known'[p].window, known'[p].at) /\ known'[p].at <= instant
               /\ QuestionFits(reading'[p])
               /\ reading'[p] # NotReading => reading'[p].answer # Refused,
           \A o \in Operators :
               /\ QuestionFits(operations'[o].question)
               /\ operations'[o].place = "finding" => operations'[o].question.answer # Refused
               /\ operations'[o].place # "idle" => operations'[o].process \in Processes
               /\ WriteFits(operations'[o]),
           WriteFits(adrift')
    PROVE  MaintenanceInv'
  <1>1. MaintenanceTypeOK' /\ (since <= instant)'
    BY DEF MaintenanceInv, MaintenanceTypeOK
  <1>2. KnownFits' /\ ReadingFits'
    BY DEF KnownFits, ReadingFits, AskedBefore, QuestionFits
  <1>3. OperationsFit'
    BY DEF OperationsFit, AskedBefore, QuestionFits, WriteFits
  <1>4. WriteFits(adrift)'
    BY DEF WriteFits
  <1> QED
    BY <1>1, <1>2, <1>3, <1>4 DEF MaintenanceInv

\* What a line becomes in a step is a line.
LEMMA LinesGrow ==
    ASSUME NEW waiting \in Seq(Questioners), NEW asker \in Questioners
    PROVE  /\ Append(waiting, asker) \in Seq(Questioners)
           /\ Append(After(waiting, asker), asker) \in Seq(Questioners)
           /\ Append(Without(waiting, asker), asker) \in Seq(Questioners)
  BY LinesStay

\* What fits of one process and one operator as they are.
LEMMA FitsNow ==
    ASSUME MaintenanceInv
    PROVE  /\ \A p \in Processes :
                 /\ AskedBefore(known[p].window, known[p].at) /\ known[p].at <= instant
                 /\ QuestionFits(reading[p])
                 /\ reading[p] # NotReading => reading[p].answer # Refused
           /\ \A o \in Operators :
                 /\ QuestionFits(operations[o].question)
                 /\ operations[o].question \in Question
                 /\ operations[o].place = "finding" => operations[o].question.answer # Refused
                 /\ operations[o].place # "idle" => operations[o].process \in Processes
                 /\ WriteFits(operations[o])
           /\ WriteFits(adrift) /\ adrift \in Operation
  BY Typed DEF MaintenanceInv, MaintenanceTypeOK, KnownFits, ReadingFits, OperationsFit, Operation

LEMMA RequestKeeps ==
    ASSUME MaintenanceInv, NEW p \in Processes, RequestComes(p)
    PROVE  MaintenanceInv'
  <1>1. line' \in [Processes -> Seq(Questioners)]
    BY LinesGrow DEF RequestComes, MaintenanceInv, MaintenanceTypeOK, Questioners
  <1>2. /\ reading' \in [Processes -> Question]
        /\ \A q \in Processes : reading'[q] = IF q = p THEN Asked ELSE reading[q]
    BY AskedFits DEF RequestComes, MaintenanceInv, MaintenanceTypeOK
  <1>3. \A q \in Processes : QuestionFits(reading'[q])
                             /\ (reading'[q] # NotReading => reading'[q].answer # Refused)
    BY <1>2, AskedFits, FitsNow DEF MaintenanceInv, Waiting, Refused
  <1>4. UNCHANGED <<instant, open, opened, since, known, operations, adrift>>
    BY DEF RequestComes
  <1> QED
    BY <1>1, <1>2, <1>3, <1>4, FitsNow, StepsThatFit DEF MaintenanceInv, MaintenanceTypeOK

LEMMA ReadDoneKeeps ==
    ASSUME MaintenanceInv, NEW p \in Processes, ReadIsDone(p)
    PROVE  MaintenanceInv'
  <1>1. /\ open \in Windows /\ open # Refused /\ reading[p] \in Question
        /\ QuestionFits(reading[p])
    BY Typed, FitsNow DEF MaintenanceInv, Windows, NoWindow, Refused
  <1> DEFINE answered == [reading[p] EXCEPT !.answer = open]
  <1>2. answered \in Question /\ QuestionFits(answered) /\ answered.answer # Refused
    BY <1>1 DEF Question, QuestionFits, AskedBefore
  <1>3. /\ reading' \in [Processes -> Question]
        /\ \A q \in Processes : reading'[q] = IF q = p THEN answered ELSE reading[q]
    BY <1>2 DEF ReadIsDone, MaintenanceInv, MaintenanceTypeOK
  <1> HIDE DEF answered
  <1>4. \A q \in Processes : QuestionFits(reading'[q])
                             /\ (reading'[q] # NotReading => reading'[q].answer # Refused)
    BY <1>2, <1>3, FitsNow
  <1>5. UNCHANGED <<instant, open, opened, since, known, line, operations, adrift>>
    BY DEF ReadIsDone
  <1> QED
    BY <1>3, <1>4, <1>5, FitsNow, StepsThatFit DEF MaintenanceInv, MaintenanceTypeOK

\* A process learns what fits.
LEMMA LearningFits ==
    ASSUME MaintenanceInv, NEW p \in Processes, NEW asker, NEW question \in Question,
           QuestionFits(question), Came(question), Remembers(p, asker, question.answer, question.at)
    PROVE  /\ known' \in [Processes -> [window : Windows, at : -MaxAge .. LastInstant]]
           /\ \A q \in Processes :
                 AskedBefore(known'[q].window, known'[q].at) /\ known'[q].at <= instant
  <1> DEFINE learned == Learned(p, asker, question.answer, question.at)
  <1>1. /\ learned \in [window : Windows, at : -MaxAge .. LastInstant]
        /\ AskedBefore(learned.window, learned.at) /\ learned.at <= instant
    BY AnswersFit
  <1>2. known' = [known EXCEPT ![p] = learned]
    BY DEF Remembers
  <1>3. known \in [Processes -> [window : Windows, at : -MaxAge .. LastInstant]]
    BY DEF MaintenanceInv, MaintenanceTypeOK
  <1> HIDE DEF learned
  <1> QED
    BY <1>1, <1>2, <1>3, FitsNow

LEMMA ReadAnsweredKeeps ==
    ASSUME MaintenanceInv, NEW p \in Processes, ReadIsAnswered(p)
    PROVE  MaintenanceInv'
  <1>1. /\ reading[p] \in Question /\ QuestionFits(reading[p]) /\ Came(reading[p])
        /\ Remembers(p, p, reading[p].answer, reading[p].at)
    BY Typed, FitsNow DEF ReadIsAnswered, Came, MaintenanceInv
  <1>2. /\ known' \in [Processes -> [window : Windows, at : -MaxAge .. LastInstant]]
        /\ \A q \in Processes :
              AskedBefore(known'[q].window, known'[q].at) /\ known'[q].at <= instant
    BY <1>1, LearningFits
  <1>3. PICK next \in {Asked, NotReading} : reading' = [reading EXCEPT ![p] = next]
    BY DEF ReadIsAnswered
  <1>4. /\ reading' \in [Processes -> Question]
        /\ \A q \in Processes : reading'[q] = IF q = p THEN next ELSE reading[q]
    BY <1>3, AskedFits, NothingFits DEF MaintenanceInv, MaintenanceTypeOK
  <1>5. \A q \in Processes : QuestionFits(reading'[q])
                             /\ (reading'[q] # NotReading => reading'[q].answer # Refused)
    BY <1>4, AskedFits, NothingFits, FitsNow DEF MaintenanceInv, Waiting, Refused
  <1>6. line' \in [Processes -> Seq(Questioners)]
    <2>1. p \in Questioners /\ line[p] \in Seq(Questioners)
      BY Typed DEF Questioners, MaintenanceInv
    <2>2. PICK next_line \in {After(line[p], p), Append(After(line[p], p), p)} :
              line' = [line EXCEPT ![p] = next_line]
      BY DEF ReadIsAnswered
    <2>3. next_line \in Seq(Questioners)
      BY <2>1, <2>2, LinesStay, LinesGrow
    <2> QED
      BY <2>2, <2>3 DEF MaintenanceInv, MaintenanceTypeOK
  <1>7. UNCHANGED <<instant, open, opened, since, operations, adrift>>
    BY DEF ReadIsAnswered
  <1> QED
    BY <1>2, <1>4, <1>5, <1>6, <1>7, FitsNow, StepsThatFit DEF MaintenanceInv, MaintenanceTypeOK

LEMMA ReadFailsKeeps ==
    ASSUME MaintenanceInv, NEW p \in Processes, ReadFails(p)
    PROVE  MaintenanceInv'
  <1>1. /\ reading' \in [Processes -> Question]
        /\ \A q \in Processes : reading'[q] = IF q = p THEN NotReading ELSE reading[q]
    BY NothingFits DEF ReadFails, MaintenanceInv, MaintenanceTypeOK
  <1>2. \A q \in Processes : QuestionFits(reading'[q])
                             /\ (reading'[q] # NotReading => reading'[q].answer # Refused)
    BY <1>1, NothingFits, FitsNow DEF MaintenanceInv
  <1>3. line' \in [Processes -> Seq(Questioners)]
    BY LinesStay DEF ReadFails, MaintenanceInv, MaintenanceTypeOK
  <1>4. UNCHANGED <<instant, open, opened, since, known, operations, adrift>>
    BY DEF ReadFails
  <1> QED
    BY <1>1, <1>2, <1>3, <1>4, FitsNow, StepsThatFit DEF MaintenanceInv, MaintenanceTypeOK

\* An operator that goes on with what fits leaves what fits of every operator.
LEMMA GoingOnFits ==
    ASSUME MaintenanceInv, NEW o \in Operators, NEW next \in Operation,
           operations' = [operations EXCEPT ![o] = next],
           QuestionFits(next.question),
           next.place = "finding" => next.question.answer # Refused,
           next.place # "idle" => next.process \in Processes,
           WriteFits(next)
    PROVE  /\ operations' \in [Operators -> Operation]
           /\ \A x \in Operators :
                 /\ QuestionFits(operations'[x].question)
                 /\ operations'[x].place = "finding" => operations'[x].question.answer # Refused
                 /\ operations'[x].place # "idle" => operations'[x].process \in Processes
                 /\ WriteFits(operations'[x])
  <1>1. operations' \in [Operators -> Operation]
        /\ \A x \in Operators : operations'[x] = IF x = o THEN next ELSE operations[x]
    BY DEF MaintenanceInv, MaintenanceTypeOK
  <1> QED
    BY <1>1, FitsNow

LEMMA EnteringKeeps ==
    ASSUME MaintenanceInv, NEW o \in Operators, OperationBegins(o)
    PROVE  MaintenanceInv'
  <1>1. PICK p \in Processes, kind \in {"announce", "lock", "unlock", "reschedule", "cancel"},
             means \in {0} \union 1 .. opened : Enters(o, p, kind, means)
    BY DEF OperationBegins
  <1> DEFINE next == [NoOperation EXCEPT !.kind = kind, !.process = p, !.means = means,
                          !.question = Asked,
                          !.place = IF kind = "announce" THEN "writing" ELSE "finding"]
  <1>2. next \in Operation
    <2>1. NoOperation \in Operation /\ Asked \in Question /\ means \in 0 .. MaxWindows
      BY NothingFits, AskedFits, MaintenanceAssumption DEF MaintenanceInv, MaintenanceTypeOK
    <2>2. (IF kind = "announce" THEN "writing" ELSE "finding") \in {"idle", "finding", "writing"}
      OBVIOUS
    <2> QED
      BY <2>1, <2>2 DEF Operation
  <1>3. /\ next.question = Asked /\ next.process = p
        /\ next.place = "writing" => next.kind = "announce"
    BY DEF NoOperation
  <1>4. operations' = [operations EXCEPT ![o] = next]
    BY <1>1 DEF Enters
  <1> HIDE DEF next
  <1>5. QuestionFits(next.question) /\ next.question.answer # Refused /\ WriteFits(next)
    BY <1>3, AskedFits DEF WriteFits, MaintenanceInv, Waiting, Refused
  <1>6. line' \in [Processes -> Seq(Questioners)]
    BY <1>1, LinesGrow DEF Enters, MaintenanceInv, MaintenanceTypeOK, Questioners
  <1>7. UNCHANGED <<instant, open, opened, since, known, reading, adrift>>
    BY <1>1 DEF Enters
  <1> QED
    BY <1>2, <1>3, <1>4, <1>5, <1>6, <1>7, GoingOnFits, FitsNow, StepsThatFit
       DEF MaintenanceInv, MaintenanceTypeOK

LEMMA FindingDoneKeeps ==
    ASSUME MaintenanceInv, NEW o \in Operators, FindingIsDone(o)
    PROVE  MaintenanceInv'
  <1>1. /\ open \in Windows /\ open # Refused /\ operations[o] \in Operation
        /\ operations[o].question \in Question /\ QuestionFits(operations[o].question)
        /\ operations[o].process \in Processes
    BY Typed, FitsNow DEF MaintenanceInv, Windows, NoWindow, Refused, FindingIsDone
  <1> DEFINE answered == [operations[o].question EXCEPT !.answer = open]
             next == [operations[o] EXCEPT !.question = answered]
  <1>2. answered \in Question /\ QuestionFits(answered) /\ answered.answer # Refused
    BY <1>1 DEF Question, QuestionFits, AskedBefore
  <1>3. operations' = [operations EXCEPT ![o] = next]
    BY <1>1 DEF FindingIsDone, MaintenanceInv, MaintenanceTypeOK, Operation
  <1> HIDE DEF answered
  <1>4. /\ next \in Operation /\ next.question = answered /\ next.place = "finding"
        /\ next.process \in Processes
    BY <1>1, <1>2 DEF Operation, FindingIsDone
  <1> HIDE DEF next
  <1>5. WriteFits(next)
    BY <1>4 DEF WriteFits
  <1>6. UNCHANGED <<instant, open, opened, since, known, line, reading, adrift>>
    BY DEF FindingIsDone
  <1> QED
    BY <1>2, <1>3, <1>4, <1>5, <1>6, GoingOnFits, FitsNow, StepsThatFit
       DEF MaintenanceInv, MaintenanceTypeOK

LEMMA FindingAnsweredKeeps ==
    ASSUME MaintenanceInv, NEW o \in Operators, FindingIsAnswered(o)
    PROVE  MaintenanceInv'
  <1> DEFINE operation == operations[o]
             p == operation.process
             found == operation.question.answer
             goesOn == [operation EXCEPT !.place = "writing", !.found = found, !.question = Asked]
  <1>1. /\ operation \in Operation /\ operation.question \in Question
        /\ QuestionFits(operation.question) /\ Came(operation.question) /\ p \in Processes
        /\ found \in Windows
    BY Typed, FitsNow DEF FindingIsAnswered, MaintenanceInv, Came, Question
  <1>2. /\ known' \in [Processes -> [window : Windows, at : -MaxAge .. LastInstant]]
        /\ \A q \in Processes :
              AskedBefore(known'[q].window, known'[q].at) /\ known'[q].at <= instant
    BY <1>1, LearningFits DEF FindingIsAnswered
  <1>3. PICK next \in {NoOperation, goesOn} :
            /\ operations' = [operations EXCEPT ![o] = next]
            /\ next = goesOn => ~IsRefused(operation, found)
    <2>1. CASE OperationEnds(o)
      BY <2>1, NothingFits DEF OperationEnds, MaintenanceInv, Operation
    <2>2. CASE ~OperationEnds(o)
      <3>1. /\ ~IsRefused(operation, found)
            /\ operations' = [operations EXCEPT ![o].place = "writing", ![o].found = found,
                                                ![o].question = Asked]
        BY <2>2 DEF FindingIsAnswered
      <3> QED
        BY <1>1, <3>1 DEF MaintenanceInv, MaintenanceTypeOK, Operation
    <2> QED
      BY <2>1, <2>2
  <1>4. /\ goesOn \in Operation /\ goesOn.place = "writing" /\ goesOn.question = Asked
        /\ goesOn.process = p /\ goesOn.kind = operation.kind /\ goesOn.found = found
    BY <1>1, AskedFits DEF Operation, MaintenanceInv
  <1>5. ~IsRefused(operation, found) => WriteFits(goesOn)
    BY <1>4 DEF WriteFits, IsRefused
  <1> HIDE DEF goesOn
  <1>6. /\ next \in Operation /\ QuestionFits(next.question) /\ WriteFits(next)
        /\ next.place # "finding"
        /\ next.place # "idle" => next.process \in Processes
    BY <1>1, <1>3, <1>4, <1>5, NothingFits, AskedFits DEF MaintenanceInv
  <1>7. line' \in [Processes -> Seq(Questioners)]
    <2>1. o \in Questioners /\ line[p] \in Seq(Questioners)
      BY <1>1, Typed DEF Questioners, MaintenanceInv
    <2>2. PICK next_line \in {After(line[p], o), Append(After(line[p], o), o)} :
              line' = [line EXCEPT ![p] = next_line]
      BY DEF FindingIsAnswered
    <2>3. next_line \in Seq(Questioners)
      BY <2>1, <2>2, LinesStay, LinesGrow
    <2> QED
      BY <2>2, <2>3 DEF MaintenanceInv, MaintenanceTypeOK
  <1>8. UNCHANGED <<instant, open, opened, since, reading, adrift>>
    BY DEF FindingIsAnswered
  <1> HIDE DEF operation, p, found
  <1> QED
    BY <1>2, <1>3, <1>6, <1>7, <1>8, GoingOnFits, FitsNow, StepsThatFit
       DEF MaintenanceInv, MaintenanceTypeOK

LEMMA WritingAnsweredKeeps ==
    ASSUME MaintenanceInv, NEW o \in Operators, WritingIsAnswered(o)
    PROVE  MaintenanceInv'
  <1> DEFINE operation == operations[o]
             p == operation.process
             again == FindsAgain(operation)
  <1>1. /\ operation \in Operation /\ operation.question \in Question
        /\ QuestionFits(operation.question) /\ p \in Processes
    BY Typed, FitsNow DEF WritingIsAnswered, MaintenanceInv
  <1>2. /\ known' \in [Processes -> [window : Windows, at : -MaxAge .. LastInstant]]
        /\ \A q \in Processes :
              AskedBefore(known'[q].window, known'[q].at) /\ known'[q].at <= instant
    <2>1. CASE UNCHANGED known
      BY <2>1, FitsNow DEF MaintenanceInv, MaintenanceTypeOK
    <2>2. CASE Remembers(p, o, operation.question.answer, operation.question.at)
                  /\ Wrote(operation.question.answer)
      <3>1. Came(operation.question)
        BY <2>2 DEF Came, Wrote, WritingIsAnswered
      <3> QED
        BY <1>1, <2>2, <3>1, LearningFits
    <2> QED
      BY <2>1, <2>2 DEF WritingIsAnswered
  <1>3. PICK next \in {NoOperation, again} : operations' = [operations EXCEPT ![o] = next]
    BY DEF WritingIsAnswered, OperationEnds
  <1>4. /\ again \in Operation /\ again.place = "finding" /\ again.question = Asked
        /\ again.process = p
    <2>1. /\ (IF IsTriedAgain(operation) THEN operation.attempt + 1 ELSE operation.attempt) \in 1 .. 2
          /\ (IF operation.kind = "unlock" THEN "overview" ELSE operation.kind)
                \in {"overview", "announce", "reschedule", "cancel", "lock", "unlock"}
      BY <1>1 DEF Operation, IsTriedAgain
    <2> QED
      BY <1>1, <2>1, AskedFits DEF FindsAgain, Operation, MaintenanceInv, Windows
  <1> HIDE DEF again
  <1>5. /\ next \in Operation /\ QuestionFits(next.question) /\ WriteFits(next)
        /\ next.place = "finding" => next.question.answer # Refused
        /\ next.place # "idle" => next.process \in Processes
    BY <1>1, <1>3, <1>4, NothingFits, AskedFits DEF MaintenanceInv, WriteFits, Waiting, Refused
  <1>6. line' \in [Processes -> Seq(Questioners)]
    <2>1. o \in Questioners /\ line[p] \in Seq(Questioners)
      BY <1>1, Typed DEF Questioners, MaintenanceInv
    <2>2. PICK next_line \in {After(line[p], o), Without(line[p], o), Append(Without(line[p], o), o)} :
              line' = [line EXCEPT ![p] = next_line]
      BY DEF WritingIsAnswered
    <2>3. next_line \in Seq(Questioners)
      BY <2>1, <2>2, LinesStay, LinesGrow
    <2> QED
      BY <2>2, <2>3 DEF MaintenanceInv, MaintenanceTypeOK
  <1>7. UNCHANGED <<instant, open, opened, since, reading, adrift>>
    BY DEF WritingIsAnswered
  <1> HIDE DEF operation, p
  <1> QED
    BY <1>2, <1>3, <1>5, <1>6, <1>7, GoingOnFits, FitsNow, StepsThatFit
       DEF MaintenanceInv, MaintenanceTypeOK

\* Where all that was asked for before stays before, what processes know and what was
\* asked fits on.
LEMMA BeforeStaysBefore ==
    ASSUME MaintenanceInv, instant' \in 0 .. LastInstant, instant <= instant',
           UNCHANGED <<known, reading>>,
           \A window \in Windows, at \in -MaxAge .. LastInstant :
               at <= instant /\ AskedBefore(window, at) => AskedBefore(window, at)'
    PROVE  /\ KnownFits' /\ ReadingFits'
           /\ \A question \in Question : QuestionFits(question) => QuestionFits(question)'
  <1>1. \A at \in -MaxAge .. LastInstant : at <= instant => at <= instant'
    BY MaintenanceAssumption DEF MaintenanceInv, MaintenanceTypeOK
  <1>2. ASSUME NEW question \in Question, QuestionFits(question)
        PROVE  QuestionFits(question)'
    <2>1. question.at \in -MaxAge .. LastInstant /\ (Came(question) => question.answer \in Windows)
      BY MaintenanceAssumption DEF Question, Came
    <2> QED
      BY <1>1, <1>2, <2>1 DEF QuestionFits, Came
  <1>3. KnownFits'
    <2> SUFFICES ASSUME NEW p \in Processes
                 PROVE  AskedBefore(known[p].window, known[p].at)' /\ known'[p].at <= instant'
      BY DEF KnownFits
    <2>1. known[p].window \in Windows /\ known[p].at \in -MaxAge .. LastInstant /\ known' = known
      BY Typed DEF MaintenanceInv
    <2>2. AskedBefore(known[p].window, known[p].at) /\ known[p].at <= instant
      BY FitsNow
    <2> QED
      BY <1>1, <2>1, <2>2 DEF AskedBefore
  <1>4. ReadingFits'
    <2> SUFFICES ASSUME NEW p \in Processes
                 PROVE  /\ QuestionFits(reading[p])'
                        /\ reading'[p] # NotReading => reading'[p].answer # Refused
      BY DEF ReadingFits
    <2>1. reading[p] \in Question /\ QuestionFits(reading[p]) /\ reading' = reading
      BY Typed, FitsNow DEF MaintenanceInv
    <2> QED
      BY <1>2, <2>1, FitsNow DEF QuestionFits, AskedBefore, Came
  <1> QED
    BY <1>2, <1>3, <1>4

LEMMA WritingDoneKeeps ==
    ASSUME MaintenanceInv, NEW o \in Operators, WritingIsDone(o)
    PROVE  MaintenanceInv'
  <1>1. /\ operations[o] \in Operation /\ operations[o].place = "writing"
        /\ WriteFits(operations[o]) /\ IsDone(operations[o])
    BY Typed, FitsNow DEF WritingIsDone, MaintenanceInv
  <1>2. UNCHANGED <<instant, known, line, reading, adrift>>
    BY DEF WritingIsDone
  <1>3. /\ open' \in Windows /\ opened' \in 0 .. MaxWindows /\ open'.id <= opened'
        /\ since' \in 0 .. LastInstant /\ since' <= instant
        /\ \A window \in Windows, at \in -MaxAge .. LastInstant :
              at <= instant /\ AskedBefore(window, at) => AskedBefore(window, at)'
    BY <1>1, WritesFit
  <1>4. /\ KnownFits' /\ ReadingFits'
        /\ \A question \in Question : QuestionFits(question) => QuestionFits(question)'
    <2>1. instant' \in 0 .. LastInstant /\ instant <= instant'
      BY <1>2 DEF MaintenanceInv, MaintenanceTypeOK
    <2> QED
      BY <1>2, <1>3, <2>1, BeforeStaysBefore
  <1> DEFINE answer == IF TakesEffect(operations[o]) THEN open' ELSE Refused
             answered == [operations[o].question EXCEPT !.answer = answer]
             next == [operations[o] EXCEPT !.question = answered]
  <1>5. answer \in {open', Refused}
    OBVIOUS
  <1> HIDE DEF answer
  <1>6. answered \in Question /\ answered.at = operations[o].question.at /\ answered.answer = answer
    BY <1>1, <1>3, <1>5 DEF Operation, Question
  <1>7. answered.at <= instant' /\ (Came(answered) => answered.answer = open')
    BY <1>2, <1>5, <1>6, FitsNow DEF Came, QuestionFits
  <1> HIDE DEF answered
  <1>8. /\ next \in Operation /\ next.question = answered /\ next.place = "writing"
        /\ next.process = operations[o].process /\ next.kind = operations[o].kind
        /\ next.found = operations[o].found
    BY <1>1, <1>6 DEF Operation
  <1>9. operations' = [operations EXCEPT ![o] = next]
    BY <1>1 DEF WritingIsDone, answer, answered, MaintenanceInv, MaintenanceTypeOK, Operation
  <1> HIDE DEF next
  <1>10. /\ operations' \in [Operators -> Operation]
         /\ \A x \in Operators : operations'[x] = IF x = o THEN next ELSE operations[x]
    BY <1>8, <1>9 DEF MaintenanceInv, MaintenanceTypeOK
  <1>11. MaintenanceTypeOK' /\ (since <= instant)'
    BY <1>2, <1>3, <1>10 DEF MaintenanceInv, MaintenanceTypeOK
  <1>12. OperationsFit'
    <2> SUFFICES ASSUME NEW x \in Operators
                 PROVE  /\ QuestionFits(operations[x].question)'
                        /\ operations'[x].place = "finding" => operations'[x].question.answer # Refused
                        /\ operations'[x].place # "idle" => operations'[x].process \in Processes
                        /\ WriteFits(operations'[x])
      BY DEF OperationsFit, WriteFits
    <2>1. CASE x = o
      <3>1. QuestionFits(operations[x].question)'
        BY <1>7, <1>8, <1>10, <2>1 DEF QuestionFits, AskedBefore, Came
      <3>2. WriteFits(operations'[x]) /\ operations'[x].process \in Processes
        BY <1>1, <1>8, <1>10, <2>1, FitsNow DEF WriteFits
      <3> QED
        BY <1>8, <1>10, <2>1, <3>1, <3>2
    <2>2. CASE x # o
      <3>1. operations'[x] = operations[x]
        BY <1>10, <2>2
      <3>2. QuestionFits(operations[x].question)'
        BY <1>4, <3>1, FitsNow DEF QuestionFits, AskedBefore, Came
      <3> QED
        BY <3>1, <3>2, FitsNow
    <2> QED
      BY <2>1, <2>2
  <1> QED
    BY <1>2, <1>4, <1>11, <1>12, FitsNow DEF MaintenanceInv, WriteFits

\* A step of the clock, or of a write adrift, that leaves the operators alone.
LEMMA BesideOperators ==
    ASSUME MaintenanceInv, MaintenanceTypeOK', since' <= instant', instant <= instant',
           UNCHANGED <<known, line, reading, operations>>, adrift' \in {adrift, NoOperation},
           \A window \in Windows, at \in -MaxAge .. LastInstant :
               at <= instant /\ AskedBefore(window, at) => AskedBefore(window, at)'
    PROVE  MaintenanceInv'
  <1>1. /\ KnownFits' /\ ReadingFits'
        /\ \A question \in Question : QuestionFits(question) => QuestionFits(question)'
    BY BeforeStaysBefore DEF MaintenanceTypeOK
  <1>2. OperationsFit'
    <2> SUFFICES ASSUME NEW x \in Operators
                 PROVE  /\ QuestionFits(operations[x].question)'
                        /\ operations'[x].place = "finding" => operations'[x].question.answer # Refused
                        /\ operations'[x].place # "idle" => operations'[x].process \in Processes
                        /\ WriteFits(operations'[x])
      BY DEF OperationsFit, WriteFits
    <2>1. operations' = operations
      OBVIOUS
    <2>2. QuestionFits(operations[x].question)'
      BY <1>1, <2>1, FitsNow DEF QuestionFits, AskedBefore, Came
    <2> QED
      BY <2>1, <2>2, FitsNow
  <1>3. WriteFits(adrift')
    BY FitsNow, NothingFits DEF MaintenanceInv
  <1> QED
    BY <1>1, <1>2, <1>3 DEF MaintenanceInv, WriteFits

LEMMA AdriftDoneKeeps ==
    ASSUME MaintenanceInv, AdriftIsDone
    PROVE  MaintenanceInv'
  <1>1. adrift \in Operation /\ adrift.place = "writing" /\ WriteFits(adrift) /\ IsDone(adrift)
    BY FitsNow DEF AdriftIsDone
  <1>2. /\ open' \in Windows /\ opened' \in 0 .. MaxWindows /\ open'.id <= opened'
        /\ since' \in 0 .. LastInstant /\ since' <= instant
        /\ \A window \in Windows, at \in -MaxAge .. LastInstant :
              at <= instant /\ AskedBefore(window, at) => AskedBefore(window, at)'
    BY <1>1, WritesFit
  <1>3. UNCHANGED <<instant, known, line, reading, operations>> /\ adrift' = NoOperation
    BY DEF AdriftIsDone
  <1>4. MaintenanceTypeOK'
    BY <1>2, <1>3, NothingFits DEF MaintenanceInv, MaintenanceTypeOK
  <1>5. since' <= instant' /\ instant <= instant'
    BY <1>2, <1>3 DEF MaintenanceInv, MaintenanceTypeOK
  <1> QED
    BY <1>2, <1>3, <1>4, <1>5, BesideOperators

LEMMA ClockKeeps ==
    ASSUME MaintenanceInv, InstantPasses
    PROVE  MaintenanceInv'
  <1>1. UNCHANGED <<open, opened, since, known, line, reading, operations, adrift>>
    BY DEF InstantPasses
  <1>2. instant' \in 0 .. LastInstant /\ instant <= instant' /\ since' <= instant'
    BY <1>1, MaintenanceAssumption DEF InstantPasses, MaintenanceInv, MaintenanceTypeOK
  <1>3. MaintenanceTypeOK'
    BY <1>1, <1>2 DEF MaintenanceInv, MaintenanceTypeOK
  <1>4. \A window \in Windows, at \in -MaxAge .. LastInstant :
            at <= instant /\ AskedBefore(window, at) => AskedBefore(window, at)'
    BY <1>1 DEF AskedBefore
  <1> QED
    BY <1>1, <1>2, <1>3, <1>4, BesideOperators

\* What is left alone fits, a write adrift among it.
LEMMA LeftAloneFits ==
    ASSUME MaintenanceInv, NEW left \in SUBSET Operators, AreLeftAlone(left)
    PROVE  /\ operations' \in [Operators -> Operation] /\ adrift' \in Operation
           /\ \A x \in Operators :
                 /\ QuestionFits(operations'[x].question)
                 /\ operations'[x].place = "finding" => operations'[x].question.answer # Refused
                 /\ operations'[x].place # "idle" => operations'[x].process \in Processes
                 /\ WriteFits(operations'[x])
           /\ WriteFits(adrift')
  <1>1. \A x \in Operators : operations'[x] = IF x \in left THEN NoOperation ELSE operations[x]
    BY DEF AreLeftAlone
  <1>2. operations' \in [Operators -> Operation]
    BY <1>1, NothingFits DEF AreLeftAlone, MaintenanceInv, MaintenanceTypeOK
  <1>3. adrift' \in Operation /\ WriteFits(adrift')
    <2>1. CASE adrift' = adrift
      BY <2>1, FitsNow
    <2>2. CASE adrift' # adrift
      <3>1. PICK o \in left : /\ operations[o].place = "writing"
                              /\ adrift' = [NoOperation EXCEPT !.kind = operations[o].kind,
                                                !.place = "writing", !.found = operations[o].found]
        BY <2>2 DEF AreLeftAlone
      <3>2. operations[o] \in Operation /\ WriteFits(operations[o]) /\ NoOperation \in Operation
        BY Typed, FitsNow, NothingFits DEF MaintenanceInv
      <3>3. /\ adrift' \in Operation /\ adrift'.kind = operations[o].kind
            /\ adrift'.found = operations[o].found
        BY <3>1, <3>2 DEF Operation
      <3> QED
        BY <3>1, <3>2, <3>3 DEF WriteFits
    <2> QED
      BY <2>1, <2>2
  <1> QED
    BY <1>1, <1>2, <1>3, NothingFits, FitsNow DEF MaintenanceInv

LEMMA OperationFailsKeeps ==
    ASSUME MaintenanceInv, NEW o \in Operators, OperationFails(o)
    PROVE  MaintenanceInv'
  <1>1. AreLeftAlone({o}) /\ UNCHANGED <<instant, open, opened, since, known, reading>>
    BY DEF OperationFails
  <1>2. line' \in [Processes -> Seq(Questioners)]
    BY LinesStay DEF OperationFails, MaintenanceInv, MaintenanceTypeOK
  <1> QED
    BY <1>1, <1>2, LeftAloneFits, FitsNow, StepsThatFit DEF MaintenanceInv, MaintenanceTypeOK

LEMMA RestartKeeps ==
    ASSUME MaintenanceInv, NEW p \in Processes, Restarts(p)
    PROVE  MaintenanceInv'
  <1> DEFINE left == {o \in Operators : operations[o].process = p}
  <1>1. AreLeftAlone(left) /\ UNCHANGED <<instant, open, opened, since>>
    BY DEF Restarts
  <1> HIDE DEF left
  <1>2. left \in SUBSET Operators
    BY DEF left
  <1>3. /\ line' \in [Processes -> Seq(Questioners)]
        /\ known' \in [Processes -> [window : Windows, at : -MaxAge .. LastInstant]]
        /\ reading' \in [Processes -> Question]
    BY NothingFits DEF Restarts, MaintenanceInv, MaintenanceTypeOK
  <1>4. \A q \in Processes :
            /\ known'[q] = IF q = p THEN Unknown ELSE known[q]
            /\ reading'[q] = IF q = p THEN NotReading ELSE reading[q]
    BY DEF Restarts, MaintenanceInv, MaintenanceTypeOK
  <1>5. \A q \in Processes :
            /\ AskedBefore(known'[q].window, known'[q].at) /\ known'[q].at <= instant
            /\ QuestionFits(reading'[q])
            /\ reading'[q] # NotReading => reading'[q].answer # Refused
    BY <1>4, NothingFits, FitsNow DEF MaintenanceInv
  <1> QED
    BY <1>1, <1>2, <1>3, <1>5, LeftAloneFits, StepsThatFit

-----------------------------------------------------------------------------
LEMMA InitMaintenance == MaintenanceInit => MaintenanceInv
  <1> SUFFICES ASSUME MaintenanceInit
               PROVE  MaintenanceInv
    OBVIOUS
  <1>1. MaintenanceTypeOK
    <2>1. /\ Unknown \in [window : Windows, at : -MaxAge .. LastInstant]
          /\ NotReading \in Question /\ NoOperation \in Operation
      BY MaintenanceAssumption
         DEF Unknown, NotReading, NoOperation, NotAsked, Question, Operation, Windows
    <2> QED
      BY <2>1, MaintenanceAssumption DEF MaintenanceInit, MaintenanceTypeOK, Windows, NoWindow
  <1>2. since <= instant /\ KnownFits /\ ReadingFits
    BY <1>1, NothingFits DEF MaintenanceInit, KnownFits, ReadingFits
  <1>3. OperationsFit /\ WriteFits(adrift)
    BY <1>1, NothingFits DEF MaintenanceInit, OperationsFit
  <1> QED
    BY <1>1, <1>2, <1>3 DEF MaintenanceInv

LEMMA NextMaintenance == MaintenanceInv /\ [MaintenanceNext]_maintenanceVars => MaintenanceInv'
  <1> SUFFICES ASSUME MaintenanceInv, [MaintenanceNext]_maintenanceVars
               PROVE  MaintenanceInv'
    OBVIOUS
  <1>1. CASE UNCHANGED maintenanceVars
    <2>1. UNCHANGED <<instant, open, opened, since, known, line, reading, operations, adrift>>
      BY <1>1 DEF maintenanceVars
    <2> QED
      BY <2>1, FitsNow, StepsThatFit DEF MaintenanceInv, MaintenanceTypeOK
  <1>2. ASSUME NEW p \in Processes,
               RequestComes(p) \/ ReadIsDone(p) \/ ReadIsAnswered(p) \/ ReadFails(p) \/ Restarts(p)
        PROVE  MaintenanceInv'
    BY <1>2, RequestKeeps, ReadDoneKeeps, ReadAnsweredKeeps, ReadFailsKeeps, RestartKeeps
  <1>3. ASSUME NEW o \in Operators,
               \/ OperationBegins(o) \/ FindingIsDone(o) \/ FindingIsAnswered(o)
               \/ WritingIsDone(o) \/ WritingIsAnswered(o) \/ OperationFails(o)
        PROVE  MaintenanceInv'
    BY <1>3, EnteringKeeps, FindingDoneKeeps, FindingAnsweredKeeps, WritingDoneKeeps,
       WritingAnsweredKeeps, OperationFailsKeeps
  <1>4. CASE AdriftIsDone \/ InstantPasses
    BY <1>4, AdriftDoneKeeps, ClockKeeps
  <1> QED
    BY <1>1, <1>2, <1>3, <1>4 DEF MaintenanceNext

LEMMA MaintenanceInvariant == MaintenanceSpec => []MaintenanceInv
  BY InitMaintenance, NextMaintenance, PTL DEF MaintenanceSpec

\* What was asked for less than MaxAge ago and is not what holds began to hold since.
LEMMA YoungIsInTime ==
    ASSUME MaintenanceInv, NEW knowledge \in [window : Windows, at : -MaxAge .. LastInstant],
           AskedBefore(knowledge.window, knowledge.at), IsYoung(knowledge),
           knowledge.window.locked # open.locked
    PROVE  instant - since < MaxAge
  <1>1. knowledge.at \in Int /\ instant \in Int /\ since \in Int /\ MaxAge \in Int
    BY MaintenanceAssumption DEF MaintenanceInv, MaintenanceTypeOK
  <1>2. knowledge.at <= since
    BY DEF AskedBefore
  <1> QED
    BY <1>1, <1>2 DEF IsYoung

\* Windows, questions and operations stay of their kinds.
THEOREM MaintenanceTypes == MaintenanceSpec => []MaintenanceTypeOK
  <1>1. MaintenanceInv => MaintenanceTypeOK
    BY DEF MaintenanceInv
  <1> QED
    BY <1>1, MaintenanceInvariant, PTL

\* No process remembers for longer than MaxAge that nothing is locked (SC-OPS-015).
THEOREM KnowledgeIsInTime == MaintenanceSpec => []KnownInTime
  <1>1. MaintenanceInv => KnownInTime
    <2> SUFFICES ASSUME MaintenanceInv, NEW p \in Processes, IsYoung(known[p]),
                        known[p].window.locked # open.locked
                 PROVE  instant - since < MaxAge
      BY DEF KnownInTime
    <2> QED
      BY YoungIsInTime, Typed, FitsNow DEF MaintenanceInv
  <1> QED
    BY <1>1, MaintenanceInvariant, PTL

\* No request that waited is let through on an answer too old (SC-OPS-015).
THEOREM RequestsAreLetThroughInTime == MaintenanceSpec => LetsThroughInTime
  <1>1. ASSUME MaintenanceInv, [MaintenanceNext]_maintenanceVars, NEW p \in Processes,
               reading[p].answer \notin {Waiting, Refused}, reading'[p] = NotReading,
               known'[p] # Unknown, ~known'[p].window.locked, open.locked
        PROVE  instant - since < MaxAge
    <2>1. reading[p] # NotReading /\ Asked # NotReading
      BY <1>1 DEF NotReading, Asked, Waiting, Refused
    <2>2. reading' # reading
      BY <1>1, <2>1
    <2>3. ~ReadFails(p)
      BY <1>1 DEF ReadFails
    <2>4. \A q \in Processes :
              RequestComes(q) \/ ReadIsDone(q) \/ ReadIsAnswered(q) \/ ReadFails(q) \/ Restarts(q)
              => reading' = [reading EXCEPT ![q] = reading'[q]]
      BY DEF RequestComes, ReadIsDone, ReadIsAnswered, ReadFails, Restarts, MaintenanceInv,
             MaintenanceTypeOK
    <2>5. PICK q \in Processes :
              RequestComes(q) \/ ReadIsDone(q) \/ ReadIsAnswered(q) \/ ReadFails(q) \/ Restarts(q)
      <3>1. ~UNCHANGED maintenanceVars /\ ~AdriftIsDone /\ ~InstantPasses
        BY <2>2 DEF maintenanceVars, AdriftIsDone, InstantPasses
      <3>2. ASSUME NEW o \in Operators,
                   \/ OperationBegins(o) \/ FindingIsDone(o) \/ FindingIsAnswered(o)
                   \/ WritingIsDone(o) \/ WritingIsAnswered(o) \/ OperationFails(o)
            PROVE  FALSE
        BY <2>2, <3>2 DEF OperationBegins, Enters, FindingIsDone, FindingIsAnswered, WritingIsDone,
                          WritingIsAnswered, OperationFails
      <3> QED
        BY <1>1, <3>1, <3>2 DEF MaintenanceNext
    <2>6. q = p
      BY <1>1, <2>1, <2>4, <2>5 DEF MaintenanceInv, MaintenanceTypeOK
    <2>7. ReadIsAnswered(p)
      <3>1. ~RequestComes(p) /\ ~ReadIsDone(p)
        BY <1>1, <2>1 DEF RequestComes, ReadIsDone
      <3>2. ~Restarts(p)
        BY <1>1 DEF Restarts, MaintenanceInv, MaintenanceTypeOK
      <3> QED
        BY <2>3, <2>5, <2>6, <3>1, <3>2
    <2>8. IsYoung(known'[p])
      <3>1. ~HeldTooLong(known'[p])
        BY <1>1, <2>1, <2>7 DEF ReadIsAnswered, MaintenanceInv, MaintenanceTypeOK
      <3> QED
        BY <1>1, <3>1 DEF HeldTooLong
    <2>9. /\ known'[p] \in [window : Windows, at : -MaxAge .. LastInstant]
          /\ AskedBefore(known'[p].window, known'[p].at)
      <3>1. MaintenanceInv' /\ UNCHANGED <<open, since>>
        BY <1>1, <2>7, NextMaintenance DEF ReadIsAnswered
      <3> QED
        BY <3>1 DEF MaintenanceInv, MaintenanceTypeOK, KnownFits, AskedBefore
    <2> QED
      BY <1>1, <2>8, <2>9, YoungIsInTime
  <1>2. MaintenanceInv /\ [MaintenanceNext]_maintenanceVars =>
            [\A p \in Processes :
               /\ reading[p].answer \notin {Waiting, Refused} /\ reading'[p] = NotReading
               /\ known'[p] # Unknown /\ ~known'[p].window.locked
               => ~open.locked \/ instant - since < MaxAge]_maintenanceVars
    BY <1>1
  <1> QED
    BY <1>2, MaintenanceInvariant, PTL DEF MaintenanceSpec, LetsThroughInTime

\* A lock ends only by an unlock that found it (SC-OPS-014).
THEOREM LocksEndByTheirUnlock == MaintenanceSpec => EndsByItsUnlock
  <1>1. ASSUME MaintenanceInv, [MaintenanceNext]_maintenanceVars, open.locked, open' # open
        PROVE  \E write \in {operations[o] : o \in Operators} \union {adrift} :
                   write.kind = "unlock" /\ write.place = "writing" /\ write.found = open
    <2>1. CASE \E o \in Operators : WritingIsDone(o)
      <3>1. PICK o \in Operators : WritingIsDone(o)
        BY <2>1
      <3>2. /\ operations[o] \in Operation /\ operations[o].place = "writing"
            /\ WriteFits(operations[o]) /\ IsDone(operations[o])
        BY <1>1, <3>1, Typed, FitsNow DEF WritingIsDone, MaintenanceInv
      <3>3. operations[o].kind = "unlock" /\ operations[o].found = open
        BY <1>1, <3>2, WritesFit
      <3> QED
        BY <3>2, <3>3
    <2>2. CASE AdriftIsDone
      <3>1. /\ adrift \in Operation /\ adrift.place = "writing" /\ WriteFits(adrift)
            /\ IsDone(adrift)
        BY <1>1, <2>2, FitsNow DEF AdriftIsDone
      <3>2. adrift.kind = "unlock" /\ adrift.found = open
        BY <1>1, <3>1, WritesFit
      <3> QED
        BY <3>1, <3>2
    <2>3. CASE ~(\E o \in Operators : WritingIsDone(o)) /\ ~AdriftIsDone
      BY <1>1, <2>3 DEF MaintenanceNext, maintenanceVars, RequestComes, ReadIsDone, ReadIsAnswered,
         ReadFails, Restarts, OperationBegins, Enters, FindingIsDone, FindingIsAnswered,
         WritingIsAnswered, OperationFails, InstantPasses
    <2> QED
      BY <2>1, <2>2, <2>3
  <1>2. MaintenanceInv /\ [MaintenanceNext]_maintenanceVars =>
            [open.locked /\ open' # open =>
               \E write \in {operations[o] : o \in Operators} \union {adrift} :
                   write.kind = "unlock" /\ write.place = "writing"
                   /\ write.found = open]_maintenanceVars
    BY <1>1
  <1> QED
    BY <1>2, MaintenanceInvariant, PTL DEF MaintenanceSpec, EndsByItsUnlock

=============================================================================
