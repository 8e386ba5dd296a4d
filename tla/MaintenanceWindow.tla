------------------------- MODULE MaintenanceWindow -------------------------
(***************************************************************************)
(* The lock an operator takes for a deployment, and what every process of   *)
(* the application knows of it.  The database keeps one open window at a    *)
(* time, announced or locked; a process asks for it, and answers requests   *)
(* with what it learned for a while.                                        *)
(*                                                                          *)
(* A question, and a write, is sent, done by the database and answered, and *)
(* anything may happen between the three.  A window is its number and       *)
(* whether it is locked; its times and its message are left out, for no     *)
(* lock begins or ends by them.                                             *)
(***************************************************************************)
EXTENDS Integers, Sequences

CONSTANTS
    Processes,
    Nobody,
    Operators,
    MaxAge,         \* MAINTENANCE_STATE_MAX_AGE_SECONDS
    MaxWindows,     \* bound on the windows opened
    LastInstant     \* bound on the clock

ASSUME MaintenanceAssumption ==
    /\ Nobody \notin Processes \union Operators /\ Processes \intersect Operators = {}
    /\ MaxAge \in Nat \ {0} /\ MaxWindows \in Nat /\ LastInstant \in Nat

VARIABLES
    instant,        \* the clock
    open,           \* the open window, or NoWindow
    opened,         \* how many were opened
    since,          \* history: when the database was last locked or unlocked
    known,          \* what each process learned last
    line,           \* whose answers it waits for, in the order they asked
    reading,        \* the question its waiting requests wait for
    operations,     \* what each operator is at
    adrift          \* a write that was sent and nobody waits for any more: one at a time

maintenanceVars == <<instant, open, opened, since, known, line, reading, operations, adrift>>

NoWindow == [id |-> 0, locked |-> FALSE]

Windows == {NoWindow} \union [id : 1 .. MaxWindows, locked : BOOLEAN]

\* What the database says once it answers; a write it did not do is refused.
Waiting == [id |-> -1, locked |-> FALSE]

Refused == [id |-> -2, locked |-> FALSE]

\* A question: when it was asked, and its answer.
NotAsked == [at |-> 0, answer |-> Waiting]

\* No request waits.
NotReading == [at |-> 0, answer |-> Refused]

\* Nothing was learned yet.
Unknown == [window |-> NoWindow, at |-> -MaxAge]

NoOperation ==
    [kind |-> "overview", place |-> "idle", process |-> Nobody, means |-> 0, found |-> NoWindow,
     attempt |-> 1, question |-> NotAsked]

Question == [at : 0 .. LastInstant, answer : Windows \union {Waiting, Refused}]

\* Who asks: an operator, or a process for the requests that come to it.
Questioners == Operators \union Processes

Operation ==
    [kind : {"overview", "announce", "reschedule", "cancel", "lock", "unlock"},
     place : {"idle", "finding", "writing"}, process : Processes \union {Nobody},
     means : 0 .. MaxWindows, found : Windows, attempt : 1 .. 2, question : Question]

\* The windows, the questions and the operations are of their kinds.
MaintenanceTypeOK ==
    /\ instant \in 0 .. LastInstant /\ opened \in 0 .. MaxWindows /\ since \in 0 .. LastInstant
    /\ open \in Windows /\ open.id <= opened
    /\ known \in [Processes -> [window : Windows, at : -MaxAge .. LastInstant]]
    /\ line \in [Processes -> Seq(Questioners)]
    /\ reading \in [Processes -> Question]
    /\ operations \in [Operators -> Operation] /\ adrift \in Operation

MaintenanceInit ==
    /\ instant = 0 /\ open = NoWindow /\ opened = 0 /\ since = 0
    /\ known = [p \in Processes |-> Unknown]
    /\ line = [p \in Processes |-> <<>>]
    /\ reading = [p \in Processes |-> NotReading]
    /\ operations = [o \in Operators |-> NoOperation] /\ adrift = NoOperation

-----------------------------------------------------------------------------
(* What a process knows *)

IsIn(waiting, asker) == \E i \in 1 .. Len(waiting) : waiting[i] = asker

Place(waiting, asker) == CHOOSE i \in 1 .. Len(waiting) : waiting[i] = asker

\* An answer overtakes the questions asked before its own: once they are answered,
\* nobody is left in line for them.
After(waiting, asker) ==
    IF IsIn(waiting, asker) THEN SubSeq(waiting, Place(waiting, asker) + 1, Len(waiting)) ELSE waiting

Without(waiting, asker) ==
    IF IsIn(waiting, asker)
    THEN SubSeq(waiting, 1, Place(waiting, asker) - 1) \o After(waiting, asker)
    ELSE waiting

\* ask: takes the next place in line.
Asked == [at |-> instant, answer |-> Waiting]

\* Mutant: dated from when the answer arrived.
LearnedOnArrival(p, asker, window, at) ==
    IF IsIn(line[p], asker) THEN [window |-> window, at |-> instant] ELSE known[p]

\* remember: what it knows from now on, dated from when it asked, unless it holds
\* the answer to a later question.
Learned(p, asker, window, at) ==
    IF IsIn(line[p], asker) THEN [window |-> window, at |-> at] ELSE known[p]

Remembers(p, asker, window, at) == known' = [known EXCEPT ![p] = Learned(p, asker, window, at)]

IsYoung(knowledge) == instant - knowledge.at < MaxAge

\* Mutant: an answer is acted on whenever it arrives.
NeverHeldTooLong(knowledge) == FALSE

\* The answer may predate a lock by now.
HeldTooLong(knowledge) == ~knowledge.window.locked /\ ~IsYoung(knowledge)

-----------------------------------------------------------------------------
(* Requests *)

\* openWindow: a request that finds nothing fresh reads, and those after it wait
\* for the same read.
RequestComes(p) ==
    /\ ~IsYoung(known[p]) /\ reading[p] = NotReading
    /\ reading' = [reading EXCEPT ![p] = Asked]
    /\ line' = [line EXCEPT ![p] = Append(@, p)]
    /\ UNCHANGED <<instant, open, opened, since, known, operations, adrift>>

ReadIsDone(p) ==
    /\ reading[p] # NotReading /\ reading[p].answer = Waiting
    /\ reading' = [reading EXCEPT ![p].answer = open]
    /\ UNCHANGED <<instant, open, opened, since, known, line, operations, adrift>>

\* Where what it holds then is too old to let anybody through, it asks again.
ReadIsAnswered(p) ==
    /\ reading[p] # NotReading /\ reading[p].answer # Waiting
    /\ Remembers(p, p, reading[p].answer, reading[p].at)
    /\ IF HeldTooLong(known'[p])
       THEN /\ reading' = [reading EXCEPT ![p] = Asked]
            /\ line' = [line EXCEPT ![p] = Append(After(@, p), p)]
       ELSE /\ reading' = [reading EXCEPT ![p] = NotReading]
            /\ line' = [line EXCEPT ![p] = After(@, p)]
    /\ UNCHANGED <<instant, open, opened, since, operations, adrift>>

\* The requests that waited are decided on what was known before.
ReadFails(p) ==
    /\ reading[p].answer = Waiting
    /\ reading' = [reading EXCEPT ![p] = NotReading]
    /\ line' = [line EXCEPT ![p] = Without(@, p)]
    /\ UNCHANGED <<instant, open, opened, since, known, operations, adrift>>

-----------------------------------------------------------------------------
(* Operators *)

\* Every operation finds the open window first, but for an announcement.
Enters(o, p, kind, means) ==
    /\ operations[o].place = "idle"
    /\ operations' = [operations EXCEPT ![o] =
            [NoOperation EXCEPT !.kind = kind, !.process = p, !.means = means, !.question = Asked,
                                !.place = IF kind = "announce" THEN "writing" ELSE "finding"]]
    /\ line' = [line EXCEPT ![p] = Append(@, o)]
    /\ UNCHANGED <<instant, open, opened, since, known, reading, adrift>>

\* Moving and cancelling name the window they mean.
OperationBegins(o) ==
    \E p \in Processes :
        \/ \E kind \in {"announce", "lock", "unlock"} : Enters(o, p, kind, 0)
        \/ \E kind \in {"reschedule", "cancel"}, means \in 1 .. opened :
                Enters(o, p, kind, means)

OperationEnds(o) == operations' = [operations EXCEPT ![o] = NoOperation]

\* What the operation finds is not what it may act on: it is refused, or nothing
\* is left to do.
IsRefused(operation, window) ==
    \/ operation.kind = "overview"
    \/ operation.means # 0 /\ window.id # operation.means
    \/ operation.kind = "cancel" /\ window.locked
    \/ operation.kind = "lock" /\ window.locked
    \/ operation.kind = "unlock" /\ ~window.locked

FindingIsDone(o) ==
    /\ operations[o].place = "finding" /\ operations[o].question.answer = Waiting
    /\ operations' = [operations EXCEPT ![o].question.answer = open]
    /\ UNCHANGED <<instant, open, opened, since, known, line, reading, adrift>>

\* A reschedule that changes nothing writes nothing; a lock or an unlock may name
\* another window, and what an overview finds is only told.
FindingIsAnswered(o) ==
    LET operation == operations[o]
        p == operation.process
        found == operation.question.answer
    IN /\ operation.place = "finding" /\ found # Waiting
       /\ Remembers(p, o, found, operation.question.at)
       /\ \/ /\ IsRefused(operation, found) \/ operation.kind # "cancel"
             /\ OperationEnds(o)
             /\ line' = [line EXCEPT ![p] = After(@, o)]
          \/ /\ ~IsRefused(operation, found)
             /\ operations' = [operations EXCEPT ![o].place = "writing", ![o].found = found,
                                                 ![o].question = Asked]
             /\ line' = [line EXCEPT ![p] = Append(After(@, o), o)]
       /\ UNCHANGED <<instant, open, opened, since, reading, adrift>>

\* Mutant: the window as it was found, whatever became of it.
StandsAsFoundByNumber(found) == open.id = found.id

\* update: guarded by the window's number and the stage it was read in.
StandsAsFound(found) == open = found

Opens(operation) ==
    \/ operation.kind = "announce"
    \/ operation.kind = "lock" /\ operation.found = NoWindow

\* What the write leaves open; one that meets another open window, or one that moved
\* on, does nothing.
Written(operation) ==
    IF Opens(operation)
    THEN [id |-> opened + 1, locked |-> operation.kind = "lock"]
    ELSE IF operation.kind \in {"cancel", "unlock"} THEN NoWindow
    ELSE [open EXCEPT !.locked = @ \/ operation.kind = "lock"]

TakesEffect(operation) ==
    IF Opens(operation) THEN open = NoWindow ELSE StandsAsFound(operation.found)

\* The database does a write.
IsDone(operation) ==
    IF TakesEffect(operation)
    THEN /\ Opens(operation) => opened < MaxWindows
         /\ open' = Written(operation)
         /\ opened' = IF Opens(operation) THEN opened + 1 ELSE opened
         /\ since' = IF open'.locked # open.locked THEN instant ELSE since
    ELSE UNCHANGED <<open, opened, since>>

WritingIsDone(o) ==
    /\ operations[o].place = "writing" /\ operations[o].question.answer = Waiting
    /\ IsDone(operations[o])
    /\ operations' = [operations EXCEPT ![o].question.answer =
            IF TakesEffect(operations[o]) THEN open' ELSE Refused]
    /\ UNCHANGED <<instant, known, line, reading, adrift>>

AdriftIsDone ==
    /\ adrift.place = "writing"
    /\ IsDone(adrift)
    /\ adrift' = NoOperation
    /\ UNCHANGED <<instant, known, line, reading, operations>>

\* Mutant: that a write did nothing is not noticed.
WroteWhatever(answer) == TRUE

Wrote(answer) == answer # Refused

\* ATTEMPTS: how often an operation reads the window.
IsTriedAgain(operation) ==
    operation.kind \in {"reschedule", "cancel", "lock"} /\ operation.attempt < 2

\* Where the window had moved on it is found once more; after an unlock that came
\* too late only to learn what is open.
FindsAgain(operation) ==
    [operation EXCEPT !.place = "finding", !.question = Asked, !.found = NoWindow,
                      !.attempt = IF IsTriedAgain(operation) THEN @ + 1 ELSE @,
                      !.kind = IF @ = "unlock" THEN "overview" ELSE @]

WritingIsAnswered(o) ==
    LET operation == operations[o]
        p == operation.process
        answer == operation.question.answer
    IN /\ operation.place = "writing" /\ answer # Waiting
       /\ \/ /\ Wrote(answer)
             /\ Remembers(p, o, answer, operation.question.at)
             /\ OperationEnds(o)
             /\ line' = [line EXCEPT ![p] = After(@, o)]
          \/ /\ ~Wrote(answer) /\ ~IsTriedAgain(operation) /\ operation.kind # "unlock"
             /\ OperationEnds(o)
             /\ line' = [line EXCEPT ![p] = Without(@, o)]
             /\ UNCHANGED known
          \/ /\ ~Wrote(answer) /\ (IsTriedAgain(operation) \/ operation.kind = "unlock")
             /\ operations' = [operations EXCEPT ![o] = FindsAgain(operation)]
             /\ line' = [line EXCEPT ![p] = Append(Without(@, o), o)]
             /\ UNCHANGED known
       /\ UNCHANGED <<instant, open, opened, since, reading, adrift>>

\* Nobody waits for these any more; a write among them that was sent may still be
\* done, or be lost.
AreLeftAlone(left) ==
    /\ operations' = [o \in Operators |-> IF o \in left THEN NoOperation ELSE operations[o]]
    /\ \/ UNCHANGED adrift
       \/ /\ adrift = NoOperation
          /\ \E o \in left :
                /\ operations[o].place = "writing" /\ operations[o].question.answer = Waiting
                /\ adrift' = [NoOperation EXCEPT !.kind = operations[o].kind,
                                                 !.place = "writing", !.found = operations[o].found]

\* The question, the write or its answer is lost.
OperationFails(o) ==
    /\ operations[o].place # "idle"
    /\ AreLeftAlone({o})
    /\ line' = [p \in Processes |-> Without(line[p], o)]
    /\ UNCHANGED <<instant, open, opened, since, known, reading>>

-----------------------------------------------------------------------------
\* A process stops and is started again.
Restarts(p) ==
    /\ known' = [known EXCEPT ![p] = Unknown]
    /\ line' = [line EXCEPT ![p] = <<>>]
    /\ reading' = [reading EXCEPT ![p] = NotReading]
    /\ AreLeftAlone({o \in Operators : operations[o].process = p})
    /\ UNCHANGED <<instant, open, opened, since>>

InstantPasses ==
    /\ instant < LastInstant /\ instant' = instant + 1
    /\ UNCHANGED <<open, opened, since, known, line, reading, operations, adrift>>

MaintenanceNext ==
    \/ \E p \in Processes :
        RequestComes(p) \/ ReadIsDone(p) \/ ReadIsAnswered(p) \/ ReadFails(p) \/ Restarts(p)
    \/ \E o \in Operators :
        \/ OperationBegins(o) \/ FindingIsDone(o) \/ FindingIsAnswered(o)
        \/ WritingIsDone(o) \/ WritingIsAnswered(o) \/ OperationFails(o)
    \/ AdriftIsDone \/ InstantPasses

MaintenanceSpec == MaintenanceInit /\ [][MaintenanceNext]_maintenanceVars

-----------------------------------------------------------------------------
\* What a process goes by without asking was so less than MaxAge ago: MaxAge after
\* a lock is in the database, when `maintenance on` returns, no process lets anybody
\* through by what it remembers, whatever answers overtook each other (SC-OPS-015).
KnownInTime ==
    \A p \in Processes :
        IsYoung(known[p]) /\ known[p].window.locked # open.locked => instant - since < MaxAge

\* Nor does it let through the requests that waited for an answer, however long the
\* answer took: those are let through only while the lock is not in the database, or
\* has not been there for MaxAge (SC-OPS-015).
LetsThroughInTime ==
    [][\A p \in Processes :
        /\ reading[p].answer \notin {Waiting, Refused} /\ reading'[p] = NotReading
        /\ known'[p] # Unknown /\ ~known'[p].window.locked
        => ~open.locked \/ instant - since < MaxAge]_maintenanceVars

\* A lock ends only by an unlock that found that very lock: not by cancelling or
\* moving a window that was locked meanwhile, and not by an unlock that lost to
\* another one before a later deployment locked again (SC-OPS-014).
EndsByItsUnlock ==
    [][open.locked /\ open' # open =>
        \E write \in {operations[o] : o \in Operators} \union {adrift} :
            write.kind = "unlock" /\ write.place = "writing" /\ write.found = open]_maintenanceVars
=============================================================================
