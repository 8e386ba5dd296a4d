---------------------- MODULE InvoiceCollectionProofs ----------------------
(***************************************************************************)
(* What holds of InvoiceCollection for any number of instances, invoices,   *)
(* attempts and payment methods.  Its variables keep their types, a chain   *)
(* has one open attempt at most, payments are booked as collected, and what *)
(* is settled stays so.  No second request is in doubt while one is out,    *)
(* failures are told, and announcements follow them.  Until a payment is    *)
(* reversed, who was told to replace a payment method is not charged with   *)
(* it again, and no invoice that owes is dropped out of every list.         *)
(*                                                                          *)
(* The invariants build on each other: Sending, what the gateway was asked; *)
(* Telling, what is followed up; Announcing, the order of an invoice's      *)
(* attempts; Replacing, the payment methods they are planned with; Keeping, *)
(* what is still to come of an invoice that owes.  Each has a part about    *)
(* the runs, since a run decides from what it read steps before: what a run *)
(* goes on with is stated once, as Follows.                                 *)
(***************************************************************************)
EXTENDS InvoiceCollection, TLAPS

\* What a run carries from one step to the next: an invoice or an attempt of the
\* chain, and for a record an outcome, for a notice what follows.
Carries(job) ==
    /\ job.op = "start" => job.a[1] \in Invoices
    /\ job.op \notin {"idle", "start", "plan"} => job.a \in Attempts
    /\ job.op = "record" => job.with \in Outcomes
    /\ job.op = "tell" => job.with \in {"again", "replace"}

JobsOK == \A r \in Runs : Carries(run[r])

TypeInv == TypeOK /\ JobsOK

\* What is planned is planned for the invoice that stands: a cancellation leaves
\* nothing planned behind.
PlannedStands == \A a \in Attempts : status[a] = "SCHEDULED" => a[1] = issued /\ ~cancelled

OneOpen == PlannedStands /\ OneOpenPerChain

\* A run that records a success has it from the gateway.
RecordsAsCollected ==
    \A r \in Runs :
        run[r].op = "record" /\ run[r].with = "succeeded" => Collected(charge[run[r].a])

Booked == RecordsAsCollected /\ BookedAsCollected

-----------------------------------------------------------------------------
(* Jobs *)

\* A run that takes up a task carries it, and leaves the other runs theirs.
LEMMA TaskType ==
    ASSUME TypeInv, NEW r \in Runs,
           NEW op \in Ops, NEW a \in (Invoices \union {0}) \X (Numbers \union {0}),
           NEW m \in Methods \union {0},
           NEW with \in Outcomes \union {"none", "again", "replace", "later"},
           op = "start" => a[1] \in Invoices,
           op \notin {"idle", "start", "plan"} => a \in Attempts,
           op = "record" => with \in Outcomes,
           op = "tell" => with \in {"again", "replace"},
           Do(r, Task(op, a, m, with))
    PROVE  run' \in [Runs -> Jobs] /\ JobsOK'
<1>1. DEFINE task == Task(op, a, m, with)
<1>2. task \in Jobs /\ Carries(task)
  BY DEF Task, Jobs, Carries
<1>3. run' = [run EXCEPT ![r] = task]
  BY DEF Do
<1> HIDE DEF task
<1>4. run \in [Runs -> Jobs] /\ \A q \in Runs : Carries(run[q])
  BY DEF TypeInv, TypeOK, JobsOK
<1>5. run' \in [Runs -> Jobs] /\ \A q \in Runs : run'[q] = IF q = r THEN task ELSE run[q]
  BY <1>2, <1>3, <1>4
<1>6. \A q \in Runs : Carries(run'[q])
  BY <1>2, <1>4, <1>5
<1> QED
  BY <1>5, <1>6 DEF JobsOK

\* The same for a task that names no payment method and no outcome.
LEMMA JobType ==
    ASSUME TypeInv, NEW r \in Runs, NEW a \in Attempts,
           NEW op \in Ops \ {"idle", "start", "plan", "record", "tell"},
           Do(r, Job(op, a))
    PROVE  run' \in [Runs -> Jobs] /\ JobsOK'
<1>1. a \in (Invoices \union {0}) \X (Numbers \union {0})
  BY DEF Attempts
<1> QED
  BY <1>1, TaskType DEF Job

LEMMA StopType ==
    ASSUME TypeInv, NEW r \in Runs, Stop(r)
    PROVE  run' \in [Runs -> Jobs] /\ JobsOK'
<1>1. Idle = Task("idle", NoAttempt, 0, "none") /\ NoAttempt \in (Invoices \union {0}) \X (Numbers \union {0})
  BY DEF Idle, Task, NoAttempt
<1> QED
  BY <1>1, TaskType DEF Stop, Ops

LEMMA AttemptType ==
    /\ Attempts \subseteq (Invoices \union {0}) \X (Numbers \union {0})
    /\ \A i \in Invoices : /\ <<i, 1>> \in Attempts
                           /\ <<i, 0>> \in (Invoices \union {0}) \X (Numbers \union {0})
  BY CollectionAssumption DEF CollectionAssumption, Counted, Attempts

\* What a charge answers is an outcome, once there is one.
LEMMA OutcomeType == \A c \in Charges : c # "none" => Outcome(c) \in Outcomes
  BY DEF Charges, Outcome, Outcomes

-----------------------------------------------------------------------------
(* Types *)

\* Whatever a run does next, it carries on a task or is idle.
LEMMA RunStep ==
    ASSUME TypeInv, NEW r \in Runs, TakesOn(r) \/ Proceeds(r) \/ Abandon(r)
    PROVE  run' \in [Runs -> Jobs] /\ JobsOK'
<1> DEFINE Kept == run' \in [Runs -> Jobs] /\ JobsOK'
           a == run[r].a
<1>0. /\ active \in Methods
      /\ charge \in [Attempts -> Charges]
      /\ run[r] \in Jobs
      /\ Carries(run[r])
  BY DEF TypeInv, TypeOK, StoreOK, JobsOK
<1>1. a \in (Invoices \union {0}) \X (Numbers \union {0})
  BY <1>0 DEF Jobs
<1>2. run[r].op \notin {"idle", "start", "plan"} => a \in Attempts
  BY <1>0 DEF Carries
<1>3. ASSUME NEW i \in Invoices, CollectOne(r, i) PROVE Kept
  BY <1>0, <1>3, TaskType, AttemptType DEF CollectOne, Ops
<1>4. ASSUME NEW i \in Invoices, PlanAgain(r, i) PROVE Kept
  BY <1>0, <1>4, TaskType, AttemptType DEF PlanAgain, Ops, Written, Of
<1>5. ASSUME NEW b \in Attempts, SettleOne(r, b) PROVE Kept
  BY <1>5, TaskType, AttemptType DEF SettleOne, Ops, Outcomes
<1>6. ASSUME NEW b \in Attempts, FollowUp(r, b) PROVE Kept
  BY <1>6, TaskType, JobType, AttemptType DEF FollowUp, Ops
<1>7. ASSUME NEW b \in Attempts, TakeUp(r, b) PROVE Kept
  BY <1>7, JobType DEF TakeUp, Ops
<1>8. ASSUME NEW b \in Attempts, Deliver(r, b) PROVE Kept
  BY <1>8 DEF Deliver, TypeInv, TypeOK, JobsOK
<1>9. CASE StartAttempt(r)
  BY <1>0, <1>9, JobType, StopType, AttemptType DEF StartAttempt, Carries, Ops
<1>10. CASE PlanWith(r)
  BY <1>1, <1>2, <1>10, TaskType, StopType DEF PlanWith, Ops
<1>11. CASE Send(r)
  BY <1>2, <1>11, JobType DEF Send, Ops
<1>12. CASE Unanswered(r)
  BY <1>12, StopType DEF Unanswered
<1>13. CASE Answered(r)
  BY <1>0, <1>1, <1>2, <1>13, TaskType, OutcomeType DEF Answered, Ops
<1>14. CASE Record(r)
  BY <1>14, StopType DEF Record
<1>15. CASE Ask(r)
  <2>1. CASE charge[a] # "none"
    BY <1>0, <1>1, <1>2, <1>15, <2>1, TaskType, OutcomeType DEF Ask, Ops
  <2>2. CASE charge[a] = "none"
    BY <1>2, <1>15, <2>2, JobType, StopType DEF Ask, Ops
  <2> QED BY <2>1, <2>2
<1>16. CASE AbandonPaid(r)
  BY <1>2, <1>16, JobType, StopType DEF AbandonPaid, Ops
<1>17. CASE Resend(r)
  BY <1>2, <1>17, JobType, StopType DEF Resend, Ops
<1>18. CASE AttemptAfter(r)
  BY <1>0, <1>1, <1>2, <1>18, TaskType, StopType DEF AttemptAfter, Ops
<1>19. CASE TellFailure(r)
  BY <1>2, <1>19, JobType DEF TellFailure, Ops
<1>20. CASE Mark(r) \/ FollowUpReversal(r) \/ Withdraw(r) \/ RecordAnnounced(r) \/ Abandon(r)
  BY <1>20, StopType DEF Mark, FollowUpReversal, Withdraw, RecordAnnounced, Abandon
<1>21. CASE Announce(r)
  BY <1>2, <1>21, JobType, StopType DEF Announce, Ops
<1>22. CASE SubmitPlanned(r)
  BY <1>2, <1>22, JobType, StopType DEF SubmitPlanned, Ops
<1> QED
  BY <1>3, <1>4, <1>5, <1>6, <1>7, <1>8, <1>9, <1>10, <1>11, <1>12, <1>13, <1>14, <1>15, <1>16,
     <1>17, <1>18, <1>19, <1>20, <1>21, <1>22 DEF TakesOn, Proceeds

\* Whatever a run, the gateway, the operator or the clock does, the tables keep
\* their types.
LEMMA RecordOutcomeType ==
    ASSUME TypeInv, NEW a \in Attempts, NEW outcome \in Outcomes, RecordOutcome(a, outcome)
    PROVE  /\ status' \in [Attempts -> Statuses] /\ reason' \in [Attempts -> Reasons]
           /\ payments' \in SUBSET Attempts /\ owing' \in BOOLEAN
<1>0. /\ status \in [Attempts -> Statuses] /\ reason \in [Attempts -> Reasons]
      /\ payments \in SUBSET Attempts /\ owing \in BOOLEAN
  BY DEF TypeInv, TypeOK, StoreOK
<1>1. payments' \in SUBSET Attempts /\ owing' \in BOOLEAN
  <2>1. StillOwingAfter(a) \subseteq BOOLEAN
    BY DEF StillOwingAfter
  <2>2. \/ payments' = payments /\ owing' = owing
        \/ payments' = payments \union {a} /\ owing' \in StillOwingAfter(a)
    BY DEF RecordOutcome, RecordPayment
  <2> QED BY <1>0, <2>1, <2>2
<1>2. CASE Settle(a, outcome)
  <2>1. CASE outcome = "failed"
    BY <1>0, <1>1, <1>2, <2>1 DEF Settle, Statuses, Reasons
  <2>2. CASE outcome # "failed"
    <3>1. status' \in [Attempts -> Statuses]
      BY <1>0, <1>2, <2>2 DEF Settle, Outcomes, Statuses, BLOCKING, OPEN, UNSETTLED
    <3>2. UNCHANGED reason
      BY <1>2, <2>2 DEF Settle, Outcomes
    <3> QED BY <1>0, <1>1, <3>1, <3>2
  <2> QED BY <2>1, <2>2
<1>3. CASE ArrivedAfterAll(a)
  BY <1>0, <1>1, <1>3 DEF ArrivedAfterAll, Statuses, BLOCKING, OPEN, UNSETTLED, Reasons
<1> QED
  BY <1>0, <1>1, <1>2, <1>3 DEF RecordOutcome

LEMMA StoreStep ==
    ASSUME TypeInv, [Next]_vars
    PROVE  StoreOK'
<1>0. \A r \in Runs : run[r] \in Jobs /\ Carries(run[r])
  BY DEF TypeInv, TypeOK, JobsOK
<1>22. /\ status \in [Attempts -> Statuses] /\ method \in [Attempts -> Methods \union {0}]
       /\ due \in [Attempts -> BOOLEAN] /\ announced \in [Attempts -> BOOLEAN]
       /\ announcedNotice \in [Attempts -> {"none", "delivered"}]
       /\ \A r \in Runs : run[r].m \in Methods \union {0}
  BY <1>0 DEF TypeInv, TypeOK, StoreOK, Jobs
\* What a run that opens an attempt writes, and what it leaves alone.
<1>23. ASSUME NEW r \in Runs, StartAttempt(r)
       PROVE  /\ status' \in [Attempts -> Statuses] /\ method' \in [Attempts -> Methods \union {0}]
              /\ UNCHANGED <<chain, active, reason, announced, due, followedUp, reversedAt, notices,
                             money, gateway>>
  <2>1. /\ \/ UNCHANGED <<status, method>>
           \/ \E a : /\ status' = [status EXCEPT ![a] = "SUBMITTED"]
                     /\ method' = [method EXCEPT ![a] = run[r].m]
        /\ UNCHANGED <<chain, active, reason, announced, due, followedUp, reversedAt, notices,
                       money, gateway>>
    BY <1>23 DEF StartAttempt
  <2>2. "SUBMITTED" \in Statuses
    BY DEF Statuses, BLOCKING, OPEN, UNSETTLED
  <2> QED BY <1>22, <2>1, <2>2
<1>24. ASSUME NEW r \in Runs, PlanWith(r)
       PROVE  /\ status' \in [Attempts -> Statuses] /\ method' \in [Attempts -> Methods \union {0}]
              /\ due' \in [Attempts -> BOOLEAN]
              /\ UNCHANGED <<chain, active, reason, announced, followedUp, reversedAt, notices,
                             money, gateway>>
  <2>1. /\ \/ UNCHANGED <<status, method, due>>
           \/ \E a : /\ status' = [status EXCEPT ![a] = "SCHEDULED"]
                     /\ method' = [method EXCEPT ![a] = run[r].m]
                     /\ due' = [due EXCEPT ![a] = run[r].with # "later"]
        /\ UNCHANGED <<chain, active, reason, announced, followedUp, reversedAt, notices,
                       money, gateway>>
    BY <1>24 DEF PlanWith
  <2>2. "SCHEDULED" \in Statuses /\ (run[r].with # "later") \in BOOLEAN
    BY DEF Statuses, BLOCKING, OPEN
  <2>3. due' \in [Attempts -> BOOLEAN]
    BY <1>22, <2>1, <2>2
  <2> QED BY <1>22, <2>1, <2>2, <2>3
\* The announcement of an attempt, and its day.
<1>25. ASSUME NEW r \in Runs, Announce(r)
       PROVE  /\ announcedNotice' \in [Attempts -> {"none", "delivered"}]
              /\ UNCHANGED <<chain, active, attempts, failedNotice, reversedNotice, failedNext,
                             reversedNext, money, gateway>>
  BY <1>22, <1>25 DEF Announce
<1>26. ASSUME NEW r \in Runs, RecordAnnounced(r)
       PROVE  /\ announced' \in [Attempts -> BOOLEAN] /\ due' \in [Attempts -> BOOLEAN]
              /\ UNCHANGED <<chain, active, status, method, reason, followedUp, reversedAt, notices,
                             money, gateway>>
  <2>1. /\ \/ UNCHANGED <<announced, due>>
           \/ \E a : /\ announced' = [announced EXCEPT ![a] = TRUE]
                     /\ due' = [due EXCEPT ![a] = FALSE]
        /\ UNCHANGED <<chain, active, status, method, reason, followedUp, reversedAt, notices,
                       money, gateway>>
    BY <1>26 DEF RecordAnnounced
  <2> QED BY <1>22, <2>1
<1> USE DEF TypeInv, TypeOK, StoreOK, chain, attempts, notices, money, gateway
<1>1. ASSUME NEW r \in Runs, TakesOn(r) PROVE StoreOK'
  <2>1. ASSUME NEW a \in Attempts, Deliver(r, a) PROVE StoreOK'
    BY <2>1 DEF Deliver
  <2>2. CASE \E i \in Invoices : CollectOne(r, i) \/ PlanAgain(r, i)
    <3>1. UNCHANGED <<chain, active, attempts, notices, money, gateway>>
      BY <2>2 DEF CollectOne, PlanAgain
    <3> QED BY <3>1
  <2>3. CASE \E a \in Attempts : SettleOne(r, a) \/ FollowUp(r, a) \/ TakeUp(r, a)
    <3>1. UNCHANGED <<chain, active, attempts, notices, money, gateway>>
      BY <2>3 DEF SettleOne, FollowUp, TakeUp
    <3> QED BY <3>1
  <2> QED BY <1>1, <2>1, <2>2, <2>3 DEF TakesOn
<1>2. ASSUME NEW r \in Runs, StartAttempt(r) PROVE StoreOK'
  BY <1>2, <1>23
<1>3. ASSUME NEW r \in Runs, PlanWith(r) PROVE StoreOK'
  BY <1>3, <1>24
<1>4. ASSUME NEW r \in Runs, Send(r) PROVE StoreOK'
  BY <1>0, <1>4 DEF Send, Carries
<1>5. ASSUME NEW r \in Runs, Unanswered(r) \/ Answered(r) \/ Ask(r) \/ AttemptAfter(r) \/ Abandon(r)
      PROVE StoreOK'
  BY <1>5 DEF Unanswered, Answered, Ask, AttemptAfter, Abandon
<1>6. ASSUME NEW r \in Runs, Record(r) PROVE StoreOK'
  <2>1. run[r].a \in Attempts /\ run[r].with \in Outcomes
    BY <1>0, <1>6 DEF Record, Carries
  <2> QED
    BY <1>6, <2>1, RecordOutcomeType DEF Record, RecordOutcome
<1>7. ASSUME NEW r \in Runs, AbandonPaid(r) \/ Resend(r) PROVE StoreOK'
  BY <1>7 DEF AbandonPaid, Resend, Statuses, Reasons
<1>8. ASSUME NEW r \in Runs, TellFailure(r) PROVE StoreOK'
  BY <1>0, <1>8 DEF TellFailure, Carries
<1>9. ASSUME NEW r \in Runs, Mark(r) PROVE StoreOK'
  BY <1>9 DEF Mark, MarkFollowedUp
<1>10. ASSUME NEW r \in Runs, FollowUpReversal(r) PROVE StoreOK'
  BY <1>10 DEF FollowUpReversal, MarkFollowedUp
<1>11. ASSUME NEW r \in Runs, Withdraw(r) \/ SubmitPlanned(r) PROVE StoreOK'
  BY <1>11 DEF Withdraw, SubmitPlanned, Statuses, BLOCKING, OPEN, UNSETTLED
<1>12. ASSUME NEW r \in Runs, Announce(r) \/ RecordAnnounced(r) PROVE StoreOK'
  BY <1>12, <1>25, <1>26
<1>13. ASSUME NEW a \in Attempts, GatewayTakes(a) \/ GatewayMisses(a) \/ GatewaySettles(a) PROVE StoreOK'
  <2>1. charge' \in [Attempts -> Charges] /\ flight' \in SUBSET Attempts
    <3>1. CASE GatewayTakes(a) \/ GatewayMisses(a)
      BY <3>1 DEF GatewayTakes, GatewayMisses, Charges
    <3>2. CASE GatewaySettles(a)
      <4>1. \E c \in Charges : charge' = [charge EXCEPT ![a] = c]
        BY <3>2 DEF GatewaySettles, Charges
      <4>2. UNCHANGED flight
        BY <3>2 DEF GatewaySettles
      <4> QED BY <4>1, <4>2
    <3> QED BY <1>13, <3>1, <3>2
  <2>2. UNCHANGED <<chain, active, attempts, notices, money>>
    BY <1>13 DEF GatewayTakes, GatewayMisses, GatewaySettles
  <2> QED BY <2>1, <2>2
<1>14. ASSUME NEW a \in Attempts, ReversalReported(a) PROVE StoreOK'
  <2>1. /\ status' \in [Attempts -> Statuses]
        /\ followedUp' \in [Attempts -> Nat \union {Never}]
        /\ reversedAt' \in [Attempts -> Nat]
    <3>1. ASSUME NEW marked, MarkReversed(marked)
          PROVE  /\ status' \in [Attempts -> Statuses]
                 /\ followedUp' \in [Attempts -> Nat \union {Never}]
                 /\ reversedAt' \in [Attempts -> Nat]
      BY <3>1 DEF MarkReversed, Statuses
    <3>2. \/ \E marked : MarkReversed(marked)
          \/ UNCHANGED <<status, followedUp, reversedAt>>
      BY <1>14 DEF ReversalReported
    <3> QED BY <3>1, <3>2
  <2>2. owing' \in BOOLEAN /\ short' \in SUBSET Attempts
    BY <1>14 DEF ReversalReported
  <2>3. withdrawn' \in SUBSET Attempts /\ partly' \in SUBSET Attempts /\ reversals' \in Nat
    BY <1>14 DEF ReversalReported
  <2>4. UNCHANGED <<issued, cancelled, named, active, method, reason, announced, due, notices,
                    payments, gateway>>
    BY <1>14 DEF ReversalReported
  <2> QED BY <2>1, <2>2, <2>3, <2>4
<1>15. ASSUME NEW a \in Attempts, ReinstatementReported(a) PROVE StoreOK'
  BY <1>15 DEF ReinstatementReported
<1>16. ASSUME NEW a \in Attempts, NEW outcome \in Outcomes, CollectionReported(a, outcome) PROVE StoreOK'
  BY <1>16, RecordOutcomeType DEF CollectionReported, RecordOutcome
<1>17. CASE Replace
  BY <1>17 DEF Replace, WithdrawPlanned, Statuses
<1>18. CASE CancelAll
  BY <1>18 DEF CancelAll, WithdrawPlanned, Statuses
<1>19. CASE ReplaceMethod
  BY <1>19 DEF ReplaceMethod
<1>20. ASSUME NEW a \in Attempts, DayComes(a) PROVE StoreOK'
  BY <1>20 DEF DayComes
<1>21. CASE UNCHANGED vars
  BY <1>21 DEF vars
<1> QED
  BY <1>1, <1>2, <1>3, <1>4, <1>5, <1>6, <1>7, <1>8, <1>9, <1>10, <1>11, <1>12, <1>13, <1>14,
     <1>15, <1>16, <1>17, <1>18, <1>19, <1>20, <1>21 DEF Next, Proceeds, Gateway, Outside

\* Initially nothing is collected, and no run has an item.
LEMMA TypeInit == Init => TypeInv
<1> SUFFICES ASSUME Init PROVE TypeInv
  OBVIOUS
<1>1. 1 \in Invoices /\ 1 \in Methods
  BY CollectionAssumption DEF CollectionAssumption, Counted
<1>2. StoreOK
  BY <1>1 DEF Init, StoreOK, Statuses, Reasons, Charges
<1>3. Idle \in Jobs /\ Carries(Idle)
  BY DEF Idle, Jobs, NoAttempt, Ops, Carries
<1> QED
  BY <1>2, <1>3 DEF Init, TypeInv, TypeOK, JobsOK

LEMMA TypeStep == TypeInv /\ [Next]_vars => TypeInv'
<1> SUFFICES ASSUME TypeInv, [Next]_vars PROVE TypeInv'
  OBVIOUS
<1>1. StoreOK'
  BY StoreStep
<1>2. CASE UNCHANGED run
  BY <1>1, <1>2 DEF TypeInv, TypeOK, JobsOK
<1>3. ASSUME NEW r \in Runs, TakesOn(r) \/ Proceeds(r) \/ Abandon(r) PROVE TypeInv'
  BY <1>1, <1>3, RunStep DEF TypeInv, TypeOK
<1>4. Gateway \/ Outside \/ UNCHANGED vars => UNCHANGED run
  BY DEF Gateway, Outside, vars, GatewayTakes, GatewayMisses, GatewaySettles, ReversalReported,
         ReinstatementReported, CollectionReported, Replace, CancelAll, ReplaceMethod, DayComes
<1> QED
  BY <1>2, <1>3, <1>4 DEF Next

\* The rows of the tables, the gateway's charges and what a run carries keep
\* their types, for any number of instances, invoices, attempts and methods.
THEOREM TypeCorrect == Spec => []TypeOK
<1>1. Init => TypeInv
  BY TypeInit
<1>2. TypeInv /\ [Next]_vars => TypeInv'
  BY TypeStep
<1>3. TypeInv => TypeOK
  BY DEF TypeInv
<1> QED
  BY <1>1, <1>2, <1>3, PTL DEF Spec

-----------------------------------------------------------------------------
(* One open attempt *)

\* What opens nothing and plans nothing leaves one open attempt at most.
LEMMA Narrowed ==
    ASSUME OneOpen,
           \A a \in Attempts : /\ status'[a] \in OPEN => status[a] \in OPEN
                               /\ status'[a] \in BLOCKING => status[a] \in BLOCKING
                               /\ status'[a] = "SCHEDULED" => status[a] = "SCHEDULED",
           UNCHANGED <<issued, cancelled>>
    PROVE  OneOpen'
  BY DEF OneOpen, PlannedStands, OneOpenPerChain

\* An invoice that is issued has a number of its own, and none is the chain's end.
LEMMA StandingIsIssued ==
    ASSUME NEW i \in Invoices, Owes(i)
    PROVE  i = issued /\ ~cancelled
<1>1. 0 \notin Invoices
  BY CollectionAssumption DEF CollectionAssumption, Counted
<1> QED
  BY <1>1 DEF Owes, Standing

\* An attempt written in the chain's turn is the only one open: the invoice has
\* no other that is open or succeeded, no other invoice one on its way, and what
\* is planned is planned for this one.
LEMMA WrittenAlone ==
    ASSUME TypeInv, OneOpen, NEW next \in Attempts, NEW m, NEW new \in OPEN,
           Owes(next[1]), ~HeldBackByItsChain(next[1], m),
           \A b \in Of(next[1]) : status[b] \notin BLOCKING,
           status' = [status EXCEPT ![next] = new],
           UNCHANGED <<issued, cancelled>>
    PROVE  OneOpen'
<1>1. next[1] = issued /\ ~cancelled
  BY StandingIsIssued DEF Attempts
<1>2. \A a \in Attempts : status'[a] = IF a = next THEN new ELSE status[a]
  BY DEF TypeInv, TypeOK, StoreOK
<1>3. \A a \in Attempts : status[a] \notin OPEN
  <2> SUFFICES ASSUME NEW a \in Attempts, status[a] \in OPEN PROVE FALSE
    OBVIOUS
  <2>1. a \notin Of(next[1])
    BY DEF BLOCKING
  <2>2. status[a] = "SCHEDULED"
    BY <2>1 DEF HeldBackByItsChain, OPEN
  <2>3. a[1] = next[1]
    BY <1>1, <2>2 DEF OneOpen, PlannedStands
  <2> QED
    BY <2>1, <2>3 DEF Of
<1>4. PlannedStands'
  BY <1>1, <1>2, <1>3 DEF PlannedStands, OPEN
<1>5. \A a \in Attempts : status'[a] \in OPEN => a = next
  BY <1>2, <1>3
<1>6. \A a, b \in Attempts :
        a[1] = b[1] /\ status'[a] \in BLOCKING /\ status'[b] \in BLOCKING => a = b
  BY <1>2 DEF OneOpen, OneOpenPerChain, Of
<1> QED
  BY <1>4, <1>5, <1>6 DEF OneOpen, OneOpenPerChain

\* Of a late success, one attempt of the invoice that succeeded is left.
LEMMA OutcomeNarrows ==
    ASSUME TypeInv, OneOpen, NEW a \in Attempts, NEW outcome \in Outcomes,
           RecordOutcome(a, outcome)
    PROVE  OneOpen'
<1>1. UNCHANGED <<issued, cancelled>>
  BY DEF RecordOutcome
<1>2. status \in [Attempts -> Statuses]
  BY DEF TypeInv, TypeOK, StoreOK
<1>3. CASE status[a] \in UNSETTLED /\ Settle(a, outcome)
  <2>1. \E new \in {"SUCCEEDED", "PENDING", "FAILED"} : status' = [status EXCEPT ![a] = new]
    BY <1>3 DEF Settle, Outcomes
  <2>2. \A b \in Attempts : \/ status'[b] = status[b]
                            \/ b = a /\ status'[b] \in {"SUCCEEDED", "PENDING", "FAILED"}
    BY <1>2, <2>1
  <2>3. CASE status'[a] # "PENDING"
    BY <1>1, <1>3, <2>2, <2>3, Narrowed DEF OPEN, BLOCKING, UNSETTLED
  <2>4. CASE status'[a] = "PENDING"
    BY <1>1, <1>3, <2>2, <2>4, Narrowed DEF OPEN, BLOCKING, UNSETTLED
  <2> QED BY <2>3, <2>4
<1>4. CASE status[a] = "FAILED" /\ ArrivedAfterAll(a)
  <2>1. \A b \in Attempts :
            /\ status'[b] \in OPEN => b # a /\ status[b] \in OPEN
            /\ status'[b] = "SCHEDULED" => status[b] = "SCHEDULED"
            /\ b[1] = a[1] => status'[b] # "SCHEDULED"
            /\ b # a /\ status'[b] \in BLOCKING => status[b] \in BLOCKING
    BY <1>4 DEF ArrivedAfterAll, OPEN, UNSETTLED, BLOCKING
  <2>2. status'[a] \in BLOCKING =>
            \A b \in Attempts : b[1] = a[1] /\ status'[b] \in BLOCKING => b = a
    BY <1>4, <2>1 DEF ArrivedAfterAll, OPEN, BLOCKING, UNSETTLED, Of
  <2>3. PlannedStands'
    BY <1>1, <2>1 DEF OneOpen, PlannedStands
  <2>4. \A b, c \in Attempts : status'[b] \in OPEN /\ status'[c] \in OPEN => b = c
    BY <2>1 DEF OneOpen, OneOpenPerChain
  <2>5. \A b, c \in Attempts :
            b[1] = c[1] /\ status'[b] \in BLOCKING /\ status'[c] \in BLOCKING => b = c
    BY <2>1, <2>2 DEF OneOpen, OneOpenPerChain
  <2> QED
    BY <2>3, <2>4, <2>5 DEF OneOpen, OneOpenPerChain
<1>5. CASE UNCHANGED status
  BY <1>1, <1>5, Narrowed
<1> QED
  BY <1>3, <1>4, <1>5 DEF RecordOutcome

LEMMA OneOpenStep ==
    ASSUME TypeInv, OneOpen, [Next]_vars
    PROVE  OneOpen'
<1> USE DEF chain, attempts
<1>0. /\ status \in [Attempts -> Statuses]
      /\ \A r \in Runs : run[r] \in Jobs /\ Carries(run[r])
      /\ issued \in Invoices /\ cancelled \in BOOLEAN
  BY DEF TypeInv, TypeOK, StoreOK, JobsOK
<1>1. CASE UNCHANGED <<status, issued, cancelled>>
  BY <1>1, Narrowed
<1>2. ASSUME NEW r \in Runs, StartAttempt(r) PROVE OneOpen'
  <2>1. CASE Stop(r) /\ UNCHANGED status
    BY <1>1, <1>2, <2>1 DEF StartAttempt
  <2> DEFINE first == <<run[r].a[1], 1>>
  <2>2. CASE Owes(first[1]) /\ ~RefusesFirstAttempt(first[1]) /\ ~HeldBackByItsChain(first[1], run[r].m)
    <3>1. first \in Attempts
      BY <1>0, <1>2, AttemptType DEF StartAttempt, Carries
    <3>2. status' = [status EXCEPT ![first] = "SUBMITTED"] /\ UNCHANGED <<issued, cancelled>>
      BY <1>2, <2>2 DEF StartAttempt
    <3>3. \A b \in Of(first[1]) : status[b] = "none"
      BY <2>2 DEF RefusesFirstAttempt, Written
    <3>4. "SUBMITTED" \in OPEN /\ \A b \in Of(first[1]) : status[b] \notin BLOCKING
      BY <3>3 DEF BLOCKING, OPEN, UNSETTLED
    <3> QED
      BY <2>2, <3>1, <3>2, <3>4, WrittenAlone
  <2> QED
    BY <1>2, <2>1, <2>2 DEF StartAttempt
<1>3. ASSUME NEW r \in Runs, PlanWith(r) PROVE OneOpen'
  <2>1. CASE Stop(r) /\ UNCHANGED status
    BY <1>1, <1>3, <2>1 DEF PlanWith
  <2> DEFINE next == <<run[r].a[1], run[r].a[2] + 1>>
  <2>2. CASE /\ Owes(next[1])
             /\ ~RefusesPlannedAttempt(next[1], run[r].a[2])
             /\ ~HeldBackByItsChain(next[1], run[r].m)
             /\ HasNext(next[1], run[r].a[2])
    <3>1. next \in Attempts
      BY <2>2 DEF HasNext
    <3>2. status' = [status EXCEPT ![next] = "SCHEDULED"] /\ UNCHANGED <<issued, cancelled>>
      BY <1>3, <2>2 DEF PlanWith
    <3>3. "SCHEDULED" \in OPEN /\ \A b \in Of(next[1]) : status[b] \notin BLOCKING
      BY <2>2 DEF RefusesPlannedAttempt, OPEN
    <3> QED
      BY <2>2, <3>1, <3>2, <3>3, WrittenAlone
  <2> QED
    BY <1>3, <2>1, <2>2 DEF PlanWith
<1>4. ASSUME NEW r \in Runs, Record(r) PROVE OneOpen'
  BY <1>0, <1>4, OutcomeNarrows DEF Record, Carries
<1>5. ASSUME NEW a \in Attempts, NEW outcome \in Outcomes, CollectionReported(a, outcome) PROVE OneOpen'
  BY <1>5, OutcomeNarrows DEF CollectionReported
<1>6. ASSUME NEW r \in Runs, AbandonPaid(r) \/ Resend(r) \/ Withdraw(r) PROVE OneOpen'
  <2>1. \/ UNCHANGED status
        \/ status' = [status EXCEPT ![run[r].a] = "FAILED"]
        \/ status' = [status EXCEPT ![run[r].a] = "WITHDRAWN"]
    BY <1>6 DEF AbandonPaid, Resend, Withdraw
  <2>2. UNCHANGED <<issued, cancelled>>
    BY <1>6 DEF AbandonPaid, Resend, Withdraw
  <2>3. \A b \in Attempts : status'[b] = status[b] \/ status'[b] \in {"FAILED", "WITHDRAWN"}
    BY <1>0, <2>1
  <2> QED
    BY <2>2, <2>3, Narrowed DEF BLOCKING, OPEN, UNSETTLED
<1>7. ASSUME NEW r \in Runs, SubmitPlanned(r) PROVE OneOpen'
  <2>1. UNCHANGED <<issued, cancelled>>
    BY <1>7 DEF SubmitPlanned
  <2>2. \A b \in Attempts :
            \/ status'[b] = status[b]
            \/ status[b] = "SCHEDULED" /\ status'[b] = "SUBMITTED"
    BY <1>0, <1>7 DEF SubmitPlanned
  <2> QED
    BY <2>1, <2>2, Narrowed DEF BLOCKING, OPEN, UNSETTLED
<1>8. ASSUME NEW a \in Attempts, ReversalReported(a) PROVE OneOpen'
  <2>1. UNCHANGED <<issued, cancelled>>
    BY <1>8 DEF ReversalReported
  <2>2. \/ UNCHANGED status
        \/ \E marked : MarkReversed(marked)
    BY <1>8 DEF ReversalReported
  <2>3. \A b \in Attempts : status'[b] = status[b] \/ status'[b] = "REVERSED"
    BY <2>2 DEF MarkReversed
  <2> QED
    BY <2>1, <2>3, Narrowed DEF BLOCKING, OPEN, UNSETTLED
<1>9. CASE Replace \/ CancelAll
  <2>1. WithdrawPlanned(issued) /\ ~cancelled
    BY <1>9 DEF Replace, CancelAll
  <2>2. \A b \in Attempts : status'[b] = status[b] \/ status'[b] = "WITHDRAWN"
    BY <2>1 DEF WithdrawPlanned
  <2>3. \A b \in Attempts : status'[b] # "SCHEDULED"
    BY <2>1 DEF WithdrawPlanned, OneOpen, PlannedStands
  <2>4. \A b \in Attempts : /\ status'[b] \in OPEN => status[b] \in OPEN
                            /\ status'[b] \in BLOCKING => status[b] \in BLOCKING
    BY <2>2 DEF BLOCKING, OPEN, UNSETTLED
  <2> QED
    BY <2>3, <2>4 DEF OneOpen, PlannedStands, OneOpenPerChain
<1>10. ASSUME NEW r \in Runs, TakesOn(r) \/ Abandon(r) PROVE UNCHANGED <<status, issued, cancelled>>
  BY <1>10 DEF TakesOn, Abandon, CollectOne, PlanAgain, SettleOne, FollowUp, TakeUp, Deliver
<1>11. ASSUME NEW r \in Runs,
              \/ Send(r) \/ Unanswered(r) \/ Answered(r) \/ Ask(r) \/ AttemptAfter(r) \/ TellFailure(r)
              \/ Mark(r) \/ FollowUpReversal(r) \/ Announce(r) \/ RecordAnnounced(r)
       PROVE  UNCHANGED <<status, issued, cancelled>>
  BY <1>11 DEF Send, Unanswered, Answered, Ask, AttemptAfter, TellFailure, Mark, FollowUpReversal,
               Announce, RecordAnnounced
<1>12. ASSUME NEW a \in Attempts,
              \/ GatewayTakes(a) \/ GatewayMisses(a) \/ GatewaySettles(a)
              \/ ReinstatementReported(a) \/ DayComes(a) \/ ReplaceMethod
       PROVE  UNCHANGED <<status, issued, cancelled>>
  BY <1>12 DEF GatewayTakes, GatewayMisses, GatewaySettles, ReinstatementReported, DayComes, ReplaceMethod
<1>13. ReplaceMethod \/ UNCHANGED vars => UNCHANGED <<status, issued, cancelled>>
  BY DEF ReplaceMethod, vars
<1> QED
  BY <1>1, <1>2, <1>3, <1>4, <1>5, <1>6, <1>7, <1>8, <1>9, <1>10, <1>11, <1>12, <1>13
     DEF Next, Proceeds, Gateway, Outside

\* An invoice has at most one attempt that is open or succeeded, and a chain one
\* that is planned or on its way: for any number of instances that decide from
\* what they read before, and whatever is reported or cancelled meanwhile.
THEOREM OneOpenAlways == Spec => []OneOpenPerChain
<1>1. Init => OneOpen
  BY DEF Init, OneOpen, PlannedStands, OneOpenPerChain, BLOCKING, OPEN, UNSETTLED
<1>2. TypeInv /\ OneOpen /\ [Next]_vars => TypeInv' /\ OneOpen'
  BY TypeStep, OneOpenStep
<1>3. OneOpen => OneOpenPerChain
  BY DEF OneOpen
<1> QED
  BY <1>1, <1>2, <1>3, TypeInit, PTL DEF Spec

-----------------------------------------------------------------------------
(* Payments *)

\* A run that takes up a task records a success only where the gateway has it.
LEMMA TaskRecords ==
    ASSUME TypeInv, RecordsAsCollected, UNCHANGED charge,
           NEW r \in Runs, NEW op, NEW a, NEW m, NEW with, Do(r, Task(op, a, m, with)),
           op = "record" /\ with = "succeeded" => Collected(charge[a])
    PROVE  RecordsAsCollected'
<1>1. /\ Task(op, a, m, with).op = op
      /\ Task(op, a, m, with).a = a
      /\ Task(op, a, m, with).with = with
  BY DEF Task
<1>2. \A q \in Runs : run'[q] = IF q = r THEN Task(op, a, m, with) ELSE run[q]
  BY DEF Do, TypeInv, TypeOK
<1> QED
  BY <1>1, <1>2 DEF RecordsAsCollected

LEMMA StopRecords ==
    ASSUME TypeInv, RecordsAsCollected, UNCHANGED charge, NEW r \in Runs, Stop(r)
    PROVE  RecordsAsCollected'
<1>1. Idle = Task("idle", NoAttempt, 0, "none")
  BY DEF Idle, Task
<1> QED
  BY <1>1, TaskRecords DEF Stop

\* Of what a run takes up, carries on or gives up, only the answers of the
\* gateway are recorded.
LEMMA RecordsStep ==
    ASSUME TypeInv, RecordsAsCollected, NEW r \in Runs, TakesOn(r) \/ Proceeds(r) \/ Abandon(r)
    PROVE  RecordsAsCollected'
<1>0. \A c \in Charges : Outcome(c) = "succeeded" => Collected(c)
  BY DEF Charges, Outcome, Collected
<1>1. charge \in [Attempts -> Charges] /\ Carries(run[r])
  BY DEF TypeInv, TypeOK, StoreOK, JobsOK
<1>2. UNCHANGED charge
  BY DEF TakesOn, Proceeds, Abandon, gateway, CollectOne, PlanAgain, SettleOne, FollowUp, TakeUp, Deliver,
         StartAttempt, PlanWith, Send, Unanswered, Answered, Record, Ask, AbandonPaid, Resend,
         AttemptAfter, TellFailure, Mark, FollowUpReversal, Withdraw, Announce, RecordAnnounced,
         SubmitPlanned
<1>3. CASE Answered(r) \/ Ask(r)
  <2>1. run[r].a \in Attempts
    BY <1>1, <1>3 DEF Answered, Ask, Carries
  <2>2. \/ Do(r, Task("record", run[r].a, 0, Outcome(charge[run[r].a])))
        \/ Do(r, Task("decide", run[r].a, 0, "none"))
        \/ Stop(r)
    BY <1>3 DEF Answered, Ask, Job
  <2> QED
    BY <1>0, <1>1, <1>2, <2>1, <2>2, TaskRecords, StopRecords
<1>4. CASE UNCHANGED run
  BY <1>2, <1>4 DEF RecordsAsCollected
<1>5. CASE \/ Stop(r)
           \/ \E op \in Ops \ {"record"} : \E a, m, with : Do(r, Task(op, a, m, with))
  BY <1>2, <1>5, TaskRecords, StopRecords
<1>6. ASSUME TakesOn(r) PROVE RecordsAsCollected'
  <2>1. ASSUME NEW i \in Invoices, CollectOne(r, i) \/ PlanAgain(r, i) PROVE RecordsAsCollected'
    BY <1>5, <2>1 DEF CollectOne, PlanAgain, Ops
  <2>2. ASSUME NEW a \in Attempts, SettleOne(r, a) \/ FollowUp(r, a) \/ TakeUp(r, a)
        PROVE  RecordsAsCollected'
    BY <1>5, <2>2 DEF SettleOne, FollowUp, TakeUp, Job, Ops
  <2>3. ASSUME NEW a \in Attempts, Deliver(r, a) PROVE RecordsAsCollected'
    BY <1>4, <2>3 DEF Deliver
  <2> QED BY <1>6, <2>1, <2>2, <2>3 DEF TakesOn
<1>7. CASE StartAttempt(r) \/ PlanWith(r) \/ Send(r) \/ Unanswered(r) \/ Record(r)
  BY <1>5, <1>7 DEF StartAttempt, PlanWith, Send, Unanswered, Record, Job, Ops
<1>8. CASE AbandonPaid(r) \/ Resend(r) \/ AttemptAfter(r) \/ TellFailure(r) \/ Mark(r)
  BY <1>5, <1>8 DEF AbandonPaid, Resend, AttemptAfter, TellFailure, Mark, Job, Ops
<1>9. CASE \/ FollowUpReversal(r) \/ Withdraw(r) \/ Announce(r) \/ RecordAnnounced(r)
           \/ SubmitPlanned(r) \/ Abandon(r)
  BY <1>5, <1>9 DEF FollowUpReversal, Withdraw, Announce, RecordAnnounced, SubmitPlanned, Abandon, Job, Ops
<1> QED
  BY <1>3, <1>6, <1>7, <1>8, <1>9 DEF Proceeds

\* The outcome of a charge that is recorded: a success with its payment.
LEMMA OutcomeBooked ==
    ASSUME TypeInv, BookedAsCollected, UNCHANGED charge,
           NEW a \in Attempts, NEW outcome \in Outcomes,
           outcome = "succeeded" => Collected(charge[a]),
           RecordOutcome(a, outcome)
    PROVE  BookedAsCollected'
<1>1. payments' = IF outcome = "succeeded" THEN payments \union {a} ELSE payments
  BY DEF RecordOutcome, RecordPayment
<1>2. \A b \in Attempts : status'[b] = "SUCCEEDED" =>
            \/ status[b] = "SUCCEEDED"
            \/ b = a /\ outcome = "succeeded"
  <2>1. status \in [Attempts -> Statuses]
    BY DEF TypeInv, TypeOK, StoreOK
  <2>2. CASE Settle(a, outcome)
    BY <2>1, <2>2 DEF Settle, Outcomes
  <2>3. CASE outcome = "succeeded" /\ ArrivedAfterAll(a)
    BY <2>1, <2>3 DEF ArrivedAfterAll
  <2>4. CASE UNCHANGED status
    BY <2>4
  <2> QED BY <2>2, <2>3, <2>4 DEF RecordOutcome
<1> QED
  BY <1>1, <1>2 DEF BookedAsCollected

\* What a step leaves of the payments, the successes and the gateway's charges.
LEMMA BookedKept ==
    ASSUME BookedAsCollected,
           UNCHANGED payments, payments \subseteq Attempts,
           \A a \in Attempts : /\ Collected(charge[a]) => Collected(charge'[a])
                               /\ status'[a] = "SUCCEEDED" => status[a] = "SUCCEEDED"
    PROVE  BookedAsCollected'
  BY DEF BookedAsCollected

LEMMA BookedStep ==
    ASSUME TypeInv, Booked, [Next]_vars
    PROVE  Booked'
<1> USE DEF attempts, money, gateway
<1>0. /\ status \in [Attempts -> Statuses]
      /\ charge \in [Attempts -> Charges]
      /\ payments \subseteq Attempts
      /\ \A r \in Runs : Carries(run[r])
      /\ RecordsAsCollected /\ BookedAsCollected
  BY DEF TypeInv, TypeOK, StoreOK, JobsOK, Booked
<1>1. CASE UNCHANGED <<run, charge>> /\ BookedAsCollected'
  BY <1>0, <1>1 DEF Booked, RecordsAsCollected
<1>2. CASE UNCHANGED <<status, charge, payments>>
  <2>1. BookedAsCollected'
    BY <1>0, <1>2, BookedKept
  <2>2. CASE UNCHANGED run
    BY <1>1, <1>2, <2>1, <2>2
  <2>3. ASSUME NEW r \in Runs, TakesOn(r) \/ Proceeds(r) \/ Abandon(r) PROVE Booked'
    BY <1>0, <2>1, <2>3, RecordsStep DEF Booked
  <2>4. Gateway \/ Outside \/ UNCHANGED vars => UNCHANGED run
    BY DEF Gateway, Outside, vars, GatewayTakes, GatewayMisses, GatewaySettles, ReversalReported,
           ReinstatementReported, CollectionReported, Replace, CancelAll, ReplaceMethod, DayComes
  <2> QED BY <2>2, <2>3, <2>4 DEF Next
<1>3. ASSUME NEW r \in Runs,
             \/ StartAttempt(r) \/ PlanWith(r) \/ AbandonPaid(r) \/ Resend(r)
             \/ Withdraw(r) \/ SubmitPlanned(r)
      PROVE  Booked'
  <2>1. UNCHANGED <<charge, payments>>
    BY <1>3 DEF StartAttempt, PlanWith, AbandonPaid, Resend, Withdraw, SubmitPlanned
  <2>2. \/ UNCHANGED status
        \/ \E a, new : new # "SUCCEEDED" /\ status' = [status EXCEPT ![a] = new]
    BY <1>3 DEF StartAttempt, PlanWith, AbandonPaid, Resend, Withdraw, SubmitPlanned
  <2>3. \A a \in Attempts : status'[a] = "SUCCEEDED" => status[a] = "SUCCEEDED"
    BY <1>0, <2>2
  <2>4. BookedAsCollected'
    BY <1>0, <2>1, <2>3, BookedKept
  <2> QED
    BY <1>0, <1>3, <2>4, RecordsStep DEF Booked, Proceeds
<1>4. ASSUME NEW r \in Runs, Record(r) PROVE Booked'
  <2>1. run[r].a \in Attempts /\ run[r].with \in Outcomes
    BY <1>0, <1>4 DEF Record, Carries
  <2>2. run[r].with = "succeeded" => Collected(charge[run[r].a])
    BY <1>0, <1>4 DEF Record, RecordsAsCollected
  <2>3. BookedAsCollected'
    BY <1>0, <1>4, <2>1, <2>2, OutcomeBooked DEF Record
  <2> QED
    BY <1>0, <1>4, <2>3, RecordsStep DEF Booked, Proceeds
<1>5. ASSUME NEW a \in Attempts, NEW outcome \in Outcomes, CollectionReported(a, outcome) PROVE Booked'
  <2>1. outcome = "succeeded" => Collected(charge[a])
    BY <1>0, <1>5 DEF CollectionReported, Reports, Charges, Collected
  <2>2. BookedAsCollected'
    BY <1>0, <1>5, <2>1, OutcomeBooked DEF CollectionReported
  <2> QED
    BY <1>1, <1>5, <2>2 DEF CollectionReported
<1>6. ASSUME NEW a \in Attempts, GatewayTakes(a) \/ GatewaySettles(a) PROVE Booked'
  <2>1. UNCHANGED <<status, payments, run>>
    BY <1>6 DEF GatewayTakes, GatewaySettles
  <2>2. \A b \in Attempts : Collected(charge[b]) => charge'[b] = charge[b]
    <3>1. CASE GatewayTakes(a)
      BY <1>0, <3>1 DEF GatewayTakes, Collected
    <3>2. CASE GatewaySettles(a)
      <4>1. ~Collected(charge[a]) /\ \E c : charge' = [charge EXCEPT ![a] = c]
        BY <3>2 DEF GatewaySettles, Collected
      <4> QED BY <1>0, <4>1
    <3> QED BY <1>6, <3>1, <3>2
  <2>3. BookedAsCollected'
    BY <1>0, <2>1, <2>2, BookedKept
  <2>4. RecordsAsCollected'
    BY <1>0, <2>1, <2>2 DEF RecordsAsCollected, Carries
  <2> QED BY <2>3, <2>4 DEF Booked
<1>7. ASSUME NEW a \in Attempts, ReversalReported(a) PROVE Booked'
  <2>1. UNCHANGED <<charge, payments, run>>
    BY <1>7 DEF ReversalReported
  <2>2. UNCHANGED status \/ \E marked : MarkReversed(marked)
    BY <1>7 DEF ReversalReported
  <2>3. \A b \in Attempts : status'[b] = "SUCCEEDED" => status[b] = "SUCCEEDED"
    BY <2>2 DEF MarkReversed
  <2> QED
    BY <1>0, <1>1, <2>1, <2>3, BookedKept
<1>8. CASE Replace \/ CancelAll
  <2>1. UNCHANGED <<charge, payments, run>> /\ WithdrawPlanned(issued)
    BY <1>8 DEF Replace, CancelAll
  <2>2. \A b \in Attempts : status'[b] = "SUCCEEDED" => status[b] = "SUCCEEDED"
    BY <2>1 DEF WithdrawPlanned
  <2> QED
    BY <1>0, <1>1, <2>1, <2>2, BookedKept
<1>9. ASSUME NEW r \in Runs, TakesOn(r) \/ Abandon(r) PROVE UNCHANGED <<status, charge, payments>>
  BY <1>9 DEF TakesOn, Abandon, CollectOne, PlanAgain, SettleOne, FollowUp, TakeUp, Deliver
<1>10. ASSUME NEW r \in Runs,
              \/ Send(r) \/ Unanswered(r) \/ Answered(r) \/ Ask(r) \/ AttemptAfter(r) \/ TellFailure(r)
              \/ Mark(r) \/ FollowUpReversal(r) \/ Announce(r) \/ RecordAnnounced(r)
       PROVE  UNCHANGED <<status, charge, payments>>
  BY <1>10 DEF Send, Unanswered, Answered, Ask, AttemptAfter, TellFailure, Mark, FollowUpReversal,
               Announce, RecordAnnounced
<1>11. ASSUME NEW a \in Attempts, GatewayMisses(a) \/ ReinstatementReported(a) \/ DayComes(a)
       PROVE  UNCHANGED <<status, charge, payments>>
  BY <1>11 DEF GatewayMisses, ReinstatementReported, DayComes
<1>12. ReplaceMethod \/ UNCHANGED vars => UNCHANGED <<status, charge, payments>>
  BY DEF ReplaceMethod, vars
<1> QED
  BY <1>2, <1>3, <1>4, <1>5, <1>6, <1>7, <1>8, <1>9, <1>10, <1>11, <1>12
     DEF Next, Proceeds, Gateway, Outside

\* A payment is booked only for money the gateway collected, and an attempt is
\* settled as succeeded only with its payment, for any number of instances and
\* any order of their answers and the gateway's reports.
THEOREM BookedAsCollectedAlways == Spec => []BookedAsCollected
<1>1. Init => Booked
  BY DEF Init, Booked, RecordsAsCollected, BookedAsCollected, Idle
<1>2. TypeInv /\ Booked /\ [Next]_vars => TypeInv' /\ Booked'
  BY TypeStep, BookedStep
<1>3. Booked => BookedAsCollected
  BY DEF Booked
<1> QED
  BY <1>1, <1>2, <1>3, TypeInit, PTL DEF Spec

-----------------------------------------------------------------------------
(* The life of an attempt *)

SENT    == {"SUBMITTED", "PENDING", "SUCCEEDED", "FAILED", "REVERSED"}
SETTLED == {"SUCCEEDED", "FAILED", "REVERSED"}

\* An attempt is written by a run, in the chain's turn, for the invoice that
\* stands, with the payment method the run read: as its first, or after the last,
\* where no attempt of the invoice is open or succeeded.
Opens(a) ==
    /\ Owes(a[1])
    /\ UNCHANGED <<chain, active, reason, followedUp, notices, money, gateway>>
    /\ \A b \in Attempts \ {a} : status'[b] = status[b] /\ method'[b] = method[b]
    /\ \E r \in Runs :
        /\ method'[a] = run[r].m
        /\ run[r].a[1] = a[1]
        /\ \/ run[r].op = "start" /\ a[2] = 1 /\ Written(a[1]) = {}
           \/ /\ run[r].op \in {"plan", "planNext"} /\ a[2] = run[r].a[2] + 1
              /\ ~RefusesPlannedAttempt(a[1], run[r].a[2])

\* What may become of an attempt in one step, and what goes with it.
Lives(a) ==
    \/ status'[a] = status[a]
    \/ status[a] = "none" /\ status'[a] \in {"SCHEDULED", "SUBMITTED"} /\ Opens(a)
    \/ status[a] = "SCHEDULED" /\ status'[a] \in {"SUBMITTED", "WITHDRAWN"}
    \/ status[a] \in UNSETTLED /\ status'[a] \in {"PENDING", "SUCCEEDED", "FAILED"}
    \/ status[a] = "FAILED" /\ status'[a] = "SUCCEEDED" /\ a \in payments'
    \/ status[a] \in {"SUCCEEDED", "FAILED"} /\ status'[a] = "REVERSED"
         /\ reversals' # reversals /\ reversals' # 0

\* Invoices and attempts are counted from one.
LEMMA Counting ==
    /\ \A n \in Numbers \union Invoices \union Methods : n \in Nat \ {0}
    /\ \A a \in Attempts : a[1] \in Nat \ {0} /\ a[2] \in Nat \ {0} /\ a = <<a[1], a[2]>>
<1>1. \A n \in Numbers \union Invoices \union Methods : n \in Nat \ {0}
  BY CollectionAssumption DEF CollectionAssumption, Counted
<1> QED
  BY <1>1 DEF Attempts

LEMMA OutcomeLives ==
    ASSUME TypeInv, NEW a \in Attempts, NEW outcome \in Outcomes, RecordOutcome(a, outcome)
    PROVE  \A b \in Attempts : Lives(b)
<1>1. status \in [Attempts -> Statuses]
  BY DEF TypeInv, TypeOK, StoreOK
<1>2. CASE status[a] \in UNSETTLED /\ Settle(a, outcome)
  <2>1. \E new \in {"SUCCEEDED", "PENDING", "FAILED"} : status' = [status EXCEPT ![a] = new]
    BY <1>2 DEF Settle, Outcomes
  <2> QED BY <1>1, <1>2, <2>1 DEF Lives
<1>3. CASE status[a] = "FAILED" /\ outcome = "succeeded" /\ ArrivedAfterAll(a)
  <2>1. a \in payments'
    BY <1>3 DEF RecordOutcome, RecordPayment
  <2> QED BY <1>1, <1>3, <2>1 DEF ArrivedAfterAll, Lives
<1>4. CASE UNCHANGED status
  BY <1>4 DEF Lives
<1> QED
  BY <1>2, <1>3, <1>4 DEF RecordOutcome

LEMMA Lifecycle ==
    ASSUME TypeInv, [Next]_vars
    PROVE  \A b \in Attempts : Lives(b)
<1> USE DEF chain, attempts
<1>0. /\ status \in [Attempts -> Statuses]
      /\ method \in [Attempts -> Methods \union {0}]
      /\ reversals \in Nat
      /\ \A r \in Runs : run[r] \in Jobs /\ Carries(run[r])
  BY DEF TypeInv, TypeOK, StoreOK, JobsOK
<1>1. CASE UNCHANGED status
  BY <1>1 DEF Lives
<1>2. ASSUME NEW r \in Runs, StartAttempt(r) PROVE \A b \in Attempts : Lives(b)
  <2> DEFINE i == run[r].a[1]
             first == <<i, 1>>
  <2>1. CASE UNCHANGED status
    BY <2>1 DEF Lives
  <2>2. CASE /\ Owes(i) /\ Written(i) = {}
             /\ status' = [status EXCEPT ![first] = "SUBMITTED"]
             /\ method' = [method EXCEPT ![first] = run[r].m]
    <3>1. first \in Attempts
      BY <1>0, <1>2, AttemptType DEF StartAttempt, Carries
    <3>2. status[first] = "none"
      BY <2>2, <3>1 DEF Written, Of
    <3>3. /\ status'[first] = "SUBMITTED" /\ method'[first] = run[r].m
          /\ \A b \in Attempts \ {first} : status'[b] = status[b] /\ method'[b] = method[b]
      BY <1>0, <2>2, <3>1
    <3>4. first[1] = i /\ first[2] = 1
      OBVIOUS
    <3>5. UNCHANGED <<chain, active, reason, followedUp, notices, money, gateway>> /\ run[r].op = "start"
      BY <1>2 DEF StartAttempt
    <3> HIDE DEF first
    <3>6. Opens(first)
      BY <2>2, <3>1, <3>3, <3>4, <3>5 DEF Opens
    <3> QED BY <3>2, <3>3, <3>6 DEF Lives
  <2> QED BY <1>2, <2>1, <2>2 DEF StartAttempt, RefusesFirstAttempt
<1>3. ASSUME NEW r \in Runs, PlanWith(r) PROVE \A b \in Attempts : Lives(b)
  <2> DEFINE i == run[r].a[1]
             after == run[r].a[2]
             next == <<i, after + 1>>
  <2>1. CASE UNCHANGED status
    BY <2>1 DEF Lives
  <2>2. CASE /\ Owes(i) /\ ~RefusesPlannedAttempt(i, after) /\ HasNext(i, after)
             /\ status' = [status EXCEPT ![next] = "SCHEDULED"]
             /\ method' = [method EXCEPT ![next] = run[r].m]
    <3>1. next \in Attempts
      BY <2>2 DEF HasNext
    <3>2. after \in Numbers \union {0}
      BY <1>0 DEF Jobs
    <3>3. after \in Nat
      BY <3>2, Counting
    <3>4. status[next] = "none"
      BY <2>2, <3>1, <3>3 DEF RefusesPlannedAttempt, IsLast, Later, Written, Of
    <3>5. /\ status'[next] = "SCHEDULED" /\ method'[next] = run[r].m
          /\ \A b \in Attempts \ {next} : status'[b] = status[b] /\ method'[b] = method[b]
      BY <1>0, <2>2, <3>1
    <3>6. next[1] = i /\ next[2] = after + 1
      OBVIOUS
    <3>7. /\ UNCHANGED <<chain, active, reason, followedUp, notices, money, gateway>>
          /\ run[r].op \in {"plan", "planNext"}
      BY <1>3 DEF PlanWith
    <3> HIDE DEF next
    <3>8. Opens(next)
      BY <2>2, <3>1, <3>5, <3>6, <3>7 DEF Opens
    <3> QED BY <3>4, <3>5, <3>8 DEF Lives
  <2> QED BY <1>3, <2>1, <2>2 DEF PlanWith
<1>4. ASSUME NEW r \in Runs, Record(r) PROVE \A b \in Attempts : Lives(b)
  BY <1>0, <1>4, OutcomeLives DEF Record, Carries
<1>5. ASSUME NEW a \in Attempts, NEW outcome \in Outcomes, CollectionReported(a, outcome)
      PROVE \A b \in Attempts : Lives(b)
  BY <1>5, OutcomeLives DEF CollectionReported
<1>6. ASSUME NEW r \in Runs, AbandonPaid(r) \/ Resend(r) \/ Withdraw(r) \/ SubmitPlanned(r)
      PROVE \A b \in Attempts : Lives(b)
  <2>1. \/ UNCHANGED status
        \/ status[run[r].a] \in UNSETTLED /\ status' = [status EXCEPT ![run[r].a] = "FAILED"]
        \/ status[run[r].a] = "SCHEDULED" /\ status' = [status EXCEPT ![run[r].a] = "WITHDRAWN"]
        \/ status[run[r].a] = "SCHEDULED" /\ status' = [status EXCEPT ![run[r].a] = "SUBMITTED"]
    BY <1>6 DEF AbandonPaid, Resend, Withdraw, SubmitPlanned, UNSETTLED
  <2> QED BY <1>0, <2>1 DEF Lives
<1>7. ASSUME NEW a \in Attempts, ReversalReported(a) PROVE \A b \in Attempts : Lives(b)
  <2>1. reversals' = reversals + 1
    BY <1>7 DEF ReversalReported
  <2>2. \/ UNCHANGED status
        \/ \E marked : MarkReversed(marked) /\ \A b \in marked : status[b] \in REVERSIBLE
    <3>1. CASE UNCHANGED status
      BY <3>1
    <3>2. ASSUME NEW lifted, MarkReversed({b \in {a} \union lifted \union
                                    {c \in Of(Standing) : status[c] = "SUCCEEDED"} :
                                 status[b] \in REVERSIBLE})
          PROVE  \E marked : MarkReversed(marked) /\ \A b \in marked : status[b] \in REVERSIBLE
      BY <3>2
    <3> QED BY <1>7, <3>1, <3>2 DEF ReversalReported
  <2> QED BY <1>0, <2>1, <2>2 DEF MarkReversed, REVERSIBLE, Lives
<1>8. CASE Replace \/ CancelAll
  BY <1>8 DEF Replace, CancelAll, WithdrawPlanned, Lives
<1>10. ASSUME NEW r \in Runs, TakesOn(r) \/ Abandon(r) PROVE UNCHANGED status
  BY <1>10 DEF TakesOn, Abandon, CollectOne, PlanAgain, SettleOne, FollowUp, TakeUp, Deliver
<1>11. ASSUME NEW r \in Runs,
              \/ Send(r) \/ Unanswered(r) \/ Answered(r) \/ Ask(r) \/ AttemptAfter(r) \/ TellFailure(r)
              \/ Mark(r) \/ FollowUpReversal(r) \/ Announce(r) \/ RecordAnnounced(r)
       PROVE  UNCHANGED status
  BY <1>11 DEF Send, Unanswered, Answered, Ask, AttemptAfter, TellFailure, Mark, FollowUpReversal,
               Announce, RecordAnnounced
<1>12. ASSUME NEW a \in Attempts,
              \/ GatewayTakes(a) \/ GatewayMisses(a) \/ GatewaySettles(a)
              \/ ReinstatementReported(a) \/ DayComes(a)
       PROVE  UNCHANGED status
  BY <1>12 DEF GatewayTakes, GatewayMisses, GatewaySettles, ReinstatementReported, DayComes
<1>13. ReplaceMethod \/ UNCHANGED vars => UNCHANGED status
  BY DEF ReplaceMethod, vars
<1> QED
  BY <1>1, <1>2, <1>3, <1>4, <1>5, <1>6, <1>7, <1>8, <1>10, <1>11, <1>12, <1>13
     DEF Next, Proceeds, Gateway, Outside

\* A settled attempt stays settled, for any number of instances, whatever is
\* reported and in whatever order: it may succeed after it failed, with its
\* payment, and be reversed, when a reversal is reported.
THEOREM SettledStaysAlways == Spec => SettledStays
<1>1. TypeInv /\ [Next]_vars =>
        [\A a \in Attempts :
            /\ status[a] \in {"WITHDRAWN", "REVERSED"} => status'[a] = status[a]
            /\ status[a] = "SUCCEEDED" =>
                 status'[a] = "SUCCEEDED" \/ (status'[a] = "REVERSED" /\ reversals' # reversals)
            /\ status[a] = "FAILED" /\ status'[a] = "SUCCEEDED" => a \in payments'
            /\ status[a] = "FAILED" => status'[a] \in {"FAILED", "SUCCEEDED", "REVERSED"}]_vars
  BY Lifecycle DEF Lives, UNSETTLED
<1> QED
  BY <1>1, TypeInit, TypeStep, PTL DEF Spec, SettledStays

-----------------------------------------------------------------------------
(* What a run goes on with *)

\* Of an attempt of the failure to follow up, what the notice says follows.
Decided(r, a) ==
    \/ run'[r].with = "again" /\ Later(a) # {}
    \/ run'[r].with = "replace" /\ active \in ReversedOn(Of(a[1]))
    \/ run'[r].with = "replace" /\ method[a] = active /\ ~IsChargedAgain(r, a) /\ Later(a) = {}

\* The item a run takes on, and what it reads of it.
Begins(r) ==
    LET a == run'[r].a  m == run'[r].m  with == run'[r].with IN
    /\ run[r].op = "idle"
    /\ UNCHANGED <<chain, active, attempts, notices, money, gateway>>
    /\ \/ run'[r].op \in {"start", "plan"} /\ m = active /\ a[2] = 0
       \/ run'[r].op = "plan" /\ m = active /\ a \in Attempts /\ status[a] # "none" /\ method[a] # active
       \/ run'[r].op = "ask" /\ a \in Attempts /\ status[a] \in UNSETTLED
       \/ run'[r].op = "reversal" /\ a \in Attempts /\ status[a] = "REVERSED"
       \/ /\ run'[r].op = "mark" /\ a \in Attempts /\ status[a] = "FAILED"
          /\ ~Owes(a[1]) \/ ReversedOn(Of(a[1])) # {}
       \/ /\ run'[r].op = "followUp" /\ a \in Attempts /\ status[a] = "FAILED"
          /\ with = IF reason[a] = "can-pass" THEN "later" ELSE "none"
       \/ /\ run'[r].op \in {"withdraw", "announce", "submit"} /\ a \in Attempts /\ status[a] = "SCHEDULED"
          /\ run'[r].op = "withdraw" => ~Owes(a[1]) \/ method[a] # active

\* The item a run is at, and the step it comes to.
GoesOn(r) ==
    LET a == run[r].a  m == run'[r].m  with == run'[r].with IN
    /\ run'[r].a = a
    /\ \/ run[r].op = "send" /\ run'[r].op = "wait"
       \/ /\ run[r].op \in {"wait", "ask"} /\ run'[r].op = "record"
          /\ charge[a] # "none" /\ with = Outcome(charge[a])
       \/ run[r].op = "ask" /\ run'[r].op = "decide"
       \/ run[r].op = "decide" /\ run'[r].op = "resend"
       \/ run[r].op = "resend" /\ run'[r].op = "send"
       \/ /\ run[r].op = "followUp" /\ run'[r].op = "planNext" /\ UNCHANGED <<chain, active, attempts, notices, money>>
          /\ m = active /\ Later(a) = {}
          /\ \/ with = "none" /\ method[a] # active
             \/ with = "later" /\ method[a] = active /\ IsChargedAgain(r, a)
       \/ /\ run[r].op = "followUp" /\ run'[r].op = "tell" /\ UNCHANGED <<chain, active, attempts, notices, money>>
          /\ Decided(r, a)
       \/ /\ run[r].op = "planNext" /\ run'[r].op = "tell" /\ with = "again"
          /\ \E b \in Attempts : b[1] = a[1] /\ b[2] = a[2] + 1 /\ status'[b] # "none"
       \/ run[r].op = "tell" /\ run'[r].op = "mark" /\ failedNotice'[a] # "none"
       \/ run[r].op = "announce" /\ run'[r].op = "recordAnnounced"
       \/ run[r].op = "submit" /\ run'[r].op = "send" /\ status'[a] = "SUBMITTED"

Follows(r) ==
    \/ run'[r] = run[r]
    \/ run'[r].op = "idle"
    \/ Begins(r)
    \/ GoesOn(r)
    \/ run[r].op = "start" /\ run'[r].op = "send" /\ run'[r].a \in Attempts /\ status'[run'[r].a] = "SUBMITTED"

\* A run that takes up a task has it.
LEMMA Taken ==
    ASSUME TypeInv, NEW r \in Runs, NEW op, NEW a, NEW m, NEW with, Do(r, Task(op, a, m, with))
    PROVE  run'[r].op = op /\ run'[r].a = a /\ run'[r].m = m /\ run'[r].with = with
<1>1. run'[r] = Task(op, a, m, with)
  BY DEF Do, TypeInv, TypeOK
<1> QED
  BY <1>1 DEF Task

LEMMA Stopped ==
    ASSUME TypeInv, NEW r \in Runs, Stop(r)
    PROVE  run'[r].op = "idle"
  BY DEF Stop, Do, Idle, TypeInv, TypeOK

LEMMA RunFollows ==
    ASSUME TypeInv, NEW r \in Runs, TakesOn(r) \/ Proceeds(r) \/ Abandon(r)
    PROVE  Follows(r)
<1> DEFINE a == run[r].a
<1>0. /\ status \in [Attempts -> Statuses]
      /\ failedNotice \in [Attempts -> {"none", "recorded", "delivered"}]
      /\ Carries(run[r])
      /\ run[r] = Idle => run[r].op = "idle"
      /\ run[r] \in Jobs
  BY DEF TypeInv, TypeOK, StoreOK, JobsOK, Idle
<1>1. ASSUME NEW i \in Invoices, CollectOne(r, i) PROVE Begins(r)
  <2>1. \/ Do(r, Task("start", <<i, 0>>, active, "none"))
        \/ Do(r, Task("plan", <<i, 0>>, active, "none"))
    BY <1>1 DEF CollectOne
  <2>2. /\ run'[r].op \in {"start", "plan"}
        /\ run'[r].m = active
        /\ run'[r].a = <<i, 0>>
    BY <2>1, Taken
  <2> QED BY <1>0, <1>1, <2>2 DEF CollectOne, Begins
<1>2. ASSUME NEW i \in Invoices, PlanAgain(r, i) PROVE Begins(r)
  <2>1. PICK b \in Written(i) : Later(b) = {} /\ Do(r, Task("plan", b, active, "none"))
    BY <1>2 DEF PlanAgain
  <2>2. b \in Attempts /\ status[b] # "none" /\ b[1] = i
    BY DEF Written, Of
  <2>3. method[b] # active
    <3>1. PICK c \in Written(i) : Later(c) = {} /\ method[c] # active
      BY <1>2 DEF PlanAgain, CollectableAgain
    <3>2. c \in Attempts /\ c[1] = i /\ status[c] # "none"
      BY DEF Written, Of
    <3>3. ~(c[2] > b[2]) /\ ~(b[2] > c[2])
      BY <2>1, <2>2, <3>1, <3>2 DEF Later, Written, Of
    <3>4. c = b
      BY <2>2, <3>2, <3>3, Counting
    <3> QED BY <3>1, <3>4
  <2>4. /\ run'[r].op = "plan"
        /\ run'[r].m = active
        /\ run'[r].a = b
    BY <2>1, Taken
  <2> QED BY <1>0, <1>2, <2>2, <2>3, <2>4 DEF PlanAgain, Begins
<1>3. ASSUME NEW b \in Attempts, SettleOne(r, b) PROVE Begins(r)
  <2>1. run'[r].op = "ask" /\ run'[r].a = b
    BY <1>3, Taken DEF SettleOne
  <2> QED BY <1>0, <1>3, <2>1 DEF SettleOne, Unsettled, Begins
<1>4. ASSUME NEW b \in Attempts, FollowUp(r, b) PROVE Begins(r)
  <2>1. /\ run[r].op = "idle"
        /\ UNCHANGED <<chain, active, attempts, notices, money, gateway>>
        /\ status[b] \in FOLLOWED_UP
    BY <1>0, <1>4 DEF FollowUp, ToFollowUp
  <2>2. CASE status[b] = "REVERSED" /\ Do(r, Job("reversal", b))
    <3>1. run'[r].op = "reversal" /\ run'[r].a = b
      BY <2>2, Taken DEF Job
    <3> QED BY <2>1, <2>2, <3>1 DEF Begins
  <2>3. CASE /\ status[b] # "REVERSED"
             /\ ~Owes(b[1]) \/ method[b] \in ReversedOn(Of(b[1]))
             /\ Do(r, Job("mark", b))
    <3>1. run'[r].op = "mark" /\ run'[r].a = b
      BY <2>3, Taken DEF Job
    <3>2. status[b] = "FAILED" /\ (~Owes(b[1]) \/ ReversedOn(Of(b[1])) # {})
      BY <2>1, <2>3 DEF FOLLOWED_UP
    <3> QED BY <2>1, <3>1, <3>2 DEF Begins
  <2>4. CASE /\ status[b] # "REVERSED"
             /\ Do(r, Task("followUp", b, 0, IF reason[b] = "can-pass" THEN "later" ELSE "none"))
    <3>1. /\ run'[r].op = "followUp" /\ run'[r].a = b
          /\ run'[r].with = IF reason[b] = "can-pass" THEN "later" ELSE "none"
      BY <2>4, Taken
    <3>2. status[b] = "FAILED"
      BY <2>1, <2>4 DEF FOLLOWED_UP
    <3> QED BY <2>1, <3>1, <3>2 DEF Begins
  <2> QED BY <1>4, <2>2, <2>3, <2>4 DEF FollowUp
<1>5. ASSUME NEW b \in Attempts, TakeUp(r, b) PROVE Begins(r)
  <2>1. \E op \in {"withdraw", "announce", "submit"} :
            /\ Do(r, Task(op, b, 0, "none"))
            /\ op = "withdraw" => ~Owes(b[1]) \/ method[b] # active
    BY <1>5 DEF TakeUp, Job
  <2>2. /\ run'[r].op \in {"withdraw", "announce", "submit"} /\ run'[r].a = b
        /\ run'[r].op = "withdraw" => ~Owes(b[1]) \/ method[b] # active
    BY <2>1, Taken
  <2> QED BY <1>0, <1>5, <2>2 DEF TakeUp, Begins
<1>6. ASSUME NEW b \in Attempts, Deliver(r, b) PROVE run'[r] = run[r]
  BY <1>6 DEF Deliver
<1>7. CASE StartAttempt(r)
  <2>1. CASE Stop(r)
    BY <2>1, Stopped DEF Follows
  <2>2. CASE status' = [status EXCEPT ![<<a[1], 1>>] = "SUBMITTED"] /\ Do(r, Job("send", <<a[1], 1>>))
    <3>1. <<a[1], 1>> \in Attempts
      BY <1>0, <1>7, AttemptType DEF StartAttempt, Carries
    <3>2. run'[r].op = "send" /\ run'[r].a = <<a[1], 1>>
      BY <2>2, Taken DEF Job
    <3>3. status'[<<a[1], 1>>] = "SUBMITTED"
      BY <1>0, <2>2, <3>1
    <3> QED BY <1>7, <3>1, <3>2, <3>3 DEF StartAttempt, Follows
  <2> QED BY <1>7, <2>1, <2>2 DEF StartAttempt
<1>8. CASE PlanWith(r)
  <2>1. CASE Stop(r)
    BY <2>1, Stopped DEF Follows
  <2>2. CASE /\ run[r].op = "planNext" /\ Do(r, Task("tell", a, 0, "again"))
             /\ status' = [status EXCEPT ![<<a[1], a[2] + 1>>] = "SCHEDULED"]
             /\ HasNext(a[1], a[2])
    <3>1. run'[r].op = "tell" /\ run'[r].a = a /\ run'[r].with = "again"
      BY <2>2, Taken
    <3>2. \E b \in Attempts : b[1] = a[1] /\ b[2] = a[2] + 1 /\ status'[b] # "none"
      <4> DEFINE next == <<a[1], a[2] + 1>>
      <4>1. next \in Attempts /\ next[1] = a[1] /\ next[2] = a[2] + 1
        BY <2>2 DEF HasNext
      <4> HIDE DEF next
      <4>2. status'[next] = "SCHEDULED"
        BY <1>0, <2>2, <4>1 DEF next
      <4> QED BY <4>1, <4>2
    <3> QED BY <2>2, <3>1, <3>2 DEF GoesOn, Follows
  <2> QED BY <1>8, <2>1, <2>2 DEF PlanWith
<1>9. CASE Send(r)
  <2>1. run'[r].op = "wait" /\ run'[r].a = a
    BY <1>9, Taken DEF Send, Job
  <2> QED BY <1>9, <2>1 DEF Send, GoesOn, Follows
<1>10. CASE Unanswered(r) \/ Record(r) \/ Mark(r) \/ FollowUpReversal(r) \/ Withdraw(r) \/ RecordAnnounced(r) \/ Abandon(r)
  BY <1>10, Stopped DEF Unanswered, Record, Mark, FollowUpReversal, Withdraw, RecordAnnounced, Abandon, Follows
<1>11. CASE Answered(r) \/ Ask(r)
  <2>1. CASE Stop(r)
    BY <2>1, Stopped DEF Follows
  <2>2. CASE charge[a] # "none" /\ Do(r, Task("record", a, 0, Outcome(charge[a])))
    <3>1. run'[r].op = "record" /\ run'[r].a = a /\ run'[r].with = Outcome(charge[a])
      BY <2>2, Taken
    <3> QED BY <1>11, <2>2, <3>1 DEF Answered, Ask, GoesOn, Follows
  <2>3. CASE run[r].op = "ask" /\ Do(r, Job("decide", a))
    <3>1. run'[r].op = "decide" /\ run'[r].a = a
      BY <2>3, Taken DEF Job
    <3> QED BY <2>3, <3>1 DEF GoesOn, Follows
  <2> QED BY <1>11, <2>1, <2>2, <2>3 DEF Answered, Ask
<1>12. CASE AbandonPaid(r)
  <2>1. CASE Stop(r)
    BY <2>1, Stopped DEF Follows
  <2>2. CASE Do(r, Job("resend", a))
    <3>1. run'[r].op = "resend" /\ run'[r].a = a
      BY <2>2, Taken DEF Job
    <3> QED BY <1>12, <3>1 DEF AbandonPaid, GoesOn, Follows
  <2> QED BY <1>12, <2>1, <2>2 DEF AbandonPaid
<1>13. CASE Resend(r)
  <2>1. CASE Stop(r)
    BY <2>1, Stopped DEF Follows
  <2>2. CASE Do(r, Job("send", a))
    <3>1. run'[r].op = "send" /\ run'[r].a = a
      BY <2>2, Taken DEF Job
    <3> QED BY <1>13, <3>1 DEF Resend, GoesOn, Follows
  <2> QED BY <1>13, <2>1, <2>2 DEF Resend
<1>14. CASE AttemptAfter(r)
  <2>0. UNCHANGED <<chain, active, attempts, notices, money>> /\ run[r].op = "followUp"
    BY <1>14 DEF AttemptAfter
  <2>1. CASE Stop(r)
    BY <2>1, Stopped DEF Follows
  <2>2. CASE Later(a) # {} /\ Do(r, Task("tell", a, 0, "again"))
    <3>1. run'[r].op = "tell" /\ run'[r].a = a /\ run'[r].with = "again"
      BY <2>2, Taken
    <3> QED BY <2>0, <2>2, <3>1 DEF Decided, GoesOn, Follows
  <2>3. CASE /\ \/ active \in ReversedOn(Of(a[1]))
                \/ method[a] = active /\ ~IsChargedAgain(r, a) /\ Later(a) = {}
             /\ Do(r, Task("tell", a, 0, "replace"))
    <3>1. run'[r].op = "tell" /\ run'[r].a = a /\ run'[r].with = "replace"
      BY <2>3, Taken
    <3> QED BY <2>0, <2>3, <3>1 DEF Decided, GoesOn, Follows
  <2>4. CASE Later(a) = {} /\ method[a] # active /\ Do(r, Task("planNext", a, active, "none"))
    <3>1. run'[r].op = "planNext" /\ run'[r].a = a /\ run'[r].m = active /\ run'[r].with = "none"
      BY <2>4, Taken
    <3> QED BY <2>0, <2>4, <3>1 DEF GoesOn, Follows
  <2>5. CASE /\ Later(a) = {} /\ method[a] = active /\ IsChargedAgain(r, a)
             /\ Do(r, Task("planNext", a, active, "later"))
    <3>1. run'[r].op = "planNext" /\ run'[r].a = a /\ run'[r].m = active /\ run'[r].with = "later"
      BY <2>5, Taken
    <3> QED BY <2>0, <2>5, <3>1 DEF GoesOn, Follows
  <2> QED
    BY <1>14, <2>1, <2>2, <2>3, <2>4, <2>5 DEF AttemptAfter
<1>15. CASE TellFailure(r)
  <2>1. run'[r].op = "mark" /\ run'[r].a = a
    BY <1>15, Taken DEF TellFailure, Job
  <2>2. a \in Attempts
    BY <1>0, <1>15 DEF TellFailure, Carries
  <2>3. failedNotice'[a] # "none"
    BY <1>0, <1>15, <2>2 DEF TellFailure
  <2> QED BY <1>15, <2>1, <2>3 DEF TellFailure, GoesOn, Follows
<1>16. CASE Announce(r)
  <2>1. CASE Stop(r)
    BY <2>1, Stopped DEF Follows
  <2>2. CASE Do(r, Job("recordAnnounced", a))
    <3>1. run'[r].op = "recordAnnounced" /\ run'[r].a = a
      BY <2>2, Taken DEF Job
    <3> QED BY <1>16, <3>1 DEF Announce, GoesOn, Follows
  <2> QED BY <1>16, <2>1, <2>2 DEF Announce
<1>17. CASE SubmitPlanned(r)
  <2>1. CASE Stop(r)
    BY <2>1, Stopped DEF Follows
  <2>2. CASE status' = [status EXCEPT ![a] = "SUBMITTED"] /\ Do(r, Job("send", a))
    <3>1. run'[r].op = "send" /\ run'[r].a = a
      BY <2>2, Taken DEF Job
    <3>2. a \in Attempts
      BY <1>0, <1>17 DEF SubmitPlanned, Carries
    <3>3. status'[a] = "SUBMITTED"
      BY <1>0, <2>2, <3>2
    <3> QED BY <1>17, <3>1, <3>3 DEF SubmitPlanned, GoesOn, Follows
  <2> QED BY <1>17, <2>1, <2>2 DEF SubmitPlanned
<1> QED
  BY <1>1, <1>2, <1>3, <1>4, <1>5, <1>6, <1>7, <1>8, <1>9, <1>10, <1>11, <1>12, <1>13, <1>14,
     <1>15, <1>16, <1>17 DEF TakesOn, Proceeds, Follows

-----------------------------------------------------------------------------
(* Requests in doubt *)

SENDING == {"send", "wait", "record", "ask", "decide", "resend"}

\* The gateway has settled the charge, and reports what became of it.
Known(c) == c \in {"failed", "succeeded", "succeeded-late"}

\* What a run sends, asks for or records was sent, and what it records other than
\* a charge that is pending, the gateway knows.
Sends(job, attemptStatus, attemptCharge) ==
    /\ job.op \in SENDING => attemptStatus[job.a] \in SENT
    /\ job.op = "record" /\ job.with # "pending" => Known(attemptCharge[job.a])

RunsSend == \A r \in Runs : Sends(run[r], status, charge)

\* What is on its way to the gateway, or there, was sent by the tables.
AskedIsSent == \A a \in Attempts : a \in flight \/ charge[a] # "none" => status[a] \in SENT

\* What is settled, the gateway knows, unless it was given up as not sent.
SettledIsKnown ==
    \A a \in Attempts : status[a] \in SETTLED => Known(charge[a]) \/ reason[a] = "not-sent"

Sending == RunsSend /\ AskedIsSent /\ SettledIsKnown

\* What was sent stays so, and what the gateway knows it keeps.
LEMMA SentStays ==
    ASSUME TypeInv, [Next]_vars
    PROVE  \A a \in Attempts :
            /\ status[a] \in SENT => status'[a] \in SENT
            /\ status[a] \in SETTLED => status'[a] \in SETTLED
  BY Lifecycle DEF Lives, SENT, SETTLED, UNSETTLED

LEMMA ChargeStep ==
    ASSUME TypeInv, [Next]_vars
    PROVE  \A a \in Attempts :
            /\ charge'[a] = charge[a] \/ (a \in flight /\ charge[a] = "none")
                 \/ (charge[a] \in {"pending", "failed"} /\ charge'[a] \in Charges \ {"none", "pending"})
            /\ Known(charge[a]) => Known(charge'[a])
<1>0. charge \in [Attempts -> Charges]
  BY DEF TypeInv, TypeOK, StoreOK
<1>1. CASE UNCHANGED charge
  BY <1>1
<1>2. ASSUME NEW a \in Attempts, GatewayTakes(a)
      PROVE \A b \in Attempts : charge'[b] = charge[b] \/ (b \in flight /\ charge[b] = "none")
  BY <1>0, <1>2 DEF GatewayTakes
<1>3. ASSUME NEW a \in Attempts, GatewaySettles(a)
      PROVE \A b \in Attempts : charge'[b] = charge[b] \/
                (charge[b] \in {"pending", "failed"} /\ charge'[b] \in Charges \ {"none", "pending"})
  <2>1. \E c \in {"failed", "succeeded", "succeeded-late"} : charge' = [charge EXCEPT ![a] = c]
    BY <1>3 DEF GatewaySettles
  <2>2. charge[a] \in {"pending", "failed"}
    BY <1>3 DEF GatewaySettles
  <2> QED BY <1>0, <2>1, <2>2 DEF Charges
<1>4. ASSUME NEW r \in Runs, TakesOn(r) \/ Proceeds(r) \/ Abandon(r) PROVE UNCHANGED charge
  BY <1>4 DEF TakesOn, Proceeds, Abandon, gateway, CollectOne, PlanAgain, SettleOne, FollowUp, TakeUp,
         Deliver, StartAttempt, PlanWith, Send, Unanswered, Answered, Record, Ask, AbandonPaid, Resend,
         AttemptAfter, TellFailure, Mark, FollowUpReversal, Withdraw, Announce, RecordAnnounced,
         SubmitPlanned
<1>5. ASSUME NEW a \in Attempts, GatewayMisses(a) \/ ReversalReported(a) \/ ReinstatementReported(a)
                                   \/ DayComes(a)
      PROVE UNCHANGED charge
  BY <1>5 DEF GatewayMisses, ReversalReported, ReinstatementReported, DayComes, gateway
<1>6. ASSUME NEW a \in Attempts, NEW outcome \in Outcomes, CollectionReported(a, outcome)
      PROVE UNCHANGED charge
  BY <1>6 DEF CollectionReported, gateway
<1>7. Replace \/ CancelAll \/ ReplaceMethod \/ UNCHANGED vars => UNCHANGED charge
  BY DEF Replace, CancelAll, ReplaceMethod, vars, gateway
<1>8. \A a \in Attempts :
            charge'[a] = charge[a] \/ (a \in flight /\ charge[a] = "none")
            \/ (charge[a] \in {"pending", "failed"} /\ charge'[a] \in Charges \ {"none", "pending"})
  BY <1>1, <1>2, <1>3, <1>4, <1>5, <1>6, <1>7 DEF Next, Gateway, Outside
<1> QED
  BY <1>8 DEF Charges, Known

\* What leaves for the gateway, a run sends.
LEMMA FlightStep ==
    ASSUME TypeInv, [Next]_vars
    PROVE  \A a \in Attempts : a \in flight' =>
                a \in flight \/ \E r \in Runs : run[r].op = "send" /\ run[r].a = a
<1>1. CASE UNCHANGED flight
  BY <1>1
<1>2. ASSUME NEW r \in Runs, Send(r)
      PROVE \A a \in Attempts : a \in flight' => a \in flight \/ (run[r].op = "send" /\ run[r].a = a)
  BY <1>2 DEF Send
<1>3. ASSUME NEW a \in Attempts, GatewayTakes(a) \/ GatewayMisses(a) PROVE flight' \subseteq flight
  BY <1>3 DEF GatewayTakes, GatewayMisses
<1>4. ASSUME NEW r \in Runs, TakesOn(r) \/ Proceeds(r) \/ Abandon(r), ~Send(r) PROVE UNCHANGED flight
  BY <1>4 DEF TakesOn, Proceeds, Abandon, gateway, CollectOne, PlanAgain, SettleOne, FollowUp, TakeUp,
         Deliver, StartAttempt, PlanWith, Unanswered, Answered, Record, Ask, AbandonPaid, Resend,
         AttemptAfter, TellFailure, Mark, FollowUpReversal, Withdraw, Announce, RecordAnnounced,
         SubmitPlanned
<1>5. ASSUME NEW a \in Attempts, GatewaySettles(a) \/ ReversalReported(a) \/ ReinstatementReported(a)
                                   \/ DayComes(a)
      PROVE UNCHANGED flight
  BY <1>5 DEF GatewaySettles, ReversalReported, ReinstatementReported, DayComes, gateway
<1>6. ASSUME NEW a \in Attempts, NEW outcome \in Outcomes, CollectionReported(a, outcome)
      PROVE UNCHANGED flight
  BY <1>6 DEF CollectionReported, gateway
<1>7. Replace \/ CancelAll \/ ReplaceMethod \/ UNCHANGED vars => UNCHANGED flight
  BY DEF Replace, CancelAll, ReplaceMethod, vars, gateway
<1> QED
  BY <1>1, <1>2, <1>3, <1>4, <1>5, <1>6, <1>7 DEF Next, Gateway, Outside

\* The runs, but the one that acts, keep what they carry.
LEMMA OthersKeep ==
    ASSUME TypeInv, NEW r \in Runs, TakesOn(r) \/ Proceeds(r) \/ Abandon(r)
    PROVE  \A q \in Runs \ {r} : run'[q] = run[q]
<1>1. run \in [Runs -> Jobs]
  BY DEF TypeInv, TypeOK
<1>2. UNCHANGED run \/ \E job : Do(r, job)
  <2>1. CASE TakesOn(r) \/ Abandon(r)
    BY <2>1 DEF TakesOn, Abandon, Stop, CollectOne, PlanAgain, SettleOne, FollowUp, TakeUp, Deliver
  <2>2. CASE Proceeds(r)
    BY <2>2 DEF Proceeds, Stop, StartAttempt, PlanWith, Send, Unanswered, Answered, Record, Ask, AbandonPaid,
         Resend, AttemptAfter, TellFailure, Mark, FollowUpReversal, Withdraw, Announce, RecordAnnounced,
         SubmitPlanned
  <2> QED BY <2>1, <2>2
<1> QED
  BY <1>1, <1>2 DEF Do

\* The runs whose turn it is not keep what they carry, and a step of the gateway,
\* the operator or the clock leaves all runs theirs.
LEMMA RunsStep ==
    ASSUME TypeInv, [Next]_vars, NEW q \in Runs
    PROVE  run'[q] = run[q] \/ Follows(q)
<1>1. ASSUME NEW r \in Runs, TakesOn(r) \/ Proceeds(r) \/ Abandon(r) PROVE run'[q] = run[q] \/ Follows(q)
  BY <1>1, OthersKeep, RunFollows
<1>2. Gateway \/ Outside \/ UNCHANGED vars => UNCHANGED run
  BY DEF Gateway, Outside, vars, GatewayTakes, GatewayMisses, GatewaySettles, ReversalReported,
         ReinstatementReported, CollectionReported, Replace, CancelAll, ReplaceMethod, DayComes
<1> QED
  BY <1>1, <1>2 DEF Next

LEMMA RunsSendStep ==
    ASSUME TypeInv, TypeInv', Sending, [Next]_vars
    PROVE  RunsSend'
<1> SUFFICES ASSUME NEW q \in Runs PROVE Sends(run'[q], status', charge')
  BY DEF RunsSend
<1> DEFINE a == run[q].a
<1>0. /\ Carries(run[q]) /\ Carries(run'[q])
      /\ Sends(run[q], status, charge)
      /\ charge \in [Attempts -> Charges]
      /\ SENDING \intersect {"idle", "start", "plan"} = {}
  BY DEF TypeInv, TypeOK, StoreOK, JobsOK, Sending, RunsSend, SENDING
<1>1. \A b \in Attempts : /\ status[b] \in SENT => status'[b] \in SENT
                          /\ Known(charge[b]) => Known(charge'[b])
  BY SentStays, ChargeStep
<1>2. CASE run'[q] = run[q]
  BY <1>0, <1>1, <1>2 DEF Sends, Carries
<1>3. CASE run'[q].op = "idle"
  BY <1>3 DEF Sends, SENDING
<1>4. CASE Begins(q)
  <2>1. CASE run'[q].op = "ask"
    <3>1. run'[q].a \in Attempts /\ status[run'[q].a] \in SENT
      BY <1>4, <2>1 DEF Begins, SENT, UNSETTLED
    <3> QED BY <1>1, <2>1, <3>1 DEF Sends
  <2>2. CASE run'[q].op # "ask"
    <3>1. run'[q].op \notin SENDING
      BY <1>4, <2>2 DEF Begins, SENDING
    <3> QED BY <3>1 DEF Sends, SENDING
  <2> QED BY <2>1, <2>2
<1>5. CASE GoesOn(q)
  <2>1. CASE run'[q].op = "record"
    <3>1. /\ run[q].op \in {"wait", "ask"} /\ run'[q].a = a
          /\ charge[a] # "none" /\ run'[q].with = Outcome(charge[a])
      BY <1>5, <2>1 DEF GoesOn
    <3>2. a \in Attempts /\ status[a] \in SENT
      BY <1>0, <3>1 DEF Carries, Sends, SENDING
    <3>3. run'[q].with # "pending" => Known(charge[a])
      BY <1>0, <3>1, <3>2 DEF Charges, Outcome, Known
    <3> QED BY <1>1, <3>1, <3>2, <3>3 DEF Sends
  <2>2. CASE run[q].op = "submit"
    <3>1. run'[q].op = "send" /\ run'[q].a = a /\ status'[a] = "SUBMITTED"
      BY <1>5, <2>2 DEF GoesOn
    <3> QED BY <3>1 DEF Sends, SENT
  <2>3. CASE run'[q].op \in SENDING /\ run'[q].op # "record" /\ run[q].op # "submit"
    <3>1. run[q].op \in SENDING /\ run'[q].a = a
      BY <1>5, <2>3 DEF GoesOn, SENDING
    <3>2. a \in Attempts /\ status[a] \in SENT
      BY <1>0, <3>1 DEF Carries, Sends
    <3> QED BY <1>1, <2>3, <3>1, <3>2 DEF Sends
  <2>4. CASE run'[q].op \notin SENDING
    BY <2>4 DEF Sends, SENDING
  <2> QED BY <2>1, <2>2, <2>3, <2>4
<1>6. CASE run'[q].op = "send" /\ status'[run'[q].a] = "SUBMITTED"
  BY <1>6 DEF Sends, SENT
<1> QED
  BY <1>2, <1>3, <1>4, <1>5, <1>6, RunsStep DEF Follows

LEMMA AskedStep ==
    ASSUME TypeInv, Sending, [Next]_vars
    PROVE  AskedIsSent'
<1> SUFFICES ASSUME NEW a \in Attempts, a \in flight' \/ charge'[a] # "none" PROVE status'[a] \in SENT
  BY DEF AskedIsSent
<1>1. a \in flight \/ charge[a] # "none" => status'[a] \in SENT
  BY SentStays DEF Sending, AskedIsSent
<1>2. ASSUME NEW r \in Runs, run[r].op = "send", run[r].a = a PROVE status'[a] \in SENT
  <2>1. status[a] \in SENT
    BY <1>2 DEF Sending, RunsSend, Sends, SENDING
  <2> QED BY <2>1, SentStays
<1>3. charge'[a] # "none" => a \in flight \/ charge[a] # "none"
  BY ChargeStep
<1> QED
  BY <1>1, <1>2, <1>3, FlightStep

\* The outcome of a charge that is recorded is what the gateway knows.
LEMMA OutcomeKnown ==
    ASSUME TypeInv, SettledIsKnown, UNCHANGED charge,
           NEW a \in Attempts, NEW outcome \in Outcomes,
           outcome # "pending" => Known(charge[a]),
           RecordOutcome(a, outcome)
    PROVE  SettledIsKnown'
<1>0. status \in [Attempts -> Statuses] /\ reason \in [Attempts -> Reasons]
  BY DEF TypeInv, TypeOK, StoreOK
<1>1. CASE outcome = "pending"
  <2>1. \A b \in Attempts : status'[b] \in SETTLED => status[b] \in SETTLED /\ reason'[b] = reason[b]
    BY <1>0, <1>1 DEF RecordOutcome, Settle, SETTLED
  <2> QED BY <2>1 DEF SettledIsKnown
<1>2. CASE outcome # "pending"
  <2>1. \A b \in Attempts : b # a /\ status'[b] \in SETTLED => status[b] \in SETTLED /\ reason'[b] = reason[b]
    <3>1. CASE Settle(a, outcome)
      BY <1>0, <3>1 DEF Settle, Outcomes
    <3>2. CASE ArrivedAfterAll(a)
      BY <1>0, <3>2 DEF ArrivedAfterAll, SETTLED
    <3>3. CASE UNCHANGED <<status, reason>>
      BY <3>3
    <3> QED BY <3>1, <3>2, <3>3 DEF RecordOutcome
  <2> QED BY <1>2, <2>1 DEF SettledIsKnown
<1> QED BY <1>1, <1>2

LEMMA SettledKnownStep ==
    ASSUME TypeInv, Sending, [Next]_vars
    PROVE  SettledIsKnown'
<1> USE DEF chain, attempts, money, gateway
<1>0. /\ status \in [Attempts -> Statuses] /\ reason \in [Attempts -> Reasons]
      /\ charge \in [Attempts -> Charges]
      /\ \A r \in Runs : Carries(run[r]) /\ Sends(run[r], status, charge)
      /\ SettledIsKnown
  BY DEF TypeInv, TypeOK, StoreOK, JobsOK, Sending, RunsSend
<1>1. CASE \A a \in Attempts : status'[a] \in SETTLED =>
            \/ status[a] \in SETTLED /\ reason'[a] = reason[a]
            \/ reason'[a] = "not-sent"
  BY <1>0, <1>1, ChargeStep DEF SettledIsKnown
<1>2. ASSUME NEW r \in Runs, Record(r) PROVE SettledIsKnown'
  <2>1. /\ run[r].a \in Attempts /\ run[r].with \in Outcomes
        /\ run[r].with # "pending" => Known(charge[run[r].a])
        /\ RecordOutcome(run[r].a, run[r].with) /\ UNCHANGED charge
    BY <1>0, <1>2 DEF Record, Carries, Sends
  <2> QED BY <1>0, <2>1, OutcomeKnown
<1>3. ASSUME NEW a \in Attempts, NEW outcome \in Outcomes, CollectionReported(a, outcome) PROVE SettledIsKnown'
  <2>1. outcome # "pending" => Known(charge[a])
    BY <1>0, <1>3 DEF CollectionReported, Reports, Charges, Known
  <2> QED BY <1>0, <1>3, <2>1, OutcomeKnown DEF CollectionReported
<1>4. ASSUME NEW r \in Runs, AbandonPaid(r) \/ Resend(r) PROVE SettledIsKnown'
  <2>1. \/ UNCHANGED <<status, reason>>
        \/ /\ status' = [status EXCEPT ![run[r].a] = "FAILED"]
           /\ reason' = [reason EXCEPT ![run[r].a] = "not-sent"]
    BY <1>4 DEF AbandonPaid, Resend
  <2> QED BY <1>0, <1>1, <2>1
<1>5. CASE UNCHANGED <<status, reason>>
  BY <1>1, <1>5
<1>6. ASSUME NEW r \in Runs, StartAttempt(r) \/ PlanWith(r) \/ Withdraw(r) \/ SubmitPlanned(r)
      PROVE  SettledIsKnown'
  <2>1. /\ UNCHANGED reason
        /\ \/ UNCHANGED status
           \/ \E a, new : new \notin SETTLED /\ status' = [status EXCEPT ![a] = new]
    BY <1>6 DEF StartAttempt, PlanWith, Withdraw, SubmitPlanned, SETTLED
  <2> QED BY <1>0, <1>1, <2>1
<1>7. ASSUME NEW a \in Attempts, ReversalReported(a) PROVE SettledIsKnown'
  <2>1. UNCHANGED reason
    BY <1>7 DEF ReversalReported
  <2>2. \/ UNCHANGED status
        \/ \E marked : MarkReversed(marked) /\ \A b \in marked : status[b] \in REVERSIBLE
    <3>1. CASE UNCHANGED status
      BY <3>1
    <3>2. ASSUME NEW lifted, MarkReversed({b \in {a} \union lifted \union
                                    {c \in Of(Standing) : status[c] = "SUCCEEDED"} :
                                 status[b] \in REVERSIBLE})
          PROVE  \E marked : MarkReversed(marked) /\ \A b \in marked : status[b] \in REVERSIBLE
      BY <3>2
    <3> QED BY <1>7, <3>1, <3>2 DEF ReversalReported
  <2> QED BY <1>1, <2>1, <2>2 DEF MarkReversed, REVERSIBLE, SETTLED
<1>8. CASE Replace \/ CancelAll
  BY <1>1, <1>8 DEF Replace, CancelAll, WithdrawPlanned, SETTLED
<1>10. ASSUME NEW r \in Runs, TakesOn(r) \/ Abandon(r) PROVE UNCHANGED <<status, reason>>
  BY <1>10 DEF TakesOn, Abandon, CollectOne, PlanAgain, SettleOne, FollowUp, TakeUp, Deliver
<1>11. ASSUME NEW r \in Runs,
              \/ Send(r) \/ Unanswered(r) \/ Answered(r) \/ Ask(r) \/ AttemptAfter(r) \/ TellFailure(r)
              \/ Mark(r) \/ FollowUpReversal(r) \/ Announce(r) \/ RecordAnnounced(r)
       PROVE  UNCHANGED <<status, reason>>
  BY <1>11 DEF Send, Unanswered, Answered, Ask, AttemptAfter, TellFailure, Mark, FollowUpReversal,
               Announce, RecordAnnounced
<1>12. ASSUME NEW a \in Attempts,
              \/ GatewayTakes(a) \/ GatewayMisses(a) \/ GatewaySettles(a)
              \/ ReinstatementReported(a) \/ DayComes(a)
       PROVE  UNCHANGED <<status, reason>>
  BY <1>12 DEF GatewayTakes, GatewayMisses, GatewaySettles, ReinstatementReported, DayComes
<1>13. ReplaceMethod \/ UNCHANGED vars => UNCHANGED <<status, reason>>
  BY DEF ReplaceMethod, vars
<1> QED
  BY <1>2, <1>3, <1>4, <1>5, <1>6, <1>7, <1>8, <1>10, <1>11, <1>12, <1>13
     DEF Next, Proceeds, Gateway, Outside

LEMMA SendingInit == Init => Sending
  BY DEF Init, Sending, RunsSend, Sends, AskedIsSent, SettledIsKnown, SENDING, SETTLED, Idle

LEMMA SendingStep ==
    ASSUME TypeInv, TypeInv', Sending, [Next]_vars
    PROVE  Sending'
  BY RunsSendStep, AskedStep, SettledKnownStep DEF Sending

LEMMA OneOpenInit == Init => OneOpen
  BY DEF Init, OneOpen, PlannedStands, OneOpenPerChain, BLOCKING, OPEN, UNSETTLED

\* While an attempt is out, no other request of the chain is in doubt but one
\* given up because the gateway held nothing under its key: for any number of
\* instances, and whatever is lost, late or reported in any order.
THEOREM NoSecondRequestInDoubtAlways == Spec => []NoSecondRequestInDoubt
<1>1. Init => OneOpen /\ Sending
  BY OneOpenInit, SendingInit
<1>2. TypeInv /\ OneOpen /\ Sending /\ [Next]_vars => TypeInv' /\ OneOpen' /\ Sending'
  BY TypeStep, OneOpenStep, SendingStep
<1>3. OneOpen /\ Sending => NoSecondRequestInDoubt
  <2> SUFFICES ASSUME OneOpen, Sending,
                      NEW a \in Attempts, NEW b \in Attempts, a # b, status[b] \in UNSETTLED,
                      charge[a] = "pending" \/ (charge[a] = "none" /\ a \in flight)
               PROVE  reason[a] = "not-sent"
    BY DEF NoSecondRequestInDoubt
  <2>1. status[a] \in SENT
    BY DEF Sending, AskedIsSent
  <2>2. status[a] \notin UNSETTLED
    BY DEF OneOpen, OneOpenPerChain, OPEN
  <2>3. status[a] \in SETTLED
    BY <2>1, <2>2 DEF SENT, SETTLED, UNSETTLED
  <2> QED BY <2>3 DEF Sending, SettledIsKnown, Known
<1> QED
  BY <1>1, <1>2, <1>3, TypeInit, PTL DEF Spec

-----------------------------------------------------------------------------
(* Failures that are told *)

\* Of a failure, what has to be there before it counts as followed up: its notice,
\* unless its invoice owes nothing or a reversal takes its place.
Excused(a) ==
    \/ failedNotice[a] # "none"
    \/ ~Owes(a[1])
    \/ \E b \in Attempts : status[b] = "REVERSED"

\* A payment belongs to an attempt that is settled.
PaidIsSettled == \A a \in payments : status[a] \in SETTLED

\* Attempts are written for invoices that are issued.
InOrder == \A a \in Attempts : status[a] # "none" => a[1] <= issued

\* What is followed up is settled, and a failure that is, is told or excused.
FollowedIsSettled == \A a \in Attempts : followedUp[a] # Never => status[a] \in SETTLED
FollowedIsExcused == \A a \in Attempts : status[a] = "FAILED" /\ followedUp[a] # Never => Excused(a)

\* What a run follows up is settled, what it reverses was reversed, what it takes
\* up was written, and what it marks is told or excused.
RunsFollowUp ==
    \A r \in Runs : \A a \in Attempts :
        run[r].a = a =>
            /\ run[r].op \in {"planNext", "followUp", "tell", "mark", "reversal"} => status[a] \in SETTLED
            /\ run[r].op = "reversal" => status[a] = "REVERSED"
            /\ run[r].op \in {"withdraw", "announce", "recordAnnounced", "submit"} => status[a] # "none"
            /\ run[r].op = "mark" => Excused(a)

Telling == PaidIsSettled /\ InOrder /\ FollowedIsSettled /\ FollowedIsExcused /\ RunsFollowUp

\* What stands is an invoice that is issued.
LEMMA Chain ==
    ASSUME TypeInv
    PROVE  issued \in Nat \ {0} /\ Standing \in {0, issued}
<1>1. issued \in Invoices
  BY DEF TypeInv, TypeOK, StoreOK
<1> QED
  BY <1>1, Counting DEF Standing

\* An attempt that is written stays so, with its payment method, and one that is
\* reversed stays reversed.
LEMMA WrittenStays ==
    ASSUME TypeInv, [Next]_vars
    PROVE  \A a \in Attempts :
            /\ status[a] # "none" => status'[a] # "none"
            /\ status[a] = "REVERSED" => status'[a] = "REVERSED"
  BY Lifecycle DEF Lives, UNSETTLED

\* Only a reversal opens what is settled, and only a cancellation ends the chain
\* or moves it on.
LEMMA ChainStep ==
    ASSUME TypeInv, [Next]_vars
    PROVE  \/ UNCHANGED <<issued, cancelled, named>> /\ (owing' => owing)
           \/ UNCHANGED <<issued, cancelled, named>> /\ \E a \in Attempts : ReversalReported(a)
           \/ Replace
           \/ CancelAll
<1> USE DEF chain, money
<1> DEFINE Settles == UNCHANGED <<issued, cancelled, named>> /\ (owing' => owing)
<1>0. owing \in BOOLEAN
  BY DEF TypeInv, TypeOK, StoreOK
<1>1. UNCHANGED <<issued, cancelled, named, owing>> => Settles
  OBVIOUS
<1>2. ASSUME NEW b \in Attempts, NEW outcome \in Outcomes, RecordOutcome(b, outcome) PROVE Settles
  BY <1>0, <1>2 DEF RecordOutcome, RecordPayment, StillOwingAfter
<1>3. ASSUME NEW r \in Runs, Record(r) PROVE Settles
  <2>1. run[r].a \in Attempts /\ run[r].with \in Outcomes
    BY <1>3 DEF Record, Carries, TypeInv, JobsOK
  <2> QED BY <1>2, <1>3, <2>1 DEF Record
<1>4. ASSUME NEW b \in Attempts, NEW outcome \in Outcomes, CollectionReported(b, outcome) PROVE Settles
  BY <1>2, <1>4 DEF CollectionReported
<1>5. ASSUME NEW b \in Attempts, ReversalReported(b) PROVE UNCHANGED <<issued, cancelled, named>>
  BY <1>5 DEF ReversalReported
<1>6. ASSUME NEW b \in Attempts, ReinstatementReported(b) PROVE Settles
  <2>1. UNCHANGED <<issued, cancelled, named>> /\ owing' \in {owing, FALSE}
    BY <1>6 DEF ReinstatementReported
  <2>2. CASE owing' = owing
    BY <2>1, <2>2
  <2>3. CASE owing' = FALSE
    BY <2>1, <2>3
  <2> QED BY <2>1, <2>2, <2>3
<1>7. ASSUME NEW r \in Runs, TakesOn(r) \/ Abandon(r) PROVE Settles
  BY <1>1, <1>7 DEF TakesOn, Abandon, CollectOne, PlanAgain, SettleOne, FollowUp, TakeUp, Deliver
<1>8. ASSUME NEW r \in Runs,
              \/ StartAttempt(r) \/ PlanWith(r) \/ Send(r) \/ Unanswered(r) \/ Answered(r) \/ Ask(r)
              \/ AbandonPaid(r) \/ Resend(r) \/ AttemptAfter(r) \/ TellFailure(r) \/ Mark(r)
              \/ FollowUpReversal(r) \/ Withdraw(r) \/ Announce(r) \/ RecordAnnounced(r) \/ SubmitPlanned(r)
      PROVE  Settles
  BY <1>1, <1>8 DEF StartAttempt, PlanWith, Send, Unanswered, Answered, Ask, AbandonPaid, Resend, AttemptAfter,
               TellFailure, Mark, FollowUpReversal, Withdraw, Announce, RecordAnnounced, SubmitPlanned
<1>9. ASSUME NEW b \in Attempts, GatewayTakes(b) \/ GatewayMisses(b) \/ GatewaySettles(b) \/ DayComes(b)
      PROVE  Settles
  BY <1>1, <1>9 DEF GatewayTakes, GatewayMisses, GatewaySettles, DayComes
<1>10. ReplaceMethod \/ UNCHANGED vars => Settles
  BY <1>1 DEF ReplaceMethod, vars
<1> HIDE DEF Settles
<1>11. \/ Settles
       \/ UNCHANGED <<issued, cancelled, named>> /\ \E a \in Attempts : ReversalReported(a)
       \/ Replace
       \/ CancelAll
  BY <1>3, <1>4, <1>5, <1>6, <1>7, <1>8, <1>9, <1>10 DEF Next, Proceeds, Gateway, Outside
<1> QED
  BY <1>11 DEF Settles

\* What an invoice that owes nothing owes again, a reversal opened.
LEMMA OwingStep ==
    ASSUME TypeInv, Telling, [Next]_vars, NEW a \in Attempts, status[a] # "none", ~Owes(a[1])
    PROVE  ~Owes(a[1])' \/ \E b \in Attempts : status'[b] = "REVERSED"
<1>0. /\ payments \subseteq Attempts
      /\ issued \in Nat \ {0}
      /\ a[1] \in Nat \ {0} /\ a[1] <= issued
  BY Chain, Counting DEF TypeInv, TypeOK, StoreOK, Telling, InOrder
<1>1. CASE UNCHANGED <<issued, cancelled>> /\ (owing' => owing)
  BY <1>1 DEF Owes, Standing
<1>2. ASSUME NEW b \in Attempts, ReversalReported(b), UNCHANGED <<issued, cancelled>>
      PROVE  ~Owes(a[1])' \/ \E c \in Attempts : status'[c] = "REVERSED"
  <2>1. status[b] \in SETTLED
    BY <1>0, <1>2 DEF ReversalReported, Live, Telling, PaidIsSettled
  <2>2. CASE UNCHANGED owing
    BY <1>1, <1>2, <2>2
  <2>3. ASSUME NEW lifted, MarkReversed({c \in {b} \union lifted \union
                                    {d \in Of(Standing) : status[d] = "SUCCEEDED"} :
                                 status[c] \in REVERSIBLE})
        PROVE  status'[b] = "REVERSED"
    BY <2>1, <2>3 DEF MarkReversed, REVERSIBLE, SETTLED
  <2> QED BY <1>2, <2>2, <2>3 DEF ReversalReported
<1>3. CASE Replace
  <2>1. issued' = issued + 1 /\ UNCHANGED cancelled
    BY <1>3 DEF Replace
  <2> QED BY <1>0, <2>1 DEF Owes, Standing
<1>4. CASE CancelAll
  BY <1>4 DEF CancelAll, Owes
<1> QED
  BY <1>1, <1>2, <1>3, <1>4, ChainStep

\* A notice that is recorded stays so, and one that is delivered stays delivered.
LEMMA NoticesStay ==
    ASSUME TypeInv, [Next]_vars
    PROVE  \A a \in Attempts :
            /\ failedNotice[a] # "none" => failedNotice'[a] # "none"
            /\ failedNotice[a] = "delivered" => failedNotice'[a] = "delivered"
<1> USE DEF notices
<1>0. failedNotice \in [Attempts -> {"none", "recorded", "delivered"}]
  BY DEF TypeInv, TypeOK, StoreOK
<1>1. ASSUME NEW r \in Runs, TellFailure(r)
      PROVE  \/ UNCHANGED failedNotice
             \/ failedNotice[run[r].a] = "none" /\ failedNotice' = [failedNotice EXCEPT ![run[r].a] = "recorded"]
  BY <1>1 DEF TellFailure
<1>2. ASSUME NEW r \in Runs, NEW a \in Attempts, Deliver(r, a)
      PROVE  UNCHANGED failedNotice \/ failedNotice' = [failedNotice EXCEPT ![a] = "delivered"]
  BY <1>2 DEF Deliver
<1>3. ASSUME NEW r \in Runs, NEW a \in Attempts, SettleOne(r, a) \/ FollowUp(r, a) \/ TakeUp(r, a)
      PROVE  UNCHANGED failedNotice
  BY <1>3 DEF SettleOne, FollowUp, TakeUp
<1>4. ASSUME NEW r \in Runs, NEW i \in Invoices, CollectOne(r, i) \/ PlanAgain(r, i)
      PROVE  UNCHANGED failedNotice
  BY <1>4 DEF CollectOne, PlanAgain
<1>5. ASSUME NEW r \in Runs,
              \/ StartAttempt(r) \/ PlanWith(r) \/ Send(r) \/ Unanswered(r) \/ Answered(r) \/ Ask(r)
              \/ AbandonPaid(r) \/ Resend(r) \/ AttemptAfter(r) \/ Record(r) \/ Mark(r)
              \/ FollowUpReversal(r) \/ Withdraw(r) \/ Announce(r) \/ RecordAnnounced(r) \/ SubmitPlanned(r)
              \/ Abandon(r)
       PROVE  UNCHANGED failedNotice
  BY <1>5 DEF StartAttempt, PlanWith, Send, Unanswered, Answered, Ask, AbandonPaid, Resend, AttemptAfter,
              Record, RecordOutcome, Mark, FollowUpReversal, Withdraw, Announce, RecordAnnounced,
              SubmitPlanned, Abandon
<1>6. ASSUME NEW b \in Attempts,
              \/ GatewayTakes(b) \/ GatewayMisses(b) \/ GatewaySettles(b) \/ DayComes(b)
              \/ ReversalReported(b) \/ ReinstatementReported(b)
       PROVE  UNCHANGED failedNotice
  BY <1>6 DEF GatewayTakes, GatewayMisses, GatewaySettles, DayComes, ReversalReported, ReinstatementReported
<1>7. ASSUME NEW b \in Attempts, NEW outcome \in Outcomes, CollectionReported(b, outcome)
      PROVE  UNCHANGED failedNotice
  BY <1>7 DEF CollectionReported, RecordOutcome
<1>8. Replace \/ CancelAll \/ ReplaceMethod \/ UNCHANGED vars => UNCHANGED failedNotice
  BY DEF Replace, CancelAll, ReplaceMethod, vars
<1>9. [Next]_vars =>
        \/ UNCHANGED failedNotice
        \/ \E a : failedNotice[a] = "none" /\ failedNotice' = [failedNotice EXCEPT ![a] = "recorded"]
        \/ \E a : failedNotice' = [failedNotice EXCEPT ![a] = "delivered"]
  BY <1>1, <1>2, <1>3, <1>4, <1>5, <1>6, <1>7, <1>8 DEF Next, TakesOn, Proceeds, Gateway, Outside
<1> QED
  BY <1>0, <1>9

LEMMA ExcusedStays ==
    ASSUME TypeInv, Telling, [Next]_vars, NEW a \in Attempts, status[a] # "none", Excused(a)
    PROVE  Excused(a)'
<1>1. CASE failedNotice[a] # "none"
  BY <1>1, NoticesStay DEF Excused
<1>2. CASE ~Owes(a[1])
  BY <1>2, OwingStep DEF Excused
<1>3. CASE \E b \in Attempts : status[b] = "REVERSED"
  BY <1>3, WrittenStays DEF Excused
<1> QED
  BY <1>1, <1>2, <1>3 DEF Excused

\* What is followed up newly, a run marks.
LEMMA FollowedStep ==
    ASSUME TypeInv, [Next]_vars, NEW a \in Attempts, followedUp'[a] # Never
    PROVE  \/ followedUp[a] # Never
           \/ \E r \in Runs : run[r].op \in {"mark", "reversal"} /\ run[r].a = a
<1> USE DEF attempts
<1>0. followedUp \in [Attempts -> Nat \union {Never}]
  BY DEF TypeInv, TypeOK, StoreOK
<1>1. CASE UNCHANGED followedUp
  BY <1>1
<1>2. ASSUME NEW r \in Runs, Mark(r) \/ FollowUpReversal(r)
      PROVE  followedUp[a] # Never \/ (run[r].op \in {"mark", "reversal"} /\ run[r].a = a)
  <2>1. /\ run[r].op \in {"mark", "reversal"}
        /\ UNCHANGED followedUp \/ followedUp' = [followedUp EXCEPT ![run[r].a] = reversals]
    BY <1>2 DEF Mark, FollowUpReversal, MarkFollowedUp
  <2> QED BY <1>0, <2>1
<1>3. ASSUME NEW b \in Attempts, ReversalReported(b) PROVE followedUp[a] # Never
  <2>1. UNCHANGED followedUp \/ \E marked : MarkReversed(marked)
    BY <1>3 DEF ReversalReported
  <2> QED BY <2>1 DEF MarkReversed
<1>4. ASSUME NEW r \in Runs, TakesOn(r) \/ Abandon(r) PROVE UNCHANGED followedUp
  BY <1>4 DEF TakesOn, Abandon, CollectOne, PlanAgain, SettleOne, FollowUp, TakeUp, Deliver
<1>5. ASSUME NEW r \in Runs,
              \/ StartAttempt(r) \/ PlanWith(r) \/ Send(r) \/ Unanswered(r) \/ Answered(r) \/ Ask(r)
              \/ AbandonPaid(r) \/ Resend(r) \/ AttemptAfter(r) \/ Record(r) \/ TellFailure(r)
              \/ Withdraw(r) \/ Announce(r) \/ RecordAnnounced(r) \/ SubmitPlanned(r)
       PROVE  UNCHANGED followedUp
  BY <1>5 DEF StartAttempt, PlanWith, Send, Unanswered, Answered, Ask, AbandonPaid, Resend, AttemptAfter,
              Record, RecordOutcome, TellFailure, Withdraw, Announce, RecordAnnounced, SubmitPlanned
<1>6. ASSUME NEW b \in Attempts,
              \/ GatewayTakes(b) \/ GatewayMisses(b) \/ GatewaySettles(b) \/ DayComes(b)
              \/ ReinstatementReported(b)
       PROVE  UNCHANGED followedUp
  BY <1>6 DEF GatewayTakes, GatewayMisses, GatewaySettles, DayComes, ReinstatementReported
<1>7. ASSUME NEW b \in Attempts, NEW outcome \in Outcomes, CollectionReported(b, outcome)
      PROVE  UNCHANGED followedUp
  BY <1>7 DEF CollectionReported, RecordOutcome
<1>8. Replace \/ CancelAll \/ ReplaceMethod \/ UNCHANGED vars => UNCHANGED followedUp
  BY DEF Replace, CancelAll, ReplaceMethod, vars
<1> QED
  BY <1>1, <1>2, <1>3, <1>4, <1>5, <1>6, <1>7, <1>8 DEF Next, Proceeds, Gateway, Outside

\* A payment is booked of an attempt that was sent, and settles it.
LEMMA OutcomeSettles ==
    ASSUME TypeInv, NEW a \in Attempts, NEW outcome \in Outcomes, status[a] \in SENT,
           RecordOutcome(a, outcome)
    PROVE  \A b \in payments' : b \in payments \/ (b = a /\ status'[b] \in SETTLED)
<1>0. status \in [Attempts -> Statuses]
  BY DEF TypeInv, TypeOK, StoreOK
<1>1. CASE outcome # "succeeded"
  BY <1>1 DEF RecordOutcome
<1>2. CASE outcome = "succeeded"
  <2>1. payments' \subseteq payments \union {a}
    BY <1>2 DEF RecordOutcome, RecordPayment
  <2>2. status'[a] \in SETTLED
    <3>1. CASE Settle(a, outcome)
      BY <1>0, <1>2, <3>1 DEF Settle, SETTLED
    <3>2. CASE ArrivedAfterAll(a)
      BY <3>2 DEF ArrivedAfterAll, SETTLED
    <3>3. CASE status[a] \notin UNSETTLED /\ UNCHANGED status
      BY <3>3 DEF SENT, SETTLED, UNSETTLED
    <3> QED BY <3>1, <3>2, <3>3 DEF RecordOutcome
  <2> QED BY <2>1, <2>2
<1> QED BY <1>1, <1>2

LEMMA PaidStep ==
    ASSUME TypeInv, Sending, Telling, [Next]_vars
    PROVE  PaidIsSettled'
<1> USE DEF money
<1>0. /\ payments \subseteq Attempts
      /\ \A b \in payments : status'[b] \in SETTLED
  BY SentStays DEF TypeInv, TypeOK, StoreOK, Telling, PaidIsSettled
<1>1. CASE UNCHANGED payments
  BY <1>0, <1>1 DEF PaidIsSettled
<1>2. ASSUME NEW r \in Runs, Record(r) PROVE PaidIsSettled'
  <2>1. run[r].a \in Attempts /\ run[r].with \in Outcomes /\ status[run[r].a] \in SENT
    BY <1>2 DEF Record, Carries, TypeInv, JobsOK, Sending, RunsSend, Sends, SENDING
  <2> QED BY <1>0, <1>2, <2>1, OutcomeSettles DEF Record, PaidIsSettled
<1>3. ASSUME NEW a \in Attempts, NEW outcome \in Outcomes, CollectionReported(a, outcome) PROVE PaidIsSettled'
  <2>1. charge[a] # "none"
    BY <1>3 DEF CollectionReported, Reports
  <2>2. status[a] \in SENT
    BY <2>1 DEF Sending, AskedIsSent
  <2> QED BY <1>0, <1>3, <2>2, OutcomeSettles DEF CollectionReported, PaidIsSettled
<1>4. ASSUME NEW r \in Runs, TakesOn(r) \/ Abandon(r) PROVE UNCHANGED payments
  BY <1>4 DEF TakesOn, Abandon, CollectOne, PlanAgain, SettleOne, FollowUp, TakeUp, Deliver
<1>5. ASSUME NEW r \in Runs,
              \/ StartAttempt(r) \/ PlanWith(r) \/ Send(r) \/ Unanswered(r) \/ Answered(r) \/ Ask(r)
              \/ AbandonPaid(r) \/ Resend(r) \/ AttemptAfter(r) \/ TellFailure(r) \/ Mark(r)
              \/ FollowUpReversal(r) \/ Withdraw(r) \/ Announce(r) \/ RecordAnnounced(r) \/ SubmitPlanned(r)
       PROVE  UNCHANGED payments
  BY <1>5 DEF StartAttempt, PlanWith, Send, Unanswered, Answered, Ask, AbandonPaid, Resend, AttemptAfter,
              TellFailure, Mark, FollowUpReversal, Withdraw, Announce, RecordAnnounced, SubmitPlanned
<1>6. ASSUME NEW b \in Attempts,
              \/ GatewayTakes(b) \/ GatewayMisses(b) \/ GatewaySettles(b) \/ DayComes(b)
              \/ ReversalReported(b) \/ ReinstatementReported(b)
       PROVE  UNCHANGED payments
  BY <1>6 DEF GatewayTakes, GatewayMisses, GatewaySettles, DayComes, ReversalReported, ReinstatementReported
<1>8. Replace \/ CancelAll \/ ReplaceMethod \/ UNCHANGED vars => UNCHANGED payments
  BY DEF Replace, CancelAll, ReplaceMethod, vars
<1> QED
  BY <1>1, <1>2, <1>3, <1>4, <1>5, <1>6, <1>8 DEF Next, Proceeds, Gateway, Outside

LEMMA InOrderStep ==
    ASSUME TypeInv, TypeInv', Telling, [Next]_vars
    PROVE  InOrder'
<1>0. /\ issued \in Nat /\ issued' \in Nat /\ issued <= issued'
      /\ \A a \in Attempts : a[1] \in Nat
  <2>1. issued \in Nat /\ issued' \in Nat
    BY Counting DEF TypeInv, TypeOK, StoreOK
  <2>2. issued' = issued \/ issued' = issued + 1
    BY ChainStep DEF Replace, CancelAll
  <2> QED BY <2>1, <2>2, Counting
<1> SUFFICES ASSUME NEW a \in Attempts, status'[a] # "none" PROVE a[1] <= issued'
  BY DEF InOrder
<1>1. CASE status[a] # "none"
  BY <1>0, <1>1 DEF Telling, InOrder
<1>2. CASE status[a] = "none"
  <2>1. Opens(a)
    BY <1>2, Lifecycle DEF Lives, UNSETTLED
  <2>2. a[1] = Standing /\ a[1] # 0
    BY <2>1, Counting DEF Opens, Owes
  <2> QED BY <1>0, <2>2, Chain
<1> QED BY <1>1, <1>2

LEMMA RunsFollowUpStep ==
    ASSUME TypeInv, Telling, [Next]_vars
    PROVE  RunsFollowUp'
<1> SUFFICES ASSUME NEW r \in Runs, NEW a \in Attempts, run'[r].a = a
             PROVE  /\ run'[r].op \in {"planNext", "followUp", "tell", "mark", "reversal"} => status'[a] \in SETTLED
                    /\ run'[r].op = "reversal" => status'[a] = "REVERSED"
                    /\ run'[r].op \in {"withdraw", "announce", "recordAnnounced", "submit"} => status'[a] # "none"
                    /\ run'[r].op = "mark" => Excused(a)'
  BY DEF RunsFollowUp
<1>0. /\ status[a] \in SETTLED => status'[a] \in SETTLED
      /\ status[a] # "none" => status'[a] # "none"
      /\ status[a] = "REVERSED" => status'[a] = "REVERSED"
      /\ status[a] # "none" /\ Excused(a) => Excused(a)'
  BY SentStays, WrittenStays, ExcusedStays
<1>1. run[r].a = a =>
            /\ run[r].op \in {"planNext", "followUp", "tell", "mark", "reversal"} => status[a] \in SETTLED
            /\ run[r].op = "reversal" => status[a] = "REVERSED"
            /\ run[r].op \in {"withdraw", "announce", "recordAnnounced", "submit"} => status[a] # "none"
            /\ run[r].op = "mark" => Excused(a)
  BY DEF Telling, RunsFollowUp
<1>2. CASE run'[r] = run[r]
  BY <1>0, <1>1, <1>2 DEF SETTLED
<1>3. CASE Begins(r)
  <2>1. CASE run'[r].op = "mark"
    <3>1. status[a] = "FAILED" /\ (~Owes(a[1]) \/ ReversedOn(Of(a[1])) # {})
      BY <1>3, <2>1 DEF Begins
    <3>2. Excused(a)
      BY <3>1 DEF Excused, ReversedOn, Of
    <3> QED BY <1>0, <2>1, <3>1, <3>2 DEF SETTLED
  <2>2. CASE run'[r].op # "mark"
    <3>1. /\ run'[r].op \notin {"planNext", "tell", "recordAnnounced"}
          /\ run'[r].op = "followUp" => status[a] = "FAILED"
          /\ run'[r].op = "reversal" => status[a] = "REVERSED"
          /\ run'[r].op \in {"withdraw", "announce", "submit"} => status[a] = "SCHEDULED"
      BY <1>3 DEF Begins
    <3> QED BY <1>0, <2>2, <3>1 DEF SETTLED
  <2> QED BY <2>1, <2>2
<1>4. CASE GoesOn(r)
  <2>1. CASE run[r].op = "tell" /\ run'[r].op = "mark" /\ failedNotice'[a] # "none"
    <3>1. Excused(a)'
      BY <2>1 DEF Excused
    <3>2. run[r].a = a
      BY <1>4 DEF GoesOn
    <3> QED BY <1>0, <1>1, <2>1, <3>1, <3>2
  <2>2. CASE run'[r].op # "mark"
    <3>1. /\ run[r].a = a
          /\ run'[r].op \notin {"withdraw", "announce", "submit", "followUp", "reversal"}
          /\ run'[r].op \in {"planNext", "tell"} => run[r].op \in {"followUp", "planNext"}
          /\ run'[r].op = "recordAnnounced" => run[r].op = "announce"
      BY <1>4 DEF GoesOn
    <3> QED BY <1>0, <1>1, <2>2, <3>1
  <2> QED BY <1>4, <2>1, <2>2 DEF GoesOn
<1>5. CASE run'[r].op \in {"idle", "send"}
  BY <1>5
<1> QED
  BY <1>2, <1>3, <1>4, <1>5, RunsStep DEF Follows

LEMMA TellingStep ==
    ASSUME TypeInv, TypeInv', Sending, Telling, [Next]_vars
    PROVE  Telling'
<1>1. FollowedIsSettled'
  <2> SUFFICES ASSUME NEW a \in Attempts, followedUp'[a] # Never PROVE status'[a] \in SETTLED
    BY DEF FollowedIsSettled
  <2>1. status[a] \in SETTLED
    BY FollowedStep DEF Telling, FollowedIsSettled, RunsFollowUp
  <2> QED BY <2>1, SentStays
<1>2. FollowedIsExcused'
  <2> SUFFICES ASSUME NEW a \in Attempts, status'[a] = "FAILED", followedUp'[a] # Never PROVE Excused(a)'
    BY DEF FollowedIsExcused
  <2>1. \/ followedUp[a] # Never
        \/ \E r \in Runs : run[r].op \in {"mark", "reversal"} /\ run[r].a = a
    BY FollowedStep
  <2>2. status[a] \in SETTLED
    BY <2>1 DEF Telling, FollowedIsSettled, RunsFollowUp
  <2>3. status[a] = "FAILED"
    BY <2>2, Lifecycle DEF Lives, SETTLED, UNSETTLED
  <2>4. Excused(a)
    BY <2>1, <2>3 DEF Telling, FollowedIsExcused, RunsFollowUp
  <2> QED BY <2>3, <2>4, ExcusedStays
<1> QED
  BY <1>1, <1>2, PaidStep, InOrderStep, RunsFollowUpStep DEF Telling

LEMMA TellingInit == Init => Telling
<1> SUFFICES ASSUME Init PROVE Telling
  OBVIOUS
<1> QED
  BY DEF Init, Telling, PaidIsSettled, InOrder, FollowedIsSettled, FollowedIsExcused, RunsFollowUp, Idle

\* A failure that is followed up, of an invoice that still owes, was told, for any
\* number of instances that follow it up, stop in between or decide from what
\* they read before; only a reversal of the chain takes its place.
THEOREM FailureIsToldAlways == Spec => []FailureIsTold
<1>1. Init => Sending /\ Telling
  BY SendingInit, TellingInit
<1>2. TypeInv /\ Sending /\ Telling /\ [Next]_vars => TypeInv' /\ Sending' /\ Telling'
  BY TypeStep, SendingStep, TellingStep
<1>3. Telling => FailureIsTold
  BY DEF Telling, FollowedIsExcused, Excused, FailureIsTold
<1> QED
  BY <1>1, <1>2, <1>3, TypeInit, PTL DEF Spec

-----------------------------------------------------------------------------
(* Announcements *)

\* Before an attempt that is written, every attempt of its invoice is written and
\* over: it is settled or withdrawn.
BeforeIsDone ==
    \A a, b \in Attempts :
        b[1] = a[1] /\ b[2] < a[2] /\ status[a] # "none" => status[b] \notin OPEN \union {"none"}

AnnouncedIsWritten == \A a \in Attempts : announcedNotice[a] = "delivered" => status[a] # "none"

\* The failures before an attempt that the subscriber was told of, or will be with
\* a reversal of the invoice.
ToldBefore(a) ==
    \A b \in Of(a[1]) :
        b[2] < a[2] /\ status[b] = "FAILED" =>
            failedNotice[b] = "delivered" \/ \E c \in Of(a[1]) : status[c] = "REVERSED"

AnnouncedIsTold == \A a \in Attempts : announcedNotice[a] = "delivered" => ToldBefore(a)

Announcing == BeforeIsDone /\ AnnouncedIsWritten /\ AnnouncedIsTold

LEMMA BeforeStep ==
    ASSUME TypeInv, BeforeIsDone, [Next]_vars
    PROVE  BeforeIsDone'
<1> SUFFICES ASSUME NEW a \in Attempts, NEW b \in Attempts,
                    b[1] = a[1], b[2] < a[2], status'[a] # "none"
             PROVE  status'[b] \notin OPEN \union {"none"}
  BY DEF BeforeIsDone
<1>1. status[b] \notin OPEN \union {"none"} => status'[b] \notin OPEN \union {"none"}
  <2>1. status[b] \in Statuses
    BY DEF TypeInv, TypeOK, StoreOK
  <2> QED BY <2>1, Lifecycle DEF Lives, Statuses, BLOCKING, OPEN, UNSETTLED
<1>2. CASE status[a] # "none"
  BY <1>1, <1>2 DEF BeforeIsDone
<1>3. CASE status[a] = "none"
  <2>1. Opens(a)
    BY <1>3, Lifecycle DEF Lives, UNSETTLED
  <2>2. a[1] \in Nat /\ a[2] \in Nat /\ b[2] \in Nat \ {0} /\ b = <<b[1], b[2]>>
    BY Counting
  <2>3. PICK r \in Runs :
            \/ a[2] = 1
            \/ a[2] = run[r].a[2] + 1 /\ ~RefusesPlannedAttempt(a[1], run[r].a[2])
    BY <2>1 DEF Opens
  <2> DEFINE k == run[r].a[2]
  <2>4. CASE a[2] = 1
    BY <2>2, <2>4
  <2>5. CASE a[2] = k + 1 /\ ~RefusesPlannedAttempt(a[1], k)
    <3>1. k \in Numbers \union {0}
      BY DEF TypeInv, TypeOK, Jobs
    <3>2. k \in Nat
      BY <3>1, Counting
    <3>3. k # 0 /\ b[2] <= k
      BY <2>2, <2>5, <3>2
    <3>4. IsLast(a[1], k) /\ status[b] \notin BLOCKING
      BY <2>5 DEF RefusesPlannedAttempt, Of
    <3>5. <<a[1], k>> \in Attempts /\ status[<<a[1], k>>] # "none"
      BY <3>3, <3>4 DEF IsLast, Written, Of
    <3>6. CASE b[2] = k
      BY <1>1, <2>2, <3>4, <3>5, <3>6 DEF BLOCKING
    <3>7. CASE b[2] < k
      <4>1. <<a[1], k>>[1] = a[1] /\ <<a[1], k>>[2] = k
        OBVIOUS
      <4> QED BY <1>1, <3>5, <3>7, <4>1 DEF BeforeIsDone
    <3> QED BY <2>2, <3>2, <3>3, <3>6, <3>7
  <2> QED BY <2>3, <2>4, <2>5
<1> QED BY <1>2, <1>3

\* An announcement goes out where no failure of the invoice is untold.
LEMMA AnnouncedStep ==
    ASSUME TypeInv, [Next]_vars, NEW a \in Attempts, announcedNotice'[a] = "delivered"
    PROVE  \/ announcedNotice[a] = "delivered"
           \/ /\ UNCHANGED <<chain, attempts, failedNotice>>
              /\ Untold(a[1]) = {}
              /\ \E r \in Runs : run[r].op = "announce" /\ run[r].a = a
<1> USE DEF notices
<1>0. announcedNotice \in [Attempts -> {"none", "delivered"}]
  BY DEF TypeInv, TypeOK, StoreOK
<1>1. CASE UNCHANGED announcedNotice
  BY <1>1
<1>2. ASSUME NEW r \in Runs, Announce(r)
      PROVE  \/ announcedNotice[a] = "delivered"
             \/ /\ UNCHANGED <<chain, attempts, failedNotice>>
                /\ Untold(a[1]) = {}
                /\ run[r].op = "announce" /\ run[r].a = a
  <2>1. /\ UNCHANGED <<chain, attempts, failedNotice>>
        /\ run[r].op = "announce"
    BY <1>2 DEF Announce
  <2>2. CASE UNCHANGED announcedNotice
    BY <2>2
  <2>3. CASE /\ Untold(run[r].a[1]) = {}
             /\ announcedNotice' = [announcedNotice EXCEPT ![run[r].a] = "delivered"]
    BY <1>0, <2>1, <2>3
  <2> QED BY <1>2, <2>2, <2>3 DEF Announce
<1>3. ASSUME NEW r \in Runs, TakesOn(r) \/ Abandon(r) PROVE UNCHANGED announcedNotice
  BY <1>3 DEF TakesOn, Abandon, CollectOne, PlanAgain, SettleOne, FollowUp, TakeUp, Deliver
<1>4. ASSUME NEW r \in Runs,
              \/ StartAttempt(r) \/ PlanWith(r) \/ Send(r) \/ Unanswered(r) \/ Answered(r) \/ Ask(r)
              \/ AbandonPaid(r) \/ Resend(r) \/ AttemptAfter(r) \/ Record(r) \/ TellFailure(r) \/ Mark(r)
              \/ FollowUpReversal(r) \/ Withdraw(r) \/ RecordAnnounced(r) \/ SubmitPlanned(r)
       PROVE  UNCHANGED announcedNotice
  BY <1>4 DEF StartAttempt, PlanWith, Send, Unanswered, Answered, Ask, AbandonPaid, Resend, AttemptAfter,
              Record, RecordOutcome, TellFailure, Mark, FollowUpReversal, Withdraw, RecordAnnounced,
              SubmitPlanned
<1>5. ASSUME NEW b \in Attempts,
              \/ GatewayTakes(b) \/ GatewayMisses(b) \/ GatewaySettles(b) \/ DayComes(b)
              \/ ReversalReported(b) \/ ReinstatementReported(b)
       PROVE  UNCHANGED announcedNotice
  BY <1>5 DEF GatewayTakes, GatewayMisses, GatewaySettles, DayComes, ReversalReported, ReinstatementReported
<1>6. ASSUME NEW b \in Attempts, NEW outcome \in Outcomes, CollectionReported(b, outcome)
      PROVE  UNCHANGED announcedNotice
  BY <1>6 DEF CollectionReported, RecordOutcome
<1>7. Replace \/ CancelAll \/ ReplaceMethod \/ UNCHANGED vars => UNCHANGED announcedNotice
  BY DEF Replace, CancelAll, ReplaceMethod, vars
<1> QED
  BY <1>1, <1>2, <1>3, <1>4, <1>5, <1>6, <1>7 DEF Next, Proceeds, Gateway, Outside

\* Where no failure of the invoice is untold, each is told or a reversal's to tell.
LEMMA NoneUntold ==
    ASSUME NEW a \in Attempts, Untold(a[1]) = {}
    PROVE  ToldBefore(a)
<1> SUFFICES ASSUME NEW b \in Of(a[1]), status[b] = "FAILED", failedNotice[b] # "delivered"
             PROVE  \E c \in Of(a[1]) : status[c] = "REVERSED"
  BY DEF ToldBefore
<1>1. \/ method[b] \in ReversedOn(Of(a[1]))
      \/ \E c \in Of(a[1]) : status[c] = "REVERSED"
  BY DEF Untold
<1> QED BY <1>1 DEF ReversedOn

LEMMA AnnouncingStep ==
    ASSUME TypeInv, Telling, Announcing, [Next]_vars
    PROVE  Announcing'
<1>1. BeforeIsDone'
  BY BeforeStep DEF Announcing
<1>2. AnnouncedIsWritten'
  <2> SUFFICES ASSUME NEW a \in Attempts, announcedNotice'[a] = "delivered" PROVE status'[a] # "none"
    BY DEF AnnouncedIsWritten
  <2>1. status[a] # "none"
    BY AnnouncedStep DEF Announcing, AnnouncedIsWritten, Telling, RunsFollowUp
  <2> QED BY <2>1, WrittenStays
<1>3. AnnouncedIsTold'
  <2> SUFFICES ASSUME NEW a \in Attempts, announcedNotice'[a] = "delivered",
                      NEW b \in Attempts, b[1] = a[1], b[2] < a[2], status'[b] = "FAILED"
               PROVE  failedNotice'[b] = "delivered" \/ \E c \in Of(a[1]) : status'[c] = "REVERSED"
    BY DEF AnnouncedIsTold, ToldBefore, Of
  <2>1. \/ announcedNotice[a] = "delivered"
        \/ /\ UNCHANGED <<status, failedNotice>>
           /\ Untold(a[1]) = {}
    BY AnnouncedStep DEF attempts
  <2>2. CASE UNCHANGED <<status, failedNotice>> /\ Untold(a[1]) = {}
    BY <2>2, NoneUntold DEF ToldBefore, Of
  <2>3. CASE announcedNotice[a] = "delivered"
    <3>1. status[b] \notin OPEN \union {"none"}
      BY <2>3 DEF Announcing, AnnouncedIsWritten, BeforeIsDone
    <3>2. status[b] = "FAILED"
      BY <3>1, Lifecycle DEF Lives, OPEN
    <3>3. failedNotice[b] = "delivered" \/ \E c \in Of(a[1]) : status[c] = "REVERSED"
      BY <2>3, <3>2 DEF Announcing, AnnouncedIsTold, ToldBefore, Of
    <3> QED BY <3>3, NoticesStay, WrittenStays DEF Of
  <2> QED BY <2>1, <2>2, <2>3
<1> QED BY <1>1, <1>2, <1>3 DEF Announcing

LEMMA AnnouncingInit == Init => Announcing
  BY DEF Init, Announcing, BeforeIsDone, AnnouncedIsWritten, AnnouncedIsTold

\* A direct debit is announced after the subscriber was told of the failures
\* before it, unless a payment of the invoice was reversed: for any number of
\* instances that deliver, stop before they record it, or deliver twice.
THEOREM AnnouncedAfterToldAlways == Spec => []AnnouncedAfterTold
<1>1. Init => Sending /\ Telling /\ Announcing
  BY SendingInit, TellingInit, AnnouncingInit
<1>2. TypeInv /\ Sending /\ Telling /\ Announcing /\ [Next]_vars =>
        TypeInv' /\ Sending' /\ Telling' /\ Announcing'
  BY TypeStep, SendingStep, TellingStep, AnnouncingStep
<1>3. Announcing => AnnouncedAfterTold
  BY DEF Announcing, AnnouncedIsTold, ToldBefore, AnnouncedAfterTold
<1> QED
  BY <1>1, <1>2, <1>3, TypeInit, PTL DEF Spec

-----------------------------------------------------------------------------
(* What was told to replace *)

\* Methods are confirmed one after the other, and an invoice goes on to later ones.
MethodsAscend ==
    \A a \in Attempts : status[a] # "none" =>
        /\ method[a] <= active
        /\ \A b \in Later(a) : method[a] <= method[b]

\* A run plans with the method in use when it decided: another one than the last
\* attempt's, or the same one a retry is planned with.
RunsPlan ==
    \A r \in Runs :
        /\ run[r].op \in {"start", "plan", "planNext"} => run[r].m <= active
        /\ \A a \in Attempts :
            run[r].op \in {"plan", "planNext"} /\ run[r].a = a =>
                /\ status[a] # "none" /\ method[a] <= run[r].m
                /\ run[r].op = "plan" \/ run[r].with # "later" => run[r].m # method[a]

\* Nothing is reversed before a reversal is recorded.
NoneReversed == reversals = 0 => \A a \in Attempts : status[a] # "REVERSED"

\* No retry follows a failure: its reason cannot pass, or the payment method
\* failed the invoice before.
Final(a) ==
    \/ status[a] = "SUCCEEDED"
    \/ reason[a] # "can-pass"
    \/ \E b \in Of(a[1]) \ {a} : method[b] = method[a] /\ status[b] \in {"FAILED", "SUCCEEDED"}

DoneWith(a) == Final(a) /\ \A b \in Later(a) : method[b] # method[a]

ReplaceIsFinal ==
    reversals = 0 =>
        \A a \in Attempts : failedNext[a] = "replace" => status[a] \in SETTLED /\ DoneWith(a)

\* What a run read of the failure it follows up, unless it succeeded meanwhile: a
\* retry is planned of one whose reason can pass, the first with its payment
\* method, and a replacement asked for where none is.
RunsRetry ==
    reversals = 0 =>
        \A r \in Runs : \A a \in Attempts :
            run[r].a = a =>
                /\ run[r].op = "followUp" =>
                        status[a] = "SUCCEEDED" \/ (run[r].with = "later" <=> reason[a] = "can-pass")
                /\ run[r].op = "planNext" /\ run[r].with = "later" =>
                        /\ status[a] = "SUCCEEDED" \/ reason[a] = "can-pass"
                        /\ \A b \in Of(a[1]) : b[2] < a[2] /\ status[b] = "FAILED" => method[b] # method[a]
                /\ run[r].op = "tell" /\ run[r].with = "replace" => DoneWith(a)

Replacing == MethodsAscend /\ RunsPlan /\ NoneReversed /\ ReplaceIsFinal /\ RunsRetry

\* The payment method of an attempt stays, the one in use is replaced by a later
\* one, and reversals are never taken back.
LEMMA MethodsStep ==
    ASSUME TypeInv, [Next]_vars
    PROVE  /\ \A a \in Attempts : status[a] # "none" => method'[a] = method[a]
           /\ active' = active \/ active' = active + 1
           /\ reversals' = reversals \/ reversals' = reversals + 1
<1> USE DEF attempts, money
<1>1. \A a \in Attempts : status[a] # "none" => method'[a] = method[a]
  <2>0. method \in [Attempts -> Methods \union {0}]
    BY DEF TypeInv, TypeOK, StoreOK
  <2>1. ASSUME NEW r \in Runs, StartAttempt(r), NEW a \in Attempts, status[a] # "none"
        PROVE  method'[a] = method[a]
    <3>1. \/ UNCHANGED method
          \/ Written(run[r].a[1]) = {} /\ method' = [method EXCEPT ![<<run[r].a[1], 1>>] = run[r].m]
      BY <2>1 DEF StartAttempt, RefusesFirstAttempt
    <3> QED BY <2>0, <2>1, <3>1 DEF Written, Of
  <2>2. ASSUME NEW r \in Runs, PlanWith(r), NEW a \in Attempts, status[a] # "none"
        PROVE  method'[a] = method[a]
    <3>1. \/ UNCHANGED method
          \/ /\ IsLast(run[r].a[1], run[r].a[2])
             /\ method' = [method EXCEPT ![<<run[r].a[1], run[r].a[2] + 1>>] = run[r].m]
      BY <2>2 DEF PlanWith, RefusesPlannedAttempt
    <3>2. run[r].a[2] \in Numbers \union {0}
      BY DEF TypeInv, TypeOK, Jobs
    <3>3. run[r].a[2] \in Nat
      BY <3>2, Counting
    <3>4. IsLast(run[r].a[1], run[r].a[2]) => a # <<run[r].a[1], run[r].a[2] + 1>>
      BY <2>2, <3>3 DEF IsLast, Later, Written, Of
    <3> QED BY <2>0, <3>1, <3>4
  <2>3. ASSUME NEW r \in Runs, TakesOn(r) \/ Abandon(r) PROVE UNCHANGED method
    BY <2>3 DEF TakesOn, Abandon, CollectOne, PlanAgain, SettleOne, FollowUp, TakeUp, Deliver
  <2>4. ASSUME NEW r \in Runs,
              \/ Send(r) \/ Unanswered(r) \/ Answered(r) \/ Ask(r)
              \/ AbandonPaid(r) \/ Resend(r) \/ AttemptAfter(r) \/ Record(r) \/ TellFailure(r) \/ Mark(r)
              \/ FollowUpReversal(r) \/ Withdraw(r) \/ Announce(r) \/ RecordAnnounced(r) \/ SubmitPlanned(r)
        PROVE  UNCHANGED method
    BY <2>4 DEF Send, Unanswered, Answered, Ask, AbandonPaid, Resend, AttemptAfter, Record, RecordOutcome,
              TellFailure, Mark, FollowUpReversal, Withdraw, Announce, RecordAnnounced, SubmitPlanned
  <2>5. ASSUME NEW b \in Attempts,
              \/ GatewayTakes(b) \/ GatewayMisses(b) \/ GatewaySettles(b) \/ DayComes(b)
              \/ ReversalReported(b) \/ ReinstatementReported(b)
        PROVE  UNCHANGED method
    BY <2>5 DEF GatewayTakes, GatewayMisses, GatewaySettles, DayComes, ReversalReported, ReinstatementReported
  <2>6. ASSUME NEW b \in Attempts, NEW outcome \in Outcomes, CollectionReported(b, outcome)
        PROVE  UNCHANGED method
    BY <2>6 DEF CollectionReported, RecordOutcome
  <2>7. Replace \/ CancelAll \/ ReplaceMethod \/ UNCHANGED vars => UNCHANGED method
    BY DEF Replace, CancelAll, ReplaceMethod, vars
  <2> QED
    BY <2>1, <2>2, <2>3, <2>4, <2>5, <2>6, <2>7 DEF Next, Proceeds, Gateway, Outside
<1>2. ASSUME NEW r \in Runs, TakesOn(r) \/ Proceeds(r) \/ Abandon(r) PROVE UNCHANGED <<active, reversals>>
  BY <1>2 DEF TakesOn, Proceeds, Abandon, CollectOne, PlanAgain, SettleOne, FollowUp, TakeUp,
         Deliver, StartAttempt, PlanWith, Send, Unanswered, Answered, Record, RecordOutcome, Ask, AbandonPaid,
         Resend, AttemptAfter, TellFailure, Mark, FollowUpReversal, Withdraw, Announce, RecordAnnounced,
         SubmitPlanned
<1>3. ASSUME NEW b \in Attempts,
              \/ GatewayTakes(b) \/ GatewayMisses(b) \/ GatewaySettles(b) \/ DayComes(b)
              \/ ReversalReported(b) \/ ReinstatementReported(b)
      PROVE  UNCHANGED active /\ (reversals' = reversals \/ reversals' = reversals + 1)
  BY <1>3 DEF GatewayTakes, GatewayMisses, GatewaySettles, DayComes, ReversalReported, ReinstatementReported
<1>4. ASSUME NEW b \in Attempts, NEW outcome \in Outcomes, CollectionReported(b, outcome)
      PROVE  UNCHANGED <<active, reversals>>
  BY <1>4 DEF CollectionReported, RecordOutcome
<1>5. Replace \/ CancelAll \/ ReplaceMethod \/ UNCHANGED vars =>
        (active' = active \/ active' = active + 1) /\ UNCHANGED reversals
  BY DEF Replace, CancelAll, ReplaceMethod, vars
<1>6. /\ active' = active \/ active' = active + 1
      /\ reversals' = reversals \/ reversals' = reversals + 1
  BY <1>2, <1>3, <1>4, <1>5 DEF Next, Gateway, Outside
<1> QED
  BY <1>1, <1>6

\* The reason of a failure stays, unless its money arrived after all.
LEMMA ReasonStep ==
    ASSUME TypeInv, [Next]_vars, NEW a \in Attempts, status[a] \in SETTLED
    PROVE  reason'[a] = reason[a] \/ (status'[a] = "SUCCEEDED" /\ reason'[a] = "none")
<1> USE DEF attempts
<1>0. /\ status \in [Attempts -> Statuses] /\ reason \in [Attempts -> Reasons]
      /\ status[a] \notin UNSETTLED
  BY DEF TypeInv, TypeOK, StoreOK, SETTLED, UNSETTLED
<1>1. CASE UNCHANGED reason
  BY <1>1
<1>2. ASSUME NEW b \in Attempts, NEW outcome \in Outcomes, RecordOutcome(b, outcome)
      PROVE  reason'[a] = reason[a] \/ (status'[a] = "SUCCEEDED" /\ reason'[a] = "none")
  <2>1. CASE status[b] \in UNSETTLED /\ Settle(b, outcome)
    BY <1>0, <2>1 DEF Settle, Outcomes
  <2>2. CASE ArrivedAfterAll(b)
    BY <1>0, <2>2 DEF ArrivedAfterAll
  <2> QED BY <1>1, <1>2, <2>1, <2>2 DEF RecordOutcome
<1>3. ASSUME NEW r \in Runs, Record(r)
      PROVE  reason'[a] = reason[a] \/ (status'[a] = "SUCCEEDED" /\ reason'[a] = "none")
  <2>1. run[r].a \in Attempts /\ run[r].with \in Outcomes
    BY <1>3 DEF Record, Carries, TypeInv, JobsOK
  <2> QED BY <1>2, <1>3, <2>1 DEF Record
<1>4. ASSUME NEW b \in Attempts, NEW outcome \in Outcomes, CollectionReported(b, outcome)
      PROVE  reason'[a] = reason[a] \/ (status'[a] = "SUCCEEDED" /\ reason'[a] = "none")
  BY <1>2, <1>4 DEF CollectionReported
<1>5. ASSUME NEW r \in Runs, AbandonPaid(r) \/ Resend(r) PROVE reason'[a] = reason[a]
  <2>1. \/ UNCHANGED reason
        \/ status[run[r].a] \in UNSETTLED /\ reason' = [reason EXCEPT ![run[r].a] = "not-sent"]
    BY <1>5 DEF AbandonPaid, Resend, UNSETTLED
  <2> QED BY <1>0, <2>1
<1>6. ASSUME NEW r \in Runs, TakesOn(r) \/ Abandon(r) PROVE UNCHANGED reason
  BY <1>6 DEF TakesOn, Abandon, CollectOne, PlanAgain, SettleOne, FollowUp, TakeUp, Deliver
<1>7. ASSUME NEW r \in Runs,
              \/ StartAttempt(r) \/ PlanWith(r) \/ Send(r) \/ Unanswered(r) \/ Answered(r) \/ Ask(r)
              \/ AttemptAfter(r) \/ TellFailure(r) \/ Mark(r)
              \/ FollowUpReversal(r) \/ Withdraw(r) \/ Announce(r) \/ RecordAnnounced(r) \/ SubmitPlanned(r)
      PROVE  UNCHANGED reason
  BY <1>7 DEF StartAttempt, PlanWith, Send, Unanswered, Answered, Ask, AttemptAfter,
              TellFailure, Mark, FollowUpReversal, Withdraw, Announce, RecordAnnounced, SubmitPlanned
<1>8. ASSUME NEW b \in Attempts,
              \/ GatewayTakes(b) \/ GatewayMisses(b) \/ GatewaySettles(b) \/ DayComes(b)
              \/ ReversalReported(b) \/ ReinstatementReported(b)
      PROVE  UNCHANGED reason
  BY <1>8 DEF GatewayTakes, GatewayMisses, GatewaySettles, DayComes, ReversalReported, ReinstatementReported
<1>9. Replace \/ CancelAll \/ ReplaceMethod \/ UNCHANGED vars => UNCHANGED reason
  BY DEF Replace, CancelAll, ReplaceMethod, vars
<1> QED
  BY <1>1, <1>3, <1>4, <1>5, <1>6, <1>7, <1>8, <1>9 DEF Next, Proceeds, Gateway, Outside

\* What a failure's notice says follows, a run told.
LEMMA ToldStep ==
    ASSUME TypeInv, [Next]_vars, NEW a \in Attempts
    PROVE  \/ /\ failedNext'[a] = failedNext[a]
              /\ failedNotice'[a] # "none" => failedNotice[a] # "none"
           \/ \E r \in Runs : run[r].op = "tell" /\ run[r].a = a /\ failedNext'[a] = run[r].with
<1> USE DEF notices
<1>0. /\ failedNext \in [Attempts -> {"none", "again", "replace"}]
      /\ failedNotice \in [Attempts -> {"none", "recorded", "delivered"}]
  BY DEF TypeInv, TypeOK, StoreOK
<1>1. CASE UNCHANGED <<failedNotice, failedNext>>
  BY <1>1
<1>2. ASSUME NEW r \in Runs, TellFailure(r)
      PROVE  \/ /\ failedNext'[a] = failedNext[a]
                /\ failedNotice'[a] # "none" => failedNotice[a] # "none"
             \/ run[r].op = "tell" /\ run[r].a = a /\ failedNext'[a] = run[r].with
  <2>1. /\ run[r].op = "tell"
        /\ \/ UNCHANGED <<failedNotice, failedNext>>
           \/ /\ failedNotice' = [failedNotice EXCEPT ![run[r].a] = "recorded"]
              /\ failedNext' = [failedNext EXCEPT ![run[r].a] = run[r].with]
    BY <1>2 DEF TellFailure
  <2> QED BY <1>0, <2>1
<1>3. ASSUME NEW r \in Runs, NEW b \in Attempts, Deliver(r, b)
      PROVE  failedNext'[a] = failedNext[a] /\ (failedNotice'[a] # "none" => failedNotice[a] # "none")
  BY <1>0, <1>3 DEF Deliver
<1>4. ASSUME NEW r \in Runs, NEW b \in Attempts, SettleOne(r, b) \/ FollowUp(r, b) \/ TakeUp(r, b)
      PROVE  UNCHANGED <<failedNotice, failedNext>>
  BY <1>4 DEF SettleOne, FollowUp, TakeUp
<1>5. ASSUME NEW r \in Runs, NEW i \in Invoices, CollectOne(r, i) \/ PlanAgain(r, i)
      PROVE  UNCHANGED <<failedNotice, failedNext>>
  BY <1>5 DEF CollectOne, PlanAgain
<1>6. ASSUME NEW r \in Runs,
              \/ StartAttempt(r) \/ PlanWith(r) \/ Send(r) \/ Unanswered(r) \/ Answered(r) \/ Ask(r)
              \/ AbandonPaid(r) \/ Resend(r) \/ AttemptAfter(r) \/ Record(r) \/ Mark(r)
              \/ FollowUpReversal(r) \/ Withdraw(r) \/ Announce(r) \/ RecordAnnounced(r) \/ SubmitPlanned(r)
              \/ Abandon(r)
      PROVE  UNCHANGED <<failedNotice, failedNext>>
  BY <1>6 DEF StartAttempt, PlanWith, Send, Unanswered, Answered, Ask, AbandonPaid, Resend, AttemptAfter,
              Record, RecordOutcome, Mark, FollowUpReversal, Withdraw, Announce, RecordAnnounced,
              SubmitPlanned, Abandon
<1>7. ASSUME NEW b \in Attempts,
              \/ GatewayTakes(b) \/ GatewayMisses(b) \/ GatewaySettles(b) \/ DayComes(b)
              \/ ReversalReported(b) \/ ReinstatementReported(b)
      PROVE  UNCHANGED <<failedNotice, failedNext>>
  BY <1>7 DEF GatewayTakes, GatewayMisses, GatewaySettles, DayComes, ReversalReported, ReinstatementReported
<1>8. ASSUME NEW b \in Attempts, NEW outcome \in Outcomes, CollectionReported(b, outcome)
      PROVE  UNCHANGED <<failedNotice, failedNext>>
  BY <1>8 DEF CollectionReported, RecordOutcome
<1>9. Replace \/ CancelAll \/ ReplaceMethod \/ UNCHANGED vars => UNCHANGED <<failedNotice, failedNext>>
  BY DEF Replace, CancelAll, ReplaceMethod, vars
<1> QED
  BY <1>1, <1>2, <1>3, <1>4, <1>5, <1>6, <1>7, <1>8, <1>9 DEF Next, TakesOn, Proceeds, Gateway, Outside

\* An attempt beside others of its invoice is planned after the last of them, with
\* no earlier payment method.
LEMMA OpensAfter ==
    ASSUME TypeInv, MethodsAscend, RunsPlan, NEW b \in Attempts, Opens(b),
           NEW a \in Attempts, a[1] = b[1], status[a] # "none"
    PROVE  \E r \in Runs : \E c \in Attempts :
            /\ run[r].a = c /\ run[r].op \in {"plan", "planNext"}
            /\ c[1] = b[1] /\ b[2] = c[2] + 1 /\ a[2] <= c[2]
            /\ status[c] # "none"
            /\ \A d \in Of(b[1]) : status[d] \notin BLOCKING /\ (status[d] # "none" => d[2] <= c[2])
            /\ method'[b] = run[r].m /\ run[r].m <= active
            /\ method[a] <= method[c] /\ method[c] <= run[r].m
            /\ run[r].op = "plan" \/ run[r].with # "later" => run[r].m # method[c]
<1>1. PICK r \in Runs :
        /\ method'[b] = run[r].m
        /\ run[r].a[1] = b[1]
        /\ \/ run[r].op = "start" /\ Written(b[1]) = {}
           \/ /\ run[r].op \in {"plan", "planNext"} /\ b[2] = run[r].a[2] + 1
              /\ ~RefusesPlannedAttempt(b[1], run[r].a[2])
  BY DEF Opens
<1>2. Written(b[1]) # {}
  BY DEF Written, Of
<1> DEFINE k == run[r].a[2]
           c == <<b[1], k>>
<1>3. /\ run[r].a \in (Invoices \union {0}) \X (Numbers \union {0})
      /\ method \in [Attempts -> Methods \union {0}]
  BY DEF TypeInv, TypeOK, StoreOK, Jobs
<1>4. run[r].a = c
  BY <1>1, <1>3
<1>5. k \in Nat /\ a[2] \in Nat /\ b[2] \in Nat
  <2>1. k \in Numbers \union {0}
    BY <1>3
  <2> QED BY <2>1, Counting
<1>6. IsLast(b[1], k) /\ \A d \in Of(b[1]) : status[d] \notin BLOCKING
  BY <1>1, <1>2 DEF RefusesPlannedAttempt
<1>7. c \in Attempts /\ status[c] # "none" /\ Later(c) = {}
  BY <1>2, <1>6 DEF IsLast, Written, Of
<1>8. c[1] = b[1] /\ c[2] = k
  OBVIOUS
<1>9. \A d \in Of(b[1]) : status[d] # "none" => d[2] <= c[2]
  <2> SUFFICES ASSUME NEW d \in Of(b[1]), status[d] # "none" PROVE d[2] <= c[2]
    OBVIOUS
  <2>1. d \notin Later(c) /\ d \in Attempts
    BY <1>7 DEF Of
  <2>2. ~(d[2] > c[2]) /\ d[2] \in Nat
    BY <1>8, <2>1, Counting DEF Later, Written, Of
  <2> QED BY <1>5, <1>8, <2>2
<1>10. a[2] <= c[2]
  BY <1>9 DEF Of
<1> HIDE DEF c
<1>11. /\ run[r].op \in {"plan", "planNext"} /\ b[2] = c[2] + 1
       /\ run[r].m <= active /\ method[c] <= run[r].m
       /\ run[r].op = "plan" \/ run[r].with # "later" => run[r].m # method[c]
  BY <1>1, <1>2, <1>4, <1>7, <1>8 DEF RunsPlan
<1>12. method[a] <= method[c]
  <2>1. CASE a[2] = c[2]
    <3>1. a = c
      BY <1>7, <1>8, <2>1, Counting
    <3>2. method[a] \in Nat
      BY <1>3, Counting
    <3> QED BY <3>1, <3>2
  <2>2. CASE a[2] < c[2]
    <3>1. c \in Later(a)
      BY <1>7, <1>8, <2>2 DEF Later, Written, Of
    <3> QED BY <3>1 DEF MethodsAscend
  <2> QED BY <1>5, <1>8, <1>10, <2>1, <2>2
<1> QED
  BY <1>1, <1>4, <1>6, <1>7, <1>8, <1>9, <1>10, <1>11, <1>12

LEMMA MethodsAscendStep ==
    ASSUME TypeInv, TypeInv', MethodsAscend, RunsPlan, BeforeIsDone, [Next]_vars
    PROVE  MethodsAscend'
<1>0. /\ active \in Nat /\ active' \in Nat /\ active <= active'
      /\ \A a \in Attempts : method[a] \in Nat /\ method'[a] \in Nat
  <2>1. active \in Nat /\ active' \in Nat
    BY Counting DEF TypeInv, TypeOK, StoreOK
  <2>2. \A a \in Attempts : method[a] \in Methods \union {0} /\ method'[a] \in Methods \union {0}
    BY DEF TypeInv, TypeOK, StoreOK
  <2> QED BY <2>1, <2>2, MethodsStep, Counting
<1>1. ASSUME NEW a \in Attempts, status[a] # "none"
      PROVE  status'[a] # "none" /\ method'[a] = method[a] /\ method[a] <= active
  BY <1>1, MethodsStep, WrittenStays DEF MethodsAscend
<1>2. ASSUME NEW a \in Attempts, status[a] = "none", status'[a] # "none"
      PROVE  Opens(a) /\ method'[a] <= active
  <2>1. Opens(a)
    BY <1>2, Lifecycle DEF Lives, UNSETTLED
  <2>2. PICK r \in Runs : method'[a] = run[r].m /\ run[r].op \in {"start", "plan", "planNext"}
    BY <2>1 DEF Opens
  <2> QED BY <2>1, <2>2 DEF RunsPlan
<1>3. ASSUME NEW a \in Attempts, status'[a] # "none" PROVE method'[a] <= active'
  <2>1. method'[a] <= active
    BY <1>1, <1>2, <1>3
  <2> QED BY <1>0, <2>1
<1>4. ASSUME NEW a \in Attempts, NEW b \in Attempts, a[1] = b[1], a[2] < b[2],
             status'[a] # "none", status'[b] # "none"
      PROVE  method'[a] <= method'[b]
  <2>1. CASE status[a] # "none" /\ status[b] # "none"
    <3>1. b \in Later(a)
      BY <1>4, <2>1 DEF Later, Written, Of
    <3>2. method[a] <= method[b]
      BY <2>1, <3>1 DEF MethodsAscend
    <3> QED BY <1>1, <2>1, <3>2
  <2>2. CASE status[b] = "none"
    <3>1. Opens(b)
      BY <1>2, <1>4, <2>2
    <3>2. status[a] # "none"
      <4>1. a # b /\ status'[a] = status[a]
        BY <1>4, <3>1, Counting DEF Opens
      <4> QED BY <1>4, <4>1
    <3>3. \E r \in Runs : \E c \in Attempts :
            method'[b] = run[r].m /\ method[a] <= method[c] /\ method[c] <= run[r].m
      BY <1>4, <3>1, <3>2, OpensAfter
    <3> QED BY <1>0, <1>1, <3>2, <3>3
  <2>3. CASE status[b] # "none"
    <3>1. status[a] # "none"
      BY <1>4, <2>3 DEF BeforeIsDone
    <3> QED BY <2>1, <2>3, <3>1
  <2> QED BY <2>2, <2>3
<1> QED
  BY <1>3, <1>4 DEF MethodsAscend, Later, Written, Of

LEMMA RunsPlanStep ==
    ASSUME TypeInv, TypeInv', MethodsAscend, RunsPlan, Telling, [Next]_vars
    PROVE  RunsPlan'
<1> SUFFICES ASSUME NEW r \in Runs, run'[r].op \in {"start", "plan", "planNext"}
             PROVE  /\ run'[r].m <= active'
                    /\ \A a \in Attempts :
                        run'[r].op \in {"plan", "planNext"} /\ run'[r].a = a =>
                            /\ status'[a] # "none" /\ method'[a] <= run'[r].m
                            /\ run'[r].op = "plan" \/ run'[r].with # "later" => run'[r].m # method'[a]
  BY DEF RunsPlan
<1>0. /\ active \in Nat /\ active' \in Nat /\ active <= active'
      /\ \A q \in Runs : run[q].m \in Nat
      /\ \A a \in Attempts :
            status[a] # "none" => status'[a] # "none" /\ method'[a] = method[a] /\ method[a] <= active
  <2>1. active \in Nat /\ active' \in Nat
    BY Counting DEF TypeInv, TypeOK, StoreOK
  <2>2. \A q \in Runs : run[q].m \in Methods \union {0}
    BY DEF TypeInv, TypeOK, Jobs
  <2> QED BY <2>1, <2>2, MethodsStep, WrittenStays, Counting DEF MethodsAscend
<1>1. CASE run'[r] = run[r]
  BY <1>0, <1>1 DEF RunsPlan
<1>2. CASE Begins(r)
  <2>1. run'[r].m = active
    BY <1>2 DEF Begins
  <2>2. ASSUME NEW a \in Attempts, run'[r].op \in {"plan", "planNext"}, run'[r].a = a
        PROVE  status[a] # "none" /\ method[a] # active
    <3>1. a[2] # 0
      BY Counting
    <3> QED BY <1>2, <2>2, <3>1 DEF Begins
  <2> QED BY <1>0, <2>1, <2>2
<1>3. CASE GoesOn(r)
  <2>1. /\ run[r].op = "followUp" /\ run'[r].op = "planNext" /\ run'[r].a = run[r].a
        /\ run'[r].m = active
        /\ run'[r].with # "later" => method[run[r].a] # active
    BY <1>3 DEF GoesOn
  <2>2. \A a \in Attempts : run[r].a = a => status[a] # "none"
    BY <2>1 DEF Telling, RunsFollowUp, SETTLED
  <2> QED BY <1>0, <2>1, <2>2
<1> QED
  BY <1>1, <1>2, <1>3, RunsStep DEF Follows

LEMMA NoneReversedStep ==
    ASSUME TypeInv, NoneReversed, [Next]_vars
    PROVE  NoneReversed'
<1>1. reversals \in Nat
  BY DEF TypeInv, TypeOK, StoreOK
<1>2. reversals' = 0 => reversals = 0
  BY <1>1, MethodsStep
<1> QED
  BY <1>2, Lifecycle DEF NoneReversed, Lives, UNSETTLED

\* Before a reversal, what failed or succeeded does not fail anew, and what is
\* done with stays so: no attempt with its payment method follows.
LEMMA BeforeReversal ==
    ASSUME TypeInv, NoneReversed, [Next]_vars, reversals' = 0
    PROVE  /\ reversals = 0
           /\ \A a \in Attempts :
                /\ status[a] = "SUCCEEDED" => status'[a] = "SUCCEEDED"
                /\ status[a] = "FAILED" => status'[a] \in {"FAILED", "SUCCEEDED"}
                /\ status[a] # "REVERSED"
<1>1. reversals \in Nat
  BY DEF TypeInv, TypeOK, StoreOK
<1>2. reversals = 0
  BY <1>1, MethodsStep
<1> QED
  BY <1>2, Lifecycle DEF NoneReversed, Lives, UNSETTLED

\* No attempt is planned after one that is done with, with its payment method.
LEMMA PlannedWithAnother ==
    ASSUME TypeInv, MethodsAscend, RunsPlan, RunsRetry, reversals = 0,
           NEW b \in Attempts, Opens(b),
           NEW a \in Attempts, a[1] = b[1], status[a] \in SETTLED, DoneWith(a)
    PROVE  method'[b] # method[a]
<1> SUFFICES ASSUME method'[b] = method[a] PROVE FALSE
  OBVIOUS
<1>0. status[a] # "none"
  BY DEF SETTLED
<1>1. PICK r \in Runs, c \in Attempts :
            /\ run[r].a = c /\ run[r].op \in {"plan", "planNext"}
            /\ c[1] = b[1] /\ b[2] = c[2] + 1 /\ a[2] <= c[2]
            /\ status[c] # "none"
            /\ \A d \in Of(b[1]) : status[d] \notin BLOCKING /\ (status[d] # "none" => d[2] <= c[2])
            /\ method'[b] = run[r].m /\ run[r].m <= active
            /\ method[a] <= method[c] /\ method[c] <= run[r].m
            /\ run[r].op = "plan" \/ run[r].with # "later" => run[r].m # method[c]
  BY <1>0, OpensAfter
<1>2. /\ method[a] \in Nat /\ method[c] \in Nat
      /\ a[2] \in Nat /\ c[2] \in Nat
  <2>1. method[a] \in Methods \union {0} /\ method[c] \in Methods \union {0}
    BY DEF TypeInv, TypeOK, StoreOK
  <2> QED BY <2>1, Counting
<1>3. method[c] = method[a] /\ run[r].op = "planNext" /\ run[r].with = "later"
  BY <1>1, <1>2
<1>4. CASE a[2] = c[2]
  <2>1. a = c
    BY <1>1, <1>4, Counting
  <2>2. a \in Of(b[1])
    BY DEF Of
  <2>3. status[a] # "SUCCEEDED"
    BY <1>1, <2>2 DEF BLOCKING
  <2>4. /\ reason[a] = "can-pass"
        /\ \A d \in Of(a[1]) : d[2] < a[2] /\ status[d] = "FAILED" => method[d] # method[a]
    BY <1>1, <1>3, <2>1, <2>3 DEF RunsRetry
  <2>5. PICK d \in Of(a[1]) \ {a} : method[d] = method[a] /\ status[d] \in {"FAILED", "SUCCEEDED"}
    BY <2>3, <2>4 DEF DoneWith, Final
  <2>6. d \in Of(b[1]) /\ d \in Attempts /\ d # a /\ d[1] = a[1]
    BY <2>5 DEF Of
  <2>7. status[d] = "FAILED" /\ d[2] <= a[2]
    BY <1>1, <2>1, <2>5, <2>6 DEF BLOCKING
  <2>8. d[2] # a[2] /\ d[2] \in Nat
    BY <2>6, Counting
  <2>9. d[2] < a[2]
    BY <1>2, <2>7, <2>8
  <2> QED BY <2>4, <2>5, <2>7, <2>9
<1>5. CASE a[2] < c[2]
  <2>1. c \in Later(a)
    BY <1>1, <1>5 DEF Later, Written, Of
  <2> QED BY <1>3, <2>1 DEF DoneWith
<1> QED
  BY <1>1, <1>2, <1>4, <1>5

LEMMA DoneWithStays ==
    ASSUME TypeInv, MethodsAscend, RunsPlan, RunsRetry, NoneReversed, [Next]_vars,
           reversals' = 0, NEW a \in Attempts, status[a] \in SETTLED, DoneWith(a)
    PROVE  DoneWith(a)'
<1>1. reversals = 0
  BY BeforeReversal
<1>2. status[a] # "none" /\ method'[a] = method[a] /\ (status[a] = "SUCCEEDED" => status'[a] = "SUCCEEDED")
  BY MethodsStep, BeforeReversal DEF SETTLED
<1>3. Final(a)'
  <2>1. CASE status[a] = "SUCCEEDED"
    BY <1>2, <2>1 DEF Final
  <2>2. CASE reason[a] # "can-pass"
    BY <2>2, ReasonStep DEF Final
  <2>3. ASSUME NEW b \in Of(a[1]) \ {a}, method[b] = method[a], status[b] \in {"FAILED", "SUCCEEDED"}
        PROVE  Final(a)'
    <3>1. b \in Attempts /\ method'[b] = method[b] /\ status'[b] \in {"FAILED", "SUCCEEDED"}
      BY <2>3, MethodsStep, BeforeReversal DEF Of
    <3> QED BY <1>2, <2>3, <3>1 DEF Final, Of
  <2> QED BY <2>1, <2>2, <2>3 DEF DoneWith, Final
<1>4. ASSUME NEW b \in Attempts, b[1] = a[1], b[2] > a[2], status'[b] # "none"
      PROVE  method'[b] # method'[a]
  <2>1. CASE status[b] # "none"
    <3>1. b \in Later(a) /\ method'[b] = method[b]
      BY <1>4, <2>1, MethodsStep DEF Later, Written, Of
    <3> QED BY <1>2, <3>1 DEF DoneWith
  <2>2. CASE status[b] = "none"
    <3>1. Opens(b)
      BY <1>4, <2>2, Lifecycle DEF Lives, UNSETTLED
    <3> QED BY <1>1, <1>2, <1>4, <3>1, PlannedWithAnother
  <2> QED BY <2>1, <2>2
<1> QED
  BY <1>3, <1>4 DEF DoneWith, Later, Written, Of

LEMMA RunsRetryStep ==
    ASSUME TypeInv, Telling, BeforeIsDone, Replacing, [Next]_vars
    PROVE  RunsRetry'
<1> SUFFICES ASSUME reversals' = 0, NEW r \in Runs, NEW a \in Attempts, run'[r].a = a
             PROVE  /\ run'[r].op = "followUp" =>
                            status'[a] = "SUCCEEDED" \/ (run'[r].with = "later" <=> reason'[a] = "can-pass")
                    /\ run'[r].op = "planNext" /\ run'[r].with = "later" =>
                            /\ status'[a] = "SUCCEEDED" \/ reason'[a] = "can-pass"
                            /\ \A b \in Of(a[1]) : b[2] < a[2] /\ status'[b] = "FAILED" => method'[b] # method'[a]
                    /\ run'[r].op = "tell" /\ run'[r].with = "replace" => DoneWith(a)'
  BY DEF RunsRetry, Of
<1>0. reversals = 0 /\ (status[a] = "SUCCEEDED" => status'[a] = "SUCCEEDED")
  BY BeforeReversal DEF Replacing
<1>1. run[r].a = a =>
            /\ run[r].op \in {"planNext", "followUp", "tell", "mark"} => status[a] \in SETTLED
            /\ run[r].op = "followUp" =>
                    status[a] = "SUCCEEDED" \/ (run[r].with = "later" <=> reason[a] = "can-pass")
            /\ run[r].op = "planNext" /\ run[r].with = "later" =>
                    /\ status[a] = "SUCCEEDED" \/ reason[a] = "can-pass"
                    /\ \A b \in Of(a[1]) : b[2] < a[2] /\ status[b] = "FAILED" => method[b] # method[a]
            /\ run[r].op = "tell" /\ run[r].with = "replace" => DoneWith(a)
  BY <1>0 DEF Replacing, RunsRetry, Telling, RunsFollowUp
<1>2. status[a] \in SETTLED => reason'[a] = reason[a] \/ status'[a] = "SUCCEEDED"
  BY ReasonStep
<1>3. status[a] \in SETTLED /\ DoneWith(a) => DoneWith(a)'
  BY DoneWithStays DEF Replacing
\* No attempt before one that is settled fails anew.
<1>4. ASSUME status[a] \in SETTLED, NEW b \in Of(a[1]), b[2] < a[2], status'[b] = "FAILED",
             status[b] = "FAILED" => method[b] # method[a]
      PROVE  method'[b] # method'[a]
  <2>1. b \in Attempts /\ b[1] = a[1] /\ status[a] # "none"
    BY <1>4 DEF Of, SETTLED
  <2>2. status[b] \notin OPEN \union {"none"}
    BY <1>4, <2>1 DEF BeforeIsDone
  <2>3. status[b] = "FAILED"
    BY <1>4, <2>1, <2>2, Lifecycle DEF Lives, OPEN
  <2> QED BY <1>4, <2>1, <2>3, MethodsStep
<1>5. CASE run'[r] = run[r]
  <2>1. CASE run[r].op = "followUp"
    BY <1>0, <1>1, <1>2, <1>5, <2>1
  <2>2. CASE run[r].op = "planNext" /\ run[r].with = "later"
    BY <1>0, <1>1, <1>2, <1>4, <1>5, <2>2
  <2>3. CASE run[r].op = "tell" /\ run[r].with = "replace"
    BY <1>1, <1>3, <1>5, <2>3
  <2> QED BY <1>5, <2>1, <2>2, <2>3
<1>6. CASE Begins(r)
  <2>1. run'[r].op \notin {"planNext", "tell"}
    BY <1>6 DEF Begins
  <2>2. run'[r].op = "followUp" => (run'[r].with = "later" <=> reason'[a] = "can-pass")
    BY <1>6 DEF Begins, attempts
  <2> QED BY <2>1, <2>2
<1>7. CASE GoesOn(r)
  <2>1. /\ run[r].a = a /\ run'[r].op # "followUp"
        /\ run'[r].op = "planNext" \/ (run'[r].op = "tell" /\ run'[r].with = "replace") =>
                /\ run[r].op = "followUp" /\ UNCHANGED <<chain, active, attempts>>
        /\ run'[r].op = "planNext" /\ run'[r].with = "later" => IsChargedAgain(r, a)
        /\ run'[r].op = "tell" /\ run'[r].with = "replace" => Decided(r, a)
    BY <1>7 DEF GoesOn
  <2>2. CASE run'[r].op = "planNext" /\ run'[r].with = "later"
    <3>1. UNCHANGED <<status, method, reason>> /\ run[r].op = "followUp" /\ IsChargedAgain(r, a)
      BY <2>1, <2>2 DEF attempts
    <3>2. /\ status[a] = "SUCCEEDED" \/ reason[a] = "can-pass"
          /\ \A b \in Of(a[1]) : b[2] < a[2] /\ status[b] = "FAILED" => method[b] # method[a]
      <4>1. a[2] \in Nat
        BY Counting
      <4> QED BY <1>1, <2>1, <3>1, <4>1 DEF IsChargedAgain
    <3> QED BY <2>2, <3>1, <3>2
  <2>3. CASE run'[r].op = "tell" /\ run'[r].with = "replace"
    <3>1. run[r].op = "followUp" /\ Decided(r, a)
      BY <2>1, <2>3
    <3>2. active \notin ReversedOn(Of(a[1]))
      BY <1>0 DEF Replacing, NoneReversed, ReversedOn, Of
    <3>3. ~IsChargedAgain(r, a) /\ Later(a) = {}
      BY <2>3, <3>1, <3>2 DEF Decided
    <3>4. DoneWith(a)
      BY <1>1, <2>1, <3>1, <3>3 DEF IsChargedAgain, DoneWith, Final
    <3> QED BY <1>1, <1>3, <2>1, <2>3, <3>1, <3>4
  <2> QED BY <2>1, <2>2, <2>3
<1>8. CASE run'[r].op \in {"idle", "send"}
  BY <1>8
<1> QED
  BY <1>5, <1>6, <1>7, <1>8, RunsStep DEF Follows

LEMMA ReplaceIsFinalStep ==
    ASSUME TypeInv, Telling, Replacing, [Next]_vars
    PROVE  ReplaceIsFinal'
<1> SUFFICES ASSUME reversals' = 0, NEW a \in Attempts, failedNext'[a] = "replace"
             PROVE  status'[a] \in SETTLED /\ DoneWith(a)'
  BY DEF ReplaceIsFinal
<1>1. reversals = 0
  BY BeforeReversal DEF Replacing
<1>2. status[a] \in SETTLED /\ DoneWith(a)
  BY <1>1, ToldStep DEF Replacing, ReplaceIsFinal, RunsRetry, Telling, RunsFollowUp
<1> QED
  BY <1>2, SentStays, DoneWithStays DEF Replacing

LEMMA ReplacingStep ==
    ASSUME TypeInv, TypeInv', Telling, Announcing, Replacing, [Next]_vars
    PROVE  Replacing'
  BY MethodsAscendStep, RunsPlanStep, NoneReversedStep, ReplaceIsFinalStep, RunsRetryStep
     DEF Replacing, Announcing

LEMMA ReplacingInit == Init => Replacing
  BY DEF Init, Replacing, MethodsAscend, RunsPlan, NoneReversed, ReplaceIsFinal, RunsRetry, Idle

\* Until a payment is reversed, a subscriber who was told that nothing is collected
\* until the payment method is replaced is not charged with it again for the
\* invoice: for any number of instances that decide from what they read before,
\* stop in between, and whatever the gateway reports, late and in any order.
THEOREM ToldReplaceIsReplacedAlways == Spec => [](reversals = 0 => ToldReplaceIsReplaced)
<1>1. Init => Sending /\ Telling /\ Announcing /\ Replacing
  BY SendingInit, TellingInit, AnnouncingInit, ReplacingInit
<1>2. TypeInv /\ Sending /\ Telling /\ Announcing /\ Replacing /\ [Next]_vars =>
        TypeInv' /\ Sending' /\ Telling' /\ Announcing' /\ Replacing'
  BY TypeStep, SendingStep, TellingStep, AnnouncingStep, ReplacingStep
<1>3. Replacing => (reversals = 0 => ToldReplaceIsReplaced)
  BY DEF Replacing, ReplaceIsFinal, DoneWith, ToldReplaceIsReplaced
<1> QED
  BY <1>1, <1>2, <1>3, TypeInit, PTL DEF Spec

-----------------------------------------------------------------------------
(* Invoices that owe are not forgotten *)

\* Of the attempts of an invoice, one is the last.
HasLast ==
    \A i \in Invoices : Written(i) # {} => \E a \in Written(i) : Later(a) = {}

\* What a failure's notice says follows is there: an attempt after it, where the
\* invoice is collected again.
AgainIsPlanned ==
    \A a \in Attempts :
        /\ failedNotice[a] # "none" => failedNext[a] # "none"
        /\ failedNext[a] = "again" => Later(a) # {}

RunsTellPlanned ==
    \A r \in Runs : \A a \in Attempts :
        run[r].op = "tell" /\ run[r].with = "again" /\ run[r].a = a => Later(a) # {}

\* Before a reversal, an invoice that owes names a payment method, a payment of it
\* settles it, and what is withdrawn of it was planned with another payment method
\* than the one in use.
OwingIsOpen ==
    reversals = 0 =>
        /\ owing => named[issued] # 0
        /\ short = {}
        /\ \A a \in payments : ~Owes(a[1])
        /\ \A a \in Attempts :
            /\ status[a] = "WITHDRAWN" /\ Owes(a[1]) => method[a] # active
            /\ \A r \in Runs : run[r].op = "withdraw" /\ run[r].a = a /\ Owes(a[1]) => method[a] # active

Keeping == HasLast /\ AgainIsPlanned /\ RunsTellPlanned /\ OwingIsOpen

\* What is later than an attempt stays later.
LEMMA LaterStays ==
    ASSUME TypeInv, [Next]_vars, NEW a \in Attempts, Later(a) # {}
    PROVE  Later(a)' # {}
  BY WrittenStays DEF Later, Written, Of

LEMMA HasLastStep ==
    ASSUME TypeInv, MethodsAscend, RunsPlan, HasLast, [Next]_vars
    PROVE  HasLast'
<1> SUFFICES ASSUME NEW i \in Invoices, NEW b \in Attempts, b[1] = i, status'[b] # "none"
             PROVE  \E a \in Attempts : /\ a[1] = i /\ status'[a] # "none"
                                        /\ \A d \in Attempts : d[1] = i /\ status'[d] # "none" => ~(d[2] > a[2])
  BY DEF HasLast, Later, Written, Of
<1>1. ASSUME NEW c \in Attempts, c[1] = i, status[c] = "none", status'[c] # "none"
      PROVE  \A d \in Attempts : d[1] = i /\ status'[d] # "none" => ~(d[2] > c[2])
  <2> SUFFICES ASSUME NEW d \in Attempts, d[1] = i, status'[d] # "none", d[2] > c[2] PROVE FALSE
    OBVIOUS
  <2>1. Opens(c)
    BY <1>1, Lifecycle DEF Lives, UNSETTLED
  <2>2. c[2] \in Nat /\ d[2] \in Nat
    BY Counting
  <2>3. status[d] # "none"
    BY <2>1, <2>2 DEF Opens
  <2>4. \E e \in Attempts : c[2] = e[2] + 1 /\ d[2] <= e[2]
    BY <1>1, <2>1, <2>3, OpensAfter
  <2> QED BY <2>2, <2>4, Counting
<1>2. CASE \A c \in Attempts : c[1] = i /\ status[c] = "none" => status'[c] = "none"
  <2>1. PICK a \in Written(i) : Later(a) = {}
    BY <1>2 DEF HasLast, Written, Of
  <2>2. a \in Attempts /\ a[1] = i /\ status'[a] # "none"
    BY <2>1, WrittenStays DEF Written, Of
  <2>3. \A d \in Attempts : d[1] = i /\ status'[d] # "none" => ~(d[2] > a[2])
    BY <1>2, <2>1, <2>2 DEF Later, Written, Of
  <2> QED BY <2>2, <2>3
<1> QED
  BY <1>1, <1>2

LEMMA RunsTellPlannedStep ==
    ASSUME TypeInv, RunsTellPlanned, [Next]_vars
    PROVE  RunsTellPlanned'
<1> SUFFICES ASSUME NEW r \in Runs, NEW a \in Attempts,
                    run'[r].op = "tell", run'[r].with = "again", run'[r].a = a
             PROVE  Later(a)' # {}
  BY DEF RunsTellPlanned
<1>1. CASE run'[r] = run[r]
  BY <1>1, LaterStays DEF RunsTellPlanned
<1>2. ASSUME GoesOn(r), Decided(r, run[r].a) PROVE Later(a)' # {}
  BY <1>2, LaterStays DEF GoesOn, Decided
<1>3. ASSUME NEW b \in Attempts, b[1] = a[1], b[2] = a[2] + 1, status'[b] # "none"
      PROVE  Later(a)' # {}
  <2>1. b[2] > a[2]
    BY <1>3, Counting
  <2> QED BY <1>3, <2>1 DEF Later, Written, Of
<1>4. CASE GoesOn(r)
  BY <1>2, <1>3, <1>4 DEF GoesOn
<1>5. CASE Begins(r)
  BY <1>5 DEF Begins
<1> QED
  BY <1>1, <1>4, <1>5, RunsStep DEF Follows

LEMMA AgainIsPlannedStep ==
    ASSUME TypeInv, RunsTellPlanned, AgainIsPlanned, [Next]_vars
    PROVE  AgainIsPlanned'
<1> SUFFICES ASSUME NEW a \in Attempts
             PROVE  /\ failedNotice'[a] # "none" => failedNext'[a] # "none"
                    /\ failedNext'[a] = "again" => Later(a)' # {}
  BY DEF AgainIsPlanned
<1>1. CASE failedNext'[a] = failedNext[a] /\ (failedNotice'[a] # "none" => failedNotice[a] # "none")
  BY <1>1, LaterStays DEF AgainIsPlanned
<1>2. ASSUME NEW r \in Runs, run[r].op = "tell", run[r].a = a, failedNext'[a] = run[r].with
      PROVE  failedNext'[a] # "none" /\ (failedNext'[a] = "again" => Later(a)' # {})
  <2>1. run[r].with \in {"again", "replace"}
    BY <1>2 DEF TypeInv, JobsOK, Carries
  <2> QED BY <1>2, <2>1, LaterStays DEF RunsTellPlanned
<1> QED
  BY <1>1, <1>2, ToldStep

\* Before a reversal, what an invoice owes nothing of stays so.
LEMMA OwesNothingMore ==
    ASSUME TypeInv, Telling, NoneReversed, [Next]_vars, reversals' = 0,
           NEW a \in Attempts, status[a] # "none", ~Owes(a[1])
    PROVE  ~Owes(a[1])'
  BY OwingStep, NoneReversedStep DEF NoneReversed

\* A payment of the invoice that stands settles it.
LEMMA OutcomePays ==
    ASSUME TypeInv, reversals = 0, OwingIsOpen,
           NEW a \in Attempts, NEW outcome \in Outcomes, RecordOutcome(a, outcome)
    PROVE  /\ payments' \subseteq payments \union {a}
           /\ outcome = "succeeded" => ~Owes(a[1])'
           /\ a \in payments' \ payments => ~Owes(a[1])'
<1>1. UNCHANGED <<issued, cancelled>> /\ payments' \subseteq payments \union {a}
  BY DEF RecordOutcome, RecordPayment
<1>2. CASE a \in payments /\ UNCHANGED <<payments, owing>>
  BY <1>1, <1>2 DEF OwingIsOpen, Owes, Standing
<1>3. CASE outcome = "succeeded" /\ owing' \in StillOwingAfter(a)
  <2>1. short = {}
    BY DEF OwingIsOpen
  <2>2. ~owing \/ a[1] = Standing => ~owing'
    BY <1>3, <2>1 DEF StillOwingAfter
  <2>3. ~Owes(a[1])'
    BY <1>1, <2>2 DEF Owes, Standing
  <2> QED BY <1>1, <2>3
<1>4. CASE outcome # "succeeded" /\ UNCHANGED <<payments, owing>>
  BY <1>4
<1> QED
  BY <1>2, <1>3, <1>4 DEF RecordOutcome, RecordPayment


\* Payments are recorded, and attempts withdrawn, by few steps.
LEMMA WithdrawnStep ==
    ASSUME TypeInv, [Next]_vars
    PROVE  \/ UNCHANGED payments /\ \A a \in Attempts : status'[a] = "WITHDRAWN" => status[a] = "WITHDRAWN"
           \/ \E b \in Attempts, outcome \in Outcomes : RecordOutcome(b, outcome)
           \/ \E r \in Runs : Withdraw(r)
           \/ Replace \/ CancelAll
<1> USE DEF attempts, money
<1> DEFINE Neither ==
        UNCHANGED payments /\ \A a \in Attempts : status'[a] = "WITHDRAWN" => status[a] = "WITHDRAWN"
<1>0. /\ status \in [Attempts -> Statuses]
      /\ \A r \in Runs : Carries(run[r])
  BY DEF TypeInv, TypeOK, StoreOK, JobsOK
<1>1. UNCHANGED <<payments, status>> => Neither
  OBVIOUS
<1>2. ASSUME NEW r \in Runs, Record(r)
      PROVE  \E b \in Attempts, outcome \in Outcomes : RecordOutcome(b, outcome)
  BY <1>0, <1>2 DEF Record, Carries
<1>3. ASSUME NEW r \in Runs,
              StartAttempt(r) \/ PlanWith(r) \/ AbandonPaid(r) \/ Resend(r) \/ SubmitPlanned(r)
      PROVE  Neither
  <2>1. /\ UNCHANGED payments
        /\ \/ UNCHANGED status
           \/ \E a, new : new # "WITHDRAWN" /\ status' = [status EXCEPT ![a] = new]
    BY <1>3 DEF StartAttempt, PlanWith, AbandonPaid, Resend, SubmitPlanned
  <2> QED BY <1>0, <2>1
<1>4. ASSUME NEW a \in Attempts, ReversalReported(a) PROVE Neither
  <2>1. UNCHANGED payments /\ (UNCHANGED status \/ \E marked : MarkReversed(marked))
    BY <1>4 DEF ReversalReported
  <2> QED BY <1>0, <2>1 DEF MarkReversed
<1>5. ASSUME NEW r \in Runs, TakesOn(r) \/ Abandon(r) PROVE Neither
  BY <1>1, <1>5 DEF TakesOn, Abandon, CollectOne, PlanAgain, SettleOne, FollowUp, TakeUp, Deliver
<1>6. ASSUME NEW r \in Runs,
              \/ Send(r) \/ Unanswered(r) \/ Answered(r) \/ Ask(r) \/ AttemptAfter(r) \/ TellFailure(r)
              \/ Mark(r) \/ FollowUpReversal(r) \/ Announce(r) \/ RecordAnnounced(r)
      PROVE  Neither
  BY <1>1, <1>6 DEF Send, Unanswered, Answered, Ask, AttemptAfter, TellFailure, Mark, FollowUpReversal,
               Announce, RecordAnnounced
<1>7. ASSUME NEW a \in Attempts,
              \/ GatewayTakes(a) \/ GatewayMisses(a) \/ GatewaySettles(a)
              \/ ReinstatementReported(a) \/ DayComes(a)
      PROVE  Neither
  BY <1>1, <1>7 DEF GatewayTakes, GatewayMisses, GatewaySettles, ReinstatementReported, DayComes
<1>8. ReplaceMethod \/ UNCHANGED vars => Neither
  BY <1>1 DEF ReplaceMethod, vars
<1> HIDE DEF Neither
<1>9. \/ Neither
      \/ \E b \in Attempts, outcome \in Outcomes : RecordOutcome(b, outcome)
      \/ \E r \in Runs : Withdraw(r)
      \/ Replace \/ CancelAll
  BY <1>2, <1>3, <1>4, <1>5, <1>6, <1>7, <1>8 DEF Next, Proceeds, Gateway, Outside, CollectionReported
<1> QED
  BY <1>9 DEF Neither

\* Before a reversal, what is paid or withdrawn newly owes nothing, or was found
\* to be planned with another payment method than the one in use.
LEMMA PaidOrWithdrawn ==
    ASSUME TypeInv, PlannedStands, OwingIsOpen, [Next]_vars, reversals = 0, NEW a \in Attempts
    PROVE  /\ a \in payments' => a \in payments \/ ~Owes(a[1])'
           /\ status'[a] = "WITHDRAWN" =>
                \/ status[a] = "WITHDRAWN"
                \/ ~Owes(a[1])'
                \/ UNCHANGED <<chain, active>> /\ \E r \in Runs : run[r].op = "withdraw" /\ run[r].a = a
<1>0. /\ status \in [Attempts -> Statuses]
      /\ issued \in Nat \ {0}
      /\ status[a] = "SCHEDULED" => a[1] = issued
  BY Chain DEF TypeInv, TypeOK, StoreOK, PlannedStands
<1>1. status'[a] = "WITHDRAWN" => status[a] \in {"WITHDRAWN", "SCHEDULED"}
  BY Lifecycle DEF Lives, UNSETTLED
<1>2. ASSUME NEW b \in Attempts, NEW outcome \in Outcomes, RecordOutcome(b, outcome)
      PROVE  /\ a \in payments' => a \in payments \/ ~Owes(a[1])'
             /\ status'[a] = "WITHDRAWN" => status[a] = "WITHDRAWN" \/ ~Owes(a[1])'
  <2>1. a \in payments' => a \in payments \/ ~Owes(a[1])'
    BY <1>2, OutcomePays
  <2>2. ASSUME status'[a] = "WITHDRAWN", status[a] = "SCHEDULED"
        PROVE  outcome = "succeeded" /\ a[1] = b[1]
    <3>1. CASE Settle(b, outcome)
      BY <1>0, <2>2, <3>1 DEF Settle, Outcomes
    <3>2. CASE outcome = "succeeded" /\ ArrivedAfterAll(b)
      BY <1>0, <2>2, <3>2 DEF ArrivedAfterAll
    <3>3. CASE UNCHANGED status
      BY <2>2, <3>3
    <3> QED BY <1>2, <3>1, <3>2, <3>3 DEF RecordOutcome
  <2>3. outcome = "succeeded" => ~Owes(b[1])'
    BY <1>2, OutcomePays
  <2> QED BY <1>1, <2>1, <2>2, <2>3
<1>3. ASSUME NEW r \in Runs, Withdraw(r)
      PROVE  /\ UNCHANGED <<payments, chain, active>>
             /\ status'[a] = "WITHDRAWN" => status[a] = "WITHDRAWN" \/ (run[r].op = "withdraw" /\ run[r].a = a)
  <2>1. /\ UNCHANGED <<payments, chain, active>> /\ run[r].op = "withdraw"
        /\ UNCHANGED status \/ status' = [status EXCEPT ![run[r].a] = "WITHDRAWN"]
    BY <1>3 DEF Withdraw, money
  <2> QED BY <1>0, <2>1
<1>4. CASE Replace
  <2>1. issued' = issued + 1 /\ UNCHANGED <<payments, cancelled>>
    BY <1>4 DEF Replace, money
  <2>2. status[a] = "SCHEDULED" => ~Owes(a[1])'
    BY <1>0, <2>1 DEF Owes, Standing
  <2> QED BY <1>1, <2>1, <2>2
<1>5. CASE CancelAll
  BY <1>1, <1>5 DEF CancelAll, money, Owes
<1> QED
  BY <1>2, <1>3, <1>4, <1>5, WithdrawnStep

\* A payment may leave something owed only where a reversal was before.
LEMMA ShortStep ==
    ASSUME [Next]_vars
    PROVE  UNCHANGED short \/ \E a \in Attempts : ReversalReported(a)
<1> USE DEF money
<1>1. ASSUME NEW r \in Runs, TakesOn(r) \/ Proceeds(r) \/ Abandon(r) PROVE UNCHANGED short
  BY <1>1 DEF TakesOn, Proceeds, Abandon, CollectOne, PlanAgain, SettleOne, FollowUp, TakeUp,
         Deliver, StartAttempt, PlanWith, Send, Unanswered, Answered, Record, RecordOutcome, Ask, AbandonPaid,
         Resend, AttemptAfter, TellFailure, Mark, FollowUpReversal, Withdraw, Announce, RecordAnnounced,
         SubmitPlanned
<1>2. ASSUME NEW b \in Attempts,
              \/ GatewayTakes(b) \/ GatewayMisses(b) \/ GatewaySettles(b) \/ DayComes(b)
              \/ ReinstatementReported(b)
      PROVE  UNCHANGED short
  BY <1>2 DEF GatewayTakes, GatewayMisses, GatewaySettles, DayComes, ReinstatementReported
<1>3. ASSUME NEW b \in Attempts, NEW outcome \in Outcomes, CollectionReported(b, outcome)
      PROVE  UNCHANGED short
  BY <1>3 DEF CollectionReported, RecordOutcome
<1>4. Replace \/ CancelAll \/ ReplaceMethod \/ UNCHANGED vars => UNCHANGED short
  BY DEF Replace, CancelAll, ReplaceMethod, vars
<1> QED
  BY <1>1, <1>2, <1>3, <1>4 DEF Next, Gateway, Outside

LEMMA OwingIsOpenStep ==
    ASSUME TypeInv, TypeInv', PlannedStands, Telling, Announcing, Replacing, Keeping, [Next]_vars
    PROVE  OwingIsOpen'
<1> SUFFICES ASSUME reversals' = 0
             PROVE  /\ owing' => named'[issued'] # 0
                    /\ short' = {}
                    /\ \A a \in payments' : ~Owes(a[1])'
                    /\ \A a \in Attempts :
                        /\ status'[a] = "WITHDRAWN" /\ Owes(a[1])' => method'[a] # active'
                        /\ \A r \in Runs :
                            run'[r].op = "withdraw" /\ run'[r].a = a /\ Owes(a[1])' => method'[a] # active'
  BY DEF OwingIsOpen
<1>0. /\ reversals = 0
      /\ named \in [Invoices -> Methods \union {0}]
      /\ payments' \subseteq Attempts
      /\ active \in Methods /\ active # 0
  BY BeforeReversal, Counting DEF Replacing, TypeInv, TypeOK, StoreOK
<1>1. ASSUME NEW a \in Attempts PROVE ~ReversalReported(a)
  <2>1. reversals' # reversals + 1
    BY <1>0
  <2> QED BY <2>1 DEF ReversalReported
<1>2. owing' => named'[issued'] # 0
  <2>1. CASE UNCHANGED <<issued, cancelled, named>> /\ (owing' => owing)
    BY <1>0, <2>1 DEF Keeping, OwingIsOpen
  <2>2. CASE Replace
    <3>1. /\ issued' = issued + 1 /\ issued + 1 \in Invoices
          /\ named' = [named EXCEPT ![issued + 1] = IF owing' THEN active ELSE 0]
      BY <2>2 DEF Replace
    <3>2. named'[issued'] = IF owing' THEN active ELSE 0
      BY <1>0, <3>1
    <3> QED BY <1>0, <3>2
  <2>3. CASE CancelAll
    BY <2>3 DEF CancelAll
  <2> QED BY <1>1, <2>1, <2>2, <2>3, ChainStep
<1>3. short' = {}
  BY <1>0, <1>1, ShortStep DEF Keeping, OwingIsOpen
\* What an attempt is planned with stays behind the payment method in use.
<1>4. ASSUME NEW a \in Attempts, status[a] # "none", method[a] # active
      PROVE  method'[a] # active'
  <2>1. method[a] <= active /\ method'[a] = method[a] /\ (active' = active \/ active' = active + 1)
    BY <1>4, MethodsStep DEF Replacing, MethodsAscend
  <2>2. active \in Nat /\ method[a] \in Nat
    <3>1. method[a] \in Methods \union {0}
      BY DEF TypeInv, TypeOK, StoreOK
    <3> QED BY <1>0, <3>1, Counting
  <2> QED BY <1>4, <2>1, <2>2
<1>5. ASSUME NEW a \in Attempts, status[a] # "none", Owes(a[1])'
      PROVE  Owes(a[1])
  BY <1>5, OwesNothingMore DEF Replacing
<1>6. ASSUME NEW a \in payments' PROVE ~Owes(a[1])'
  <2>1. a \in Attempts /\ (a \in payments => status[a] # "none" /\ ~Owes(a[1]))
    BY <1>0 DEF Keeping, OwingIsOpen, Telling, PaidIsSettled, SETTLED
  <2> QED BY <1>0, <1>5, <2>1, PaidOrWithdrawn DEF Keeping
<1>7. ASSUME NEW a \in Attempts, status'[a] = "WITHDRAWN", Owes(a[1])' PROVE method'[a] # active'
  <2>1. status[a] # "none"
    BY <1>7, Lifecycle DEF Lives, UNSETTLED
  <2>2. Owes(a[1])
    BY <1>5, <1>7, <2>1
  <2>3. method[a] # active
    BY <1>0, <1>7, <2>2, PaidOrWithdrawn DEF Keeping, OwingIsOpen
  <2> QED BY <1>4, <2>1, <2>3
<1>8. ASSUME NEW a \in Attempts, NEW r \in Runs, run'[r].op = "withdraw", run'[r].a = a, Owes(a[1])'
      PROVE  method'[a] # active'
  <2>1. run'[r] = run[r] \/ Begins(r)
    BY <1>8, RunsStep DEF Follows, GoesOn
  <2>2. status[a] # "none"
    BY <1>8, <2>1 DEF Begins, Telling, RunsFollowUp
  <2>3. Owes(a[1])
    BY <1>5, <1>8, <2>2
  <2>4. method[a] # active
    BY <1>0, <1>8, <2>1, <2>3 DEF Begins, Keeping, OwingIsOpen
  <2> QED BY <1>4, <2>2, <2>4
<1> QED
  BY <1>2, <1>3, <1>6, <1>7, <1>8

LEMMA BookedInit == Init => Booked
  BY DEF Init, Booked, RecordsAsCollected, BookedAsCollected, Idle

LEMMA KeepingStep ==
    ASSUME TypeInv, TypeInv', PlannedStands, Telling, Announcing, Replacing, Keeping, [Next]_vars
    PROVE  Keeping'
  BY HasLastStep, AgainIsPlannedStep, RunsTellPlannedStep, OwingIsOpenStep DEF Keeping, Replacing

LEMMA KeepingInit == Init => Keeping
<1> SUFFICES ASSUME Init PROVE Keeping
  OBVIOUS
<1>1. HasLast /\ AgainIsPlanned /\ RunsTellPlanned
  BY DEF Init, HasLast, AgainIsPlanned, RunsTellPlanned, Written, Of, Idle
<1>2. OwingIsOpen
  <2>1. 1 \in Invoices
    BY CollectionAssumption DEF CollectionAssumption, Counted
  <2> QED BY <2>1 DEF Init, OwingIsOpen, Idle
<1> QED
  BY <1>1, <1>2 DEF Keeping

\* What each part contributes: where the last attempt of an invoice that owes came
\* to an end, a list returns the invoice or a replacement was asked for.
LEMMA Kept ==
    ASSUME TypeInv, Booked, Telling, Replacing, Keeping, reversals = 0
    PROVE  NeverForgotten
<1> SUFFICES ASSUME Standing # 0, owing, ~TakenCareOf PROVE AwaitsReplacement
  BY DEF NeverForgotten
<1> DEFINE i == Standing
<1>0. /\ i \in Invoices /\ i = issued /\ Owes(i)
      /\ status \in [Attempts -> Statuses]
      /\ failedNext \in [Attempts -> {"none", "again", "replace"}]
      /\ \A a \in Attempts : status[a] # "REVERSED"
  BY DEF TypeInv, TypeOK, StoreOK, Standing, Owes, Replacing, NoneReversed
<1>1. ~Due(i) /\ ~CollectableAgain(i) /\ \A a \in Attempts : status[a] \notin OPEN /\ ~ToFollowUp(a)
  BY DEF TakenCareOf
<1>2. Written(i) # {}
  <2>1. named[i] # 0
    BY <1>0 DEF Keeping, OwingIsOpen
  <2> QED BY <1>1, <2>1 DEF Due, OPEN
<1>3. PICK a \in Written(i) : Later(a) = {}
  BY <1>0, <1>2 DEF Keeping, HasLast
<1>4. a \in Attempts /\ a[1] = i /\ status[a] # "none" /\ Owes(a[1])
  BY <1>0 DEF Written, Of
<1>5. status[a] = "WITHDRAWN" \/ (status[a] = "FAILED" /\ followedUp[a] # Never)
  <2>1. status[a] # "SUCCEEDED"
    BY <1>4 DEF Booked, BookedAsCollected, Keeping, OwingIsOpen
  <2>2. status[a] \in {"WITHDRAWN", "FAILED"}
    BY <1>0, <1>1, <1>4, <2>1 DEF Statuses, BLOCKING
  <2> QED BY <1>1, <1>4, <2>2 DEF ToFollowUp, FOLLOWED_UP
<1>6. method[a] = active
  BY <1>0, <1>1, <1>3, <1>5 DEF CollectableAgain, FOLLOWED_UP
<1>7. status[a] = "FAILED" /\ followedUp[a] # Never
  BY <1>4, <1>5, <1>6 DEF Keeping, OwingIsOpen
<1>8. failedNotice[a] # "none"
  BY <1>0, <1>4, <1>7 DEF Telling, FollowedIsExcused, Excused
<1>9. failedNext[a] = "replace"
  BY <1>0, <1>3, <1>4, <1>8 DEF Keeping, AgainIsPlanned
<1> QED
  BY <1>4, <1>6, <1>9 DEF AwaitsReplacement

\* Until a payment is reversed, an invoice that owes, with no run at work on it, is
\* returned by a list of a later run or waits for a payment method the subscriber
\* was told to replace: for any number of instances, attempts and payment methods,
\* and whatever stops, is lost or comes late.
THEOREM NeverForgottenAlways == Spec => [](reversals = 0 => NeverForgotten)
<1>1. Init => OneOpen /\ Booked /\ Sending /\ Telling /\ Announcing /\ Replacing /\ Keeping
  BY OneOpenInit, BookedInit, SendingInit, TellingInit, AnnouncingInit, ReplacingInit, KeepingInit
<1>2. /\ TypeInv /\ OneOpen /\ Booked /\ Sending /\ Telling /\ Announcing /\ Replacing /\ Keeping
      /\ [Next]_vars
      => TypeInv' /\ OneOpen' /\ Booked' /\ Sending' /\ Telling' /\ Announcing' /\ Replacing' /\ Keeping'
  BY TypeStep, OneOpenStep, BookedStep, SendingStep, TellingStep, AnnouncingStep, ReplacingStep, KeepingStep
     DEF OneOpen
<1>3. TypeInv /\ Booked /\ Telling /\ Replacing /\ Keeping => (reversals = 0 => NeverForgotten)
  BY Kept
<1> QED
  BY <1>1, <1>2, <1>3, TypeInit, PTL DEF Spec
=============================================================================
