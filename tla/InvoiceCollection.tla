------------------------- MODULE InvoiceCollection -------------------------
(***************************************************************************)
(* Collecting the invoices of one chain: an invoice, the replacement its    *)
(* cancellation issued, and so on.  Every instance of the server runs       *)
(* `collectDue` every quarter of an hour; two instances run at once, an     *)
(* instance may stop anywhere, the gateway answers late or not at all, and  *)
(* reports what it knows by callbacks of its own.                           *)
(*                                                                          *)
(* One step of this module is one transaction, one call of the gateway or   *)
(* one read on which a handler decides: whatever lies between two awaits of *)
(* the code lies between two steps here.  Chains share nothing but the      *)
(* payment method in use, so one chain is modelled.                         *)
(*                                                                          *)
(* Amounts are left to the ledger: what is kept of them here is whether the *)
(* invoice that stands still owes something (`owing`).                      *)
(***************************************************************************)
EXTENDS Integers, FiniteSets

CONSTANTS
    Runs,           \* the instances of the server that run `collectDue`
    Invoices,       \* the invoices of the chain, in the order issued: 1 .. n
    Numbers,        \* the attempt numbers of an invoice: 1 .. n
    Methods,        \* the subscriber's payment methods, in the order confirmed: 1 .. n
    DirectDebits,   \* those of them that are direct debits, announced before they are collected
    MaxReversals,   \* bound on the reversals the gateway reports
    Environment     \* bound on what else happens around the runs

\* Counted from one, without a gap.
Counted(S) == 1 \in S /\ \A n \in S : n \in Nat \ {0} /\ (n = 1 \/ n - 1 \in S)

ASSUME CollectionAssumption ==
    /\ Counted(Invoices)
    /\ Counted(Numbers)
    /\ Counted(Methods)
    /\ DirectDebits \subseteq Methods
    /\ MaxReversals \in Nat
    /\ Environment \subseteq {"stops", "reports", "arrives late", "gives back",
                               "replaces invoice", "cancels", "replaces method", "loses"}

VARIABLES
    \* the chain
    issued,         \* how many invoices of the chain are issued; each replaces the one before
    cancelled,      \* whether the last of them is cancelled without a replacement
    named,          \* the payment method each invoice announced
    owing,          \* whether the invoice that stands still owes something
    active,         \* the payment method in use
    \* subscription_invoice_collections, one row per attempt
    status, method, reason, announced, due,
    followedUp,     \* when a failure or reversal was followed up: the reversals recorded by then
    reversedAt,     \* which reversal opened the attempt's invoice again
    reversals,      \* how many reversals are recorded
    \* subscription_notices, by attempt
    failedNotice, reversedNotice, announcedNotice,
    failedNext, reversedNext,   \* what the notice says follows
    \* subscriber_payments
    payments,
    withdrawn,      \* those of which a reversal has something that was not given back
    partly,         \* those of these of which something still counts
    short,          \* attempts asking for less than a reversal since left owed
    \* the gateway
    flight,         \* requests on their way to the gateway; one may never arrive
    charge,         \* what the gateway holds under the attempt's key
    \* the instances
    run

chain    == <<issued, cancelled, named, owing>>
attempts == <<status, method, reason, announced, due, followedUp, reversedAt>>
notices  == <<failedNotice, reversedNotice, announcedNotice, failedNext, reversedNext>>
money    == <<payments, withdrawn, partly, short, reversals>>
gateway  == <<flight, charge>>

vars == <<chain, active, attempts, notices, money, gateway, run>>

-----------------------------------------------------------------------------
(* The statuses of an attempt, and the sets the code decides by. *)

UNSETTLED   == {"SUBMITTED", "PENDING"}
OPEN        == {"SCHEDULED"} \union UNSETTLED
BLOCKING    == OPEN \union {"SUCCEEDED"}
FOLLOWED_UP == {"FAILED", "REVERSED"}
REVERSIBLE  == {"SUCCEEDED", "FAILED"}
Statuses    == BLOCKING \union {"none", "FAILED", "WITHDRAWN", "REVERSED"}

\* A failure's reason, as far as what follows tells reasons apart.
Reasons == {"none", "can-pass", "final", "not-sent"}

Never == -1     \* a `followedUp` that is null

Attempts == Invoices \X Numbers
NoAttempt == <<0, 0>>

\* The gateway's charge under a key; one it refused may still succeed later.
Charges  == {"none", "pending", "failed", "succeeded", "succeeded-late"}
Outcomes == {"pending", "failed", "succeeded"}

\* Mutant: a late success under a name of its own, which no answer has.
OutcomeAsStored(c) == c

Outcome(c) == IF c = "succeeded-late" THEN "succeeded" ELSE c
Collected(c) == c \in {"succeeded", "succeeded-late"}

Idle == [op |-> "idle", a |-> NoAttempt, m |-> 0, with |-> "none"]
Ops  == {"idle", "start", "plan", "planNext", "send", "wait", "record", "ask", "decide",
         "resend", "followUp", "tell", "mark", "reversal", "withdraw", "announce",
         "recordAnnounced", "submit"}
Jobs == [op : Ops, a : (Invoices \union {0}) \X (Numbers \union {0}),
         m : Methods \union {0}, with : Outcomes \union {"none", "again", "replace", "later"}]

StoreOK ==
    /\ issued \in Invoices
    /\ cancelled \in BOOLEAN
    /\ named \in [Invoices -> Methods \union {0}]
    /\ owing \in BOOLEAN
    /\ active \in Methods
    /\ status \in [Attempts -> Statuses]
    /\ method \in [Attempts -> Methods \union {0}]
    /\ reason \in [Attempts -> Reasons]
    /\ announced \in [Attempts -> BOOLEAN]
    /\ due \in [Attempts -> BOOLEAN]
    /\ followedUp \in [Attempts -> Nat \union {Never}]
    /\ reversedAt \in [Attempts -> Nat]
    /\ reversals \in Nat
    /\ failedNotice \in [Attempts -> {"none", "recorded", "delivered"}]
    /\ reversedNotice \in [Attempts -> {"none", "recorded", "delivered"}]
    /\ announcedNotice \in [Attempts -> {"none", "delivered"}]
    /\ failedNext \in [Attempts -> {"none", "again", "replace"}]
    /\ reversedNext \in [Attempts -> {"none", "again", "replace"}]
    /\ payments \in SUBSET Attempts
    /\ withdrawn \in SUBSET Attempts
    /\ partly \in SUBSET Attempts
    /\ short \in SUBSET Attempts
    /\ flight \in SUBSET Attempts
    /\ charge \in [Attempts -> Charges]

\* What the tables, the gateway and the instances hold: statuses, keys of
\* attempts of the chain, and for an instance the item it is at.
TypeOK == StoreOK /\ run \in [Runs -> Jobs]

-----------------------------------------------------------------------------
(* What a transaction reads in the chain's turn. *)

Of(i) == {a \in Attempts : a[1] = i}
Written(i) == {a \in Of(i) : status[a] # "none"}
Later(a) == {b \in Written(a[1]) : b[2] > a[2]}

\* standingInvoiceIdOf: the last replacement, or none where it is cancelled.
Standing == IF cancelled THEN 0 ELSE issued

\* Mutant: an invoice owes whether it is replaced or not.
OwesReplaced(i) == owing

\* A cancelled invoice owes nothing; the one that stands, what is not settled.
Owes(i) == i = Standing /\ owing

IsLast(i, k) ==
    IF k = 0 THEN Written(i) = {}
    ELSE <<i, k>> \in Written(i) /\ Later(<<i, k>>) = {}

ReversedOn(as) == {method[a] : a \in {b \in as : status[b] = "REVERSED"}}

HeldBackByItsChain(i, m) ==
    \E b \in Attempts \ Of(i) :
        \/ status[b] \in UNSETTLED
        \/ status[b] = "REVERSED" /\ method[b] = m

\* Mutant: only one that is out refuses the first.
RefusesWhileOut(i) == \E a \in Of(i) : status[a] \in UNSETTLED

RefusesFirstAttempt(i) == Written(i) # {}

RefusesPlannedAttempt(i, after) ==
    \/ \E a \in Of(i) : status[a] \in BLOCKING
    \/ ~IsLast(i, after)

\* An attempt the next number of which the bound still has.
HasNext(i, k) == <<i, k + 1>> \in Attempts

Do(r, job) == run' = [run EXCEPT ![r] = job]
Stop(r)    == Do(r, Idle)
Task(op, a, m, with) == [op |-> op, a |-> a, m |-> m, with |-> with]
Job(op, a) == Task(op, a, 0, "none")

-----------------------------------------------------------------------------
(* What the run lists, in the order it goes through the lists. *)

Unsettled(a) == status[a] \in UNSETTLED

Due(i) ==
    /\ i = Standing
    /\ named[i] # 0
    /\ Written(i) = {}
    /\ \A a \in Attempts : status[a] \notin UNSETTLED

\* Mutant: with the payment method the last attempt was made with.
CollectableWithTheSame(i) ==
    /\ Owes(i)
    /\ \E a \in Written(i) :
        /\ Later(a) = {}
        /\ status[a] = "WITHDRAWN" \/ (status[a] \in FOLLOWED_UP /\ followedUp[a] # Never)
    /\ \A b \in Attempts :
        status[b] = "REVERSED" => followedUp[b] # Never /\ method[b] # active

\* Mutant: an attempt that was withdrawn is forgotten.
CollectableOnceFollowedUp(i) ==
    /\ Owes(i)
    /\ \E a \in Written(i) :
        /\ Later(a) = {}
        /\ status[a] \in FOLLOWED_UP /\ followedUp[a] # Never
        /\ method[a] # active
    /\ \A b \in Attempts :
        status[b] = "REVERSED" => followedUp[b] # Never /\ method[b] # active

CollectableAgain(i) ==
    /\ Owes(i)
    /\ \E a \in Written(i) :
        /\ Later(a) = {}
        /\ \/ status[a] = "WITHDRAWN"
           \/ status[a] \in FOLLOWED_UP /\ followedUp[a] # Never
        /\ method[a] # active
    /\ \A b \in Attempts :
        status[b] = "REVERSED" => followedUp[b] # Never /\ method[b] # active

ToFollowUp(a) == status[a] \in FOLLOWED_UP /\ followedUp[a] = Never

-----------------------------------------------------------------------------
Init ==
    /\ issued = 1 /\ cancelled = FALSE /\ owing = TRUE /\ active = 1
    /\ named = [i \in Invoices |-> IF i = 1 THEN 1 ELSE 0]
    /\ status = [a \in Attempts |-> "none"]
    /\ method = [a \in Attempts |-> 0]
    /\ reason = [a \in Attempts |-> "none"]
    /\ announced = [a \in Attempts |-> FALSE]
    /\ due = [a \in Attempts |-> FALSE]
    /\ followedUp = [a \in Attempts |-> Never]
    /\ reversedAt = [a \in Attempts |-> 0]
    /\ reversals = 0
    /\ failedNotice = [a \in Attempts |-> "none"]
    /\ reversedNotice = [a \in Attempts |-> "none"]
    /\ announcedNotice = [a \in Attempts |-> "none"]
    /\ failedNext = [a \in Attempts |-> "none"]
    /\ reversedNext = [a \in Attempts |-> "none"]
    /\ payments = {} /\ withdrawn = {} /\ partly = {} /\ short = {}
    /\ flight = {}
    /\ charge = [a \in Attempts |-> "none"]
    /\ run = [r \in Runs |-> Idle]

-----------------------------------------------------------------------------
(* collectOne: an invoice without an attempt. *)

\* Reads the invoice and the payment method in use, and decides whether it is
\* collected as announced or planned anew: with another payment method, or for
\* another day where a direct debit was announced too late.
CollectOne(r, i) ==
    /\ run[r] = Idle
    /\ Due(i)
    /\ \/ active = named[i] /\ Do(r, Task("start", <<i, 0>>, active, "none"))
       \/ /\ active # named[i] \/ active \in DirectDebits
          /\ Do(r, Task("plan", <<i, 0>>, active, "none"))
    /\ UNCHANGED <<chain, active, attempts, notices, money, gateway>>

\* startAttempt: in the chain's turn, the attempt is written before it is sent.
StartAttempt(r) ==
    LET i == run[r].a[1]  m == run[r].m  first == <<i, 1>> IN
    /\ run[r].op = "start"
    /\ IF Owes(i) /\ ~RefusesFirstAttempt(i) /\ ~HeldBackByItsChain(i, m)
       THEN /\ status' = [status EXCEPT ![first] = "SUBMITTED"]
            /\ method' = [method EXCEPT ![first] = m]
            /\ Do(r, Job("send", first))
       ELSE Stop(r) /\ UNCHANGED <<status, method>>
    /\ UNCHANGED <<chain, active, reason, announced, due, followedUp, reversedAt, notices, money, gateway>>

(* planWith: the next attempt, in the chain's turn, as the one after the last
   the run read.  One planned after a failure is what the failure's notice says. *)
PlanWith(r) ==
    LET i == run[r].a[1]  after == run[r].a[2]  m == run[r].m  next == <<i, after + 1>> IN
    /\ run[r].op \in {"plan", "planNext"}
    /\ IF Owes(i) /\ ~RefusesPlannedAttempt(i, after) /\ ~HeldBackByItsChain(i, m) /\ HasNext(i, after)
       THEN /\ status' = [status EXCEPT ![next] = "SCHEDULED"]
            /\ method' = [method EXCEPT ![next] = m]
            /\ due' = [due EXCEPT ![next] = run[r].with # "later"]
            /\ IF run[r].op = "planNext"
               THEN Do(r, Task("tell", run[r].a, 0, "again"))
               ELSE Stop(r)
       ELSE Stop(r) /\ UNCHANGED <<status, method, due>>
    /\ UNCHANGED <<chain, active, reason, announced, followedUp, reversedAt, notices, money, gateway>>

\* planAgain: with the payment method that replaced the last attempt's.  What
\* the handler reads again of the invoice is among what the list asks for.
PlanAgain(r, i) ==
    /\ run[r] = Idle
    /\ CollectableAgain(i)
    /\ \E a \in Written(i) :
        /\ Later(a) = {} /\ HasNext(i, a[2])
        /\ Do(r, Task("plan", a, active, "none"))
    /\ UNCHANGED <<chain, active, attempts, notices, money, gateway>>

-----------------------------------------------------------------------------
(* send: the request leaves, and its answer is recorded. *)

Send(r) ==
    /\ run[r].op = "send"
    /\ flight' = flight \union {run[r].a}
    /\ Do(r, Job("wait", run[r].a))
    /\ UNCHANGED <<chain, active, attempts, notices, money, charge>>

\* Mutant: no answer in time is a failure.
UnansweredFails(r) ==
    /\ run[r].op = "wait"
    /\ status' = [status EXCEPT ![run[r].a] = "FAILED"]
    /\ Stop(r)
    /\ UNCHANGED <<chain, active, method, reason, announced, due, followedUp, reversedAt, notices,
                   money, gateway>>

\* withTimeout: the run gives the answer up, and the request travels on.
Unanswered(r) ==
    /\ run[r].op = "wait"
    /\ Stop(r)
    /\ UNCHANGED <<chain, active, attempts, notices, money, gateway>>

Answered(r) ==
    /\ run[r].op = "wait"
    /\ charge[run[r].a] # "none"
    /\ Do(r, Task("record", run[r].a, 0, Outcome(charge[run[r].a])))
    /\ UNCHANGED <<chain, active, attempts, notices, money, gateway>>

(* What a payment leaves owed is the ledger's: an attempt asks what its invoice
   owed when it was written, so its payment leaves something only where the
   invoice that stands is another by then, or a reversal opened more of it since. *)
StillOwingAfter(a) ==
    IF ~owing \/ (a[1] = Standing /\ a \notin short) THEN {FALSE} ELSE BOOLEAN

\* Mutant: no payment is recorded for an invoice that owes nothing any more.
RecordPaymentOwed(a) ==
    IF a \in payments \/ ~owing THEN UNCHANGED <<payments, owing>>
    ELSE payments' = payments \union {a} /\ owing' \in StillOwingAfter(a)

RecordPayment(a) ==
    IF a \in payments THEN UNCHANGED <<payments, owing>>
    ELSE payments' = payments \union {a} /\ owing' \in StillOwingAfter(a)

\* The money of a failed attempt arrived after all: what was planned after the
\* failure is withdrawn, and the attempt succeeded unless another one is out.
ArrivedAfterAll(a) ==
    LET beside == \E b \in Of(a[1]) \ {a} : status[b] \in UNSETTLED \union {"SUCCEEDED"} IN
    /\ status' = [b \in Attempts |->
                    IF b = a THEN IF beside THEN "FAILED" ELSE "SUCCEEDED"
                    ELSE IF b[1] = a[1] /\ status[b] = "SCHEDULED" THEN "WITHDRAWN"
                    ELSE status[b]]
    /\ reason' = IF beside THEN reason ELSE [reason EXCEPT ![a] = "none"]

Settle(a, outcome) ==
    CASE outcome = "succeeded" -> /\ status' = [status EXCEPT ![a] = "SUCCEEDED"]
                                  /\ UNCHANGED reason
      [] outcome = "pending"   -> /\ status' = [status EXCEPT ![a] = "PENDING"]
                                  /\ UNCHANGED reason
      [] outcome = "failed"    -> /\ status' = [status EXCEPT ![a] = "FAILED"]
                                  /\ \E why \in {"can-pass", "final"} :
                                        reason' = [reason EXCEPT ![a] = why]

\* Mutant: the last report decides, not the first.
RecordLatest(a, outcome) ==
    /\ IF outcome = "succeeded" THEN RecordPayment(a) ELSE UNCHANGED <<payments, owing>>
    /\ Settle(a, outcome)
    /\ UNCHANGED <<issued, cancelled, named, active, method, announced, due, followedUp,
                   reversedAt, reversals, notices, withdrawn, partly, short>>

\* recordOutcome: the payment of a success and the attempt, in one transaction.
\* The first report settles the attempt; a payment is recorded all the same.
RecordOutcome(a, outcome) ==
    /\ IF outcome = "succeeded" THEN RecordPayment(a) ELSE UNCHANGED <<payments, owing>>
    /\ \/ status[a] \in UNSETTLED /\ Settle(a, outcome)
       \/ status[a] = "FAILED" /\ outcome = "succeeded" /\ ArrivedAfterAll(a)
       \/ /\ status[a] \notin UNSETTLED
          /\ ~(status[a] = "FAILED" /\ outcome = "succeeded")
          /\ UNCHANGED <<status, reason>>
    /\ UNCHANGED <<issued, cancelled, named, active, method, announced, due, followedUp,
                   reversedAt, reversals, notices, withdrawn, partly, short>>

Record(r) ==
    /\ run[r].op = "record"
    /\ RecordOutcome(run[r].a, run[r].with)
    /\ Stop(r)
    /\ UNCHANGED gateway

-----------------------------------------------------------------------------
(* settleOne: an attempt whose answer is not known. *)

\* Read and held.  The hold lasts a lease of fifteen minutes, and an instance may
\* be stopped longer than that: every hold may have run out by the next step, so
\* nothing below relies on one.
SettleOne(r, a) ==
    /\ run[r] = Idle
    /\ Unsettled(a)
    /\ Do(r, Task("ask", a, 0, IF status[a] = "PENDING" THEN "pending" ELSE "none"))
    /\ UNCHANGED <<chain, active, attempts, notices, money, gateway>>

\* Mutant: an attempt the gateway holds nothing of is left as it is.
AskOnly(r) ==
    LET a == run[r].a IN
    /\ run[r].op = "ask"
    /\ IF charge[a] # "none"
       THEN Do(r, Task("record", a, 0, Outcome(charge[a])))
       ELSE Stop(r)
    /\ UNCHANGED <<chain, active, attempts, notices, money, gateway>>

\* findCollection: an outcome, or nothing under the key.
Ask(r) ==
    LET a == run[r].a IN
    /\ run[r].op = "ask"
    /\ IF charge[a] # "none"
       THEN Do(r, Task("record", a, 0, Outcome(charge[a])))
       ELSE IF run[r].with = "none" THEN Do(r, Job("decide", a)) ELSE Stop(r)
    /\ UNCHANGED <<chain, active, attempts, notices, money, gateway>>

\* abandonPaid, in the chain's turn: settled by a report meanwhile, not sent
\* again since the invoice owes nothing, or to be sent again under its key.
AbandonPaid(r) ==
    LET a == run[r].a IN
    /\ run[r].op = "decide"
    /\ IF status[a] # "SUBMITTED"
       THEN Stop(r) /\ UNCHANGED <<status, reason>>
       ELSE IF Owes(a[1])
       THEN Do(r, Job("resend", a)) /\ UNCHANGED <<status, reason>>
       ELSE /\ status' = [status EXCEPT ![a] = "FAILED"]
            /\ reason' = [reason EXCEPT ![a] = "not-sent"]
            /\ Stop(r)
    /\ UNCHANGED <<chain, active, method, announced, due, followedUp, reversedAt, notices, money, gateway>>

\* Not sent with a payment method a payment of the invoice was reversed on.
Resend(r) ==
    LET a == run[r].a IN
    /\ run[r].op = "resend"
    /\ IF method[a] \in ReversedOn(Of(a[1]))
       THEN /\ IF status[a] \in UNSETTLED
               THEN /\ status' = [status EXCEPT ![a] = "FAILED"]
                    /\ reason' = [reason EXCEPT ![a] = "not-sent"]
               ELSE UNCHANGED <<status, reason>>
            /\ Stop(r)
       ELSE Do(r, Job("send", a)) /\ UNCHANGED <<status, reason>>
    /\ UNCHANGED <<chain, active, method, announced, due, followedUp, reversedAt, notices,
                   money, gateway>>

-----------------------------------------------------------------------------
(* followUp: what follows a failure or a reversal, decided once. *)

\* A failure's `reason` travels with the run: it decides with the row it read.
FollowUp(r, a) ==
    /\ run[r] = Idle
    /\ ToFollowUp(a)
    /\ IF status[a] = "REVERSED" THEN Do(r, Job("reversal", a))
       ELSE IF ~Owes(a[1]) \/ method[a] \in ReversedOn(Of(a[1])) THEN Do(r, Job("mark", a))
       ELSE Do(r, Task("followUp", a, 0, IF reason[a] = "can-pass" THEN "later" ELSE "none"))
    /\ UNCHANGED <<chain, active, attempts, notices, money, gateway>>

\* isChargedAgain: the reason can pass, and no other attempt of the invoice
\* failed with the payment method.
IsChargedAgain(r, a) ==
    /\ run[r].with = "later"
    /\ \A b \in Of(a[1]) \ {a} : status[b] = "FAILED" => method[b] # method[a]

\* attemptAfter: the first later attempt that stands, the one planned now, or
\* none until the payment method is replaced.
AttemptAfter(r) ==
    LET a        == run[r].a
        usable   == active \notin ReversedOn(Of(a[1]))
        standing == {b \in Later(a) : /\ status[b] # "WITHDRAWN"
                                      /\ \A c \in Later(a) : c[2] < b[2] => status[c] = "WITHDRAWN"}
        stands   == \E b \in standing :
                        status[b] # "SCHEDULED" \/ (usable /\ method[b] = active)
        Plan(when) == Do(r, Task("planNext", a, active, when))
        Tell(next) == Do(r, Task("tell", a, 0, next))
    IN
    /\ run[r].op = "followUp"
    /\ \/ stands /\ Tell("again")
       \/ ~stands /\ Later(a) # {} /\ IF usable THEN Stop(r) ELSE Tell("replace")
       \/ Later(a) = {} /\ usable /\ method[a] # active /\ Plan("none")
       \/ Later(a) = {} /\ usable /\ method[a] = active /\ IsChargedAgain(r, a) /\ Plan("later")
       \/ Later(a) = {} /\ (~usable \/ (method[a] = active /\ ~IsChargedAgain(r, a)))
            /\ Tell("replace")
    /\ UNCHANGED <<chain, active, attempts, notices, money, gateway>>

\* Mutant: the failure is marked before its notice is recorded.
MarkThenTell(r) ==
    LET a == run[r].a IN
    /\ run[r].op = "tell"
    /\ IF ToFollowUp(a)
       THEN /\ followedUp' = [followedUp EXCEPT ![a] = reversals]
            /\ UNCHANGED <<failedNotice, failedNext, run>>
       ELSE /\ failedNotice' = [failedNotice EXCEPT ![a] = "recorded"]
            /\ failedNext' = [failedNext EXCEPT ![a] = run[r].with]
            /\ Stop(r) /\ UNCHANGED followedUp
    /\ UNCHANGED <<chain, active, status, method, reason, announced, due, reversedAt,
                   reversedNotice, reversedNext, announcedNotice, money, gateway>>

\* The notice is recorded once, whatever a second run records of the failure.
TellFailure(r) ==
    LET a == run[r].a IN
    /\ run[r].op = "tell"
    /\ IF failedNotice[a] = "none"
       THEN /\ failedNotice' = [failedNotice EXCEPT ![a] = "recorded"]
            /\ failedNext' = [failedNext EXCEPT ![a] = run[r].with]
       ELSE UNCHANGED <<failedNotice, failedNext>>
    /\ Do(r, Job("mark", a))
    /\ UNCHANGED <<chain, active, attempts, reversedNotice, reversedNext, announcedNotice, money, gateway>>

\* Mutant: only a failure is marked.
MarkFailure(a) ==
    IF ToFollowUp(a) /\ status[a] = "FAILED"
    THEN followedUp' = [followedUp EXCEPT ![a] = reversals] ELSE UNCHANGED followedUp

MarkFollowedUp(a) ==
    IF ToFollowUp(a) THEN followedUp' = [followedUp EXCEPT ![a] = reversals] ELSE UNCHANGED followedUp

Mark(r) ==
    /\ run[r].op = "mark"
    /\ MarkFollowedUp(run[r].a)
    /\ Stop(r)
    /\ UNCHANGED <<chain, active, status, method, reason, announced, due, reversedAt, notices,
                   money, gateway>>

\* The payment method in use collects the invoice that stands, as the notice of
\* the reversal says: neither the chain's last attempt nor a reversal was made
\* with it.
CollectedWithMethodInUse ==
    LET ofChain == {a \in Attempts : status[a] # "none"}
        last    == {a \in ofChain : \A b \in ofChain : b[1] < a[1] \/ (b[1] = a[1] /\ b[2] <= a[2])}
    IN  /\ \A a \in last : method[a] # active
        /\ active \notin ReversedOn(Attempts)

\* followUpReversal: in the chain's turn from the hold to the mark.
FollowUpReversal(r) ==
    LET a == run[r].a
        toldByALater == \E b \in Later(a) :
            status[b] = "REVERSED" /\ (followedUp[b] = Never \/ followedUp[b] >= reversedAt[a])
    IN
    /\ run[r].op = "reversal"
    /\ IF Standing = 0 \/ ~owing \/ toldByALater
       THEN MarkFollowedUp(a) /\ UNCHANGED <<reversedNotice, reversedNext>>
       ELSE IF \E b \in Attempts : status[b] \in UNSETTLED
       THEN UNCHANGED <<followedUp, reversedNotice, reversedNext>>
       ELSE /\ MarkFollowedUp(a)
            /\ IF reversedNotice[a] = "none"
               THEN /\ reversedNotice' = [reversedNotice EXCEPT ![a] = "recorded"]
                    /\ reversedNext' = [reversedNext EXCEPT ![a] =
                            IF CollectedWithMethodInUse THEN "again" ELSE "replace"]
               ELSE UNCHANGED <<reversedNotice, reversedNext>>
    /\ Stop(r)
    /\ UNCHANGED <<chain, active, status, method, reason, announced, due, reversedAt,
                   failedNotice, failedNext, announcedNotice, money, gateway>>

\* tellUntold: the notices recorded and not delivered.
Deliver(r, a) ==
    /\ run[r] = Idle
    /\ \/ /\ failedNotice[a] = "recorded"
          /\ failedNotice' = [failedNotice EXCEPT ![a] = "delivered"]
          /\ UNCHANGED reversedNotice
       \/ /\ reversedNotice[a] = "recorded"
          /\ reversedNotice' = [reversedNotice EXCEPT ![a] = "delivered"]
          /\ UNCHANGED failedNotice
    /\ UNCHANGED <<chain, active, attempts, announcedNotice, failedNext, reversedNext, money, gateway, run>>

-----------------------------------------------------------------------------
(* takeUp: a planned attempt. *)

TakeUp(r, a) ==
    /\ run[r] = Idle
    /\ status[a] = "SCHEDULED"
    /\ IF ~Owes(a[1]) \/ method[a] # active THEN Do(r, Job("withdraw", a))
       ELSE IF method[a] \in DirectDebits /\ ~announced[a] THEN Do(r, Job("announce", a))
       ELSE due[a] /\ Do(r, Job("submit", a))
    /\ UNCHANGED <<chain, active, attempts, notices, money, gateway>>

Withdraw(r) ==
    LET a == run[r].a IN
    /\ run[r].op = "withdraw"
    /\ IF status[a] = "SCHEDULED" THEN status' = [status EXCEPT ![a] = "WITHDRAWN"] ELSE UNCHANGED status
    /\ Stop(r)
    /\ UNCHANGED <<chain, active, method, reason, announced, due, followedUp, reversedAt,
                   notices, money, gateway>>

\* Mutant: a failure counts as told once its notice is recorded.
Unrecorded(i) == {a \in Of(i) : status[a] = "FAILED" /\ failedNotice[a] = "none"}

\* untoldFailure: a failure whose notice is not delivered, but the reversal's to
\* tell; and a reversal whose notice is recorded and not delivered.
Untold(i) ==
    LET reversed == {b \in Of(i) : status[b] = "REVERSED"}
        reversalsToTell(a) ==
            \/ method[a] \in ReversedOn(Of(i))
            \/ followedUp[a] # Never /\ \E b \in reversed : followedUp[a] < reversedAt[b]
    IN  {a \in Of(i) :
            \/ status[a] = "FAILED" /\ failedNotice[a] # "delivered" /\ ~reversalsToTell(a)
            \/ status[a] = "REVERSED" /\ reversedNotice[a] = "recorded"}

\* The announcement goes out, unless a failure or reversal of the invoice is
\* untold; one that went out before without being recorded is not sent again.
Announce(r) ==
    LET a == run[r].a IN
    /\ run[r].op = "announce"
    /\ IF Untold(a[1]) # {} THEN Stop(r) /\ UNCHANGED announcedNotice
       ELSE /\ announcedNotice' = [announcedNotice EXCEPT ![a] = "delivered"]
            /\ Do(r, Job("recordAnnounced", a))
    /\ UNCHANGED <<chain, active, attempts, failedNotice, reversedNotice, failedNext, reversedNext, money, gateway>>

\* Collected from the day the announcement named, the lead time after it.
RecordAnnounced(r) ==
    LET a == run[r].a IN
    /\ run[r].op = "recordAnnounced"
    /\ IF status[a] = "SCHEDULED" /\ ~announced[a]
       THEN /\ announced' = [announced EXCEPT ![a] = TRUE]
            /\ due' = [due EXCEPT ![a] = FALSE]
       ELSE UNCHANGED <<announced, due>>
    /\ Stop(r)
    /\ UNCHANGED <<chain, active, status, method, reason, followedUp, reversedAt, notices,
                   money, gateway>>

\* submitPlanned, in the chain's turn.
SubmitPlanned(r) ==
    LET a == run[r].a IN
    /\ run[r].op = "submit"
    /\ IF Owes(a[1]) /\ status[a] = "SCHEDULED"
       THEN /\ status' = [status EXCEPT ![a] = "SUBMITTED"]
            /\ Do(r, Job("send", a))
       ELSE Stop(r) /\ UNCHANGED status
    /\ UNCHANGED <<chain, active, method, reason, announced, due, followedUp, reversedAt, notices,
                   money, gateway>>

\* An instance stops, or a step throws: the item is left to a later run.
Abandon(r) ==
    /\ "stops" \in Environment
    /\ run[r] # Idle
    /\ Stop(r)
    /\ UNCHANGED <<chain, active, attempts, notices, money, gateway>>

-----------------------------------------------------------------------------
(* The gateway, as `PaymentGateway` promises it: a repeat of a key creates
   nothing new, and a request in doubt may arrive late or never. *)

GatewayTakes(a) ==
    /\ a \in flight
    /\ flight' = flight \ {a}
    /\ IF charge[a] # "none" THEN UNCHANGED charge
       ELSE \E c \in {"pending", "failed", "succeeded"} : charge' = [charge EXCEPT ![a] = c]
    /\ UNCHANGED <<chain, active, attempts, notices, money, run>>

\* A request that never arrives.
GatewayMisses(a) ==
    /\ "loses" \in Environment
    /\ a \in flight
    /\ flight' = flight \ {a}
    /\ UNCHANGED <<chain, active, attempts, notices, money, charge, run>>

GatewaySettles(a) ==
    /\ \/ charge[a] = "pending" /\ \E c \in {"failed", "succeeded"} : charge' = [charge EXCEPT ![a] = c]
       \/ /\ charge[a] = "failed" /\ "arrives late" \in Environment
          /\ charge' = [charge EXCEPT ![a] = "succeeded-late"]
    /\ UNCHANGED <<chain, active, attempts, notices, money, flight, run>>

\* What the gateway's reports may say of a charge: what it is, or what it was
\* when a report was made that arrives late.
Reports(c) ==
    CASE c = "none"           -> {}
      [] c = "pending"        -> {"pending"}
      [] c = "failed"         -> {"pending", "failed"}
      [] c = "succeeded"      -> {"pending", "succeeded"}
      [] c = "succeeded-late" -> {"pending", "failed", "succeeded"}

\* collectionReported: the gateway's own report, at any moment and in any order.
CollectionReported(a, outcome) ==
    /\ "reports" \in Environment
    /\ outcome \in Reports(charge[a])
    /\ RecordOutcome(a, outcome)
    /\ UNCHANGED <<gateway, run>>

\* The payments of which something counts.
Live == payments \ (withdrawn \ partly)

\* No other payment, and no credit of its own: what is taken of it, its invoice owes.
Alone(a) == payments = {a} /\ a[1] = Standing

\* Whether taking some of the payment back opens the invoice that stands: its own
\* credit is taken first, and an open credit another payment left covers the rest;
\* without an invoice it was credited.
OpensAgain(a) ==
    IF Standing = 0 THEN {FALSE} ELSE IF Alone(a) THEN {TRUE} ELSE BOOLEAN

MarkReversed(marked) ==
    /\ status' = [b \in Attempts |-> IF b \in marked THEN "REVERSED" ELSE status[b]]
    /\ reversedAt' = [b \in Attempts |-> IF b \in marked THEN reversals + 1 ELSE reversedAt[b]]
    /\ followedUp' = [b \in Attempts |-> IF b \in marked THEN Never ELSE followedUp[b]]

\* reversalReported, markWhatOpened: a reversal of a payment not recorded yet is
\* refused, and delivered again.  It takes what counts of the payment or a part of
\* it, once more where some is left or was given back.  Where it opens the invoice,
\* the attempt of the payment, the attempts whose payments a lifted cover stood
\* for, and every attempt of the invoice that succeeded are marked, as far as they
\* are reversible: one that was reversed before stays as it is.
ReversalReported(a) ==
    /\ reversals < MaxReversals
    /\ a \in Live
    /\ withdrawn' = withdrawn \union {a}
    /\ partly' \in {partly \union {a}, partly \ {a}}
    /\ reversals' = reversals + 1
    /\ \/ /\ TRUE \in OpensAgain(a)
          /\ \E lifted \in SUBSET withdrawn :
                LET marked == {b \in {a} \union lifted \union
                                    {c \in Of(Standing) : status[c] = "SUCCEEDED"} :
                                 status[b] \in REVERSIBLE}
                IN  MarkReversed(marked)
          /\ owing' = TRUE
          /\ short' = short \union {b \in Attempts : status[b] # "none"}
       \/ FALSE \in OpensAgain(a) /\ UNCHANGED <<status, followedUp, reversedAt, owing, short>>
    /\ UNCHANGED <<issued, cancelled, named, active, method, reason, announced, due,
                   notices, payments, gateway, run>>

\* The gateway gave a reversal back, or a part of it: what the invoice still owes
\* is settled first.
ReinstatementReported(a) ==
    /\ "gives back" \in Environment
    /\ a \in withdrawn
    /\ \/ withdrawn' = withdrawn \ {a} /\ partly' = partly \ {a}
       \/ partly' = partly \union {a} /\ UNCHANGED withdrawn
    /\ owing' \in IF Alone(a) THEN {owing /\ a \in partly'} ELSE {owing, FALSE}
    /\ UNCHANGED <<issued, cancelled, named, active, attempts, notices, payments,
                   short, reversals, gateway, run>>

-----------------------------------------------------------------------------
(* The operator, the subscriber and the clock. *)

\* Mutant: what was sent is withdrawn as well.
WithdrawOpen(i) ==
    status' = [a \in Attempts |->
        IF a[1] = i /\ status[a] \in OPEN THEN "WITHDRAWN" ELSE status[a]]

\* What was planned for the cancelled invoice is withdrawn; what was sent is left.
WithdrawPlanned(i) ==
    status' = [a \in Attempts |->
        IF a[1] = i /\ status[a] = "SCHEDULED" THEN "WITHDRAWN" ELSE status[a]]

\* cancel: with a replacement, that states what was paid as paid on issue and
\* names a payment method only for a rest.
Replace ==
    /\ "replaces invoice" \in Environment
    /\ ~cancelled /\ issued + 1 \in Invoices
    /\ WithdrawPlanned(issued)
    /\ issued' = issued + 1
    /\ owing' \in IF Live = {} THEN {TRUE} ELSE BOOLEAN
    /\ named' = [named EXCEPT ![issued + 1] = IF owing' THEN active ELSE 0]
    /\ UNCHANGED <<cancelled, active, method, reason, announced, due, followedUp, reversedAt,
                   notices, money, gateway, run>>

\* cancel: nothing is owed any more, and what was paid is credited.
CancelAll ==
    /\ "cancels" \in Environment
    /\ ~cancelled
    /\ WithdrawPlanned(issued)
    /\ cancelled' = TRUE
    /\ owing' = FALSE
    /\ UNCHANGED <<issued, named, active, method, reason, announced, due, followedUp,
                   reversedAt, notices, money, gateway, run>>

\* recordConfirmed: a payment method confirmed replaces the one in use for good.
ReplaceMethod ==
    /\ "replaces method" \in Environment
    /\ active + 1 \in Methods
    /\ active' = active + 1
    /\ UNCHANGED <<chain, attempts, notices, money, gateway, run>>

DayComes(a) ==
    /\ status[a] = "SCHEDULED" /\ ~due[a]
    /\ due' = [due EXCEPT ![a] = TRUE]
    /\ UNCHANGED <<chain, active, status, method, reason, announced, followedUp, reversedAt,
                   notices, money, gateway, run>>

-----------------------------------------------------------------------------
Proceeds(r) ==
    \/ StartAttempt(r) \/ PlanWith(r) \/ Send(r) \/ Unanswered(r) \/ Answered(r) \/ Record(r) \/ Ask(r)
    \/ AbandonPaid(r) \/ Resend(r) \/ AttemptAfter(r) \/ TellFailure(r) \/ Mark(r)
    \/ FollowUpReversal(r) \/ Withdraw(r) \/ Announce(r) \/ RecordAnnounced(r) \/ SubmitPlanned(r)

TakesOn(r) ==
    \/ \E i \in Invoices : CollectOne(r, i) \/ PlanAgain(r, i)
    \/ \E a \in Attempts : SettleOne(r, a) \/ FollowUp(r, a) \/ TakeUp(r, a) \/ Deliver(r, a)

Gateway ==
    \/ \E a \in Attempts :
        \/ GatewayTakes(a) \/ GatewayMisses(a) \/ GatewaySettles(a)
        \/ ReversalReported(a) \/ ReinstatementReported(a)
    \/ \E a \in Attempts, outcome \in Outcomes : CollectionReported(a, outcome)

Outside ==
    \/ Replace \/ CancelAll \/ ReplaceMethod
    \/ \E a \in Attempts : DayComes(a)

Next ==
    \/ \E r \in Runs : TakesOn(r) \/ Proceeds(r) \/ Abandon(r)
    \/ Gateway
    \/ Outside

Spec == Init /\ [][Next]_vars

(* Every run goes through all it listed, whatever becomes of one item, and the
   next one starts a quarter of an hour later: of what is listed again and again,
   something is taken up, and what is begun is carried through.  Of the requests
   sent again and again the gateway takes one, and answers it in time once; what
   is pending there it settles.  Nothing is assumed of its reports, the operator
   or the subscriber. *)
Fairness ==
    /\ \A r \in Runs :
        /\ SF_vars(\E i \in Invoices : CollectOne(r, i) \/ PlanAgain(r, i))
        /\ SF_vars(\E a \in Attempts : SettleOne(r, a))
        /\ SF_vars(\E a \in Attempts : FollowUp(r, a))
        /\ SF_vars(\E a \in Attempts : TakeUp(r, a))
        /\ SF_vars(\E a \in Attempts : Deliver(r, a))
        /\ WF_vars(Proceeds(r))
    /\ SF_vars(\E a \in Attempts : GatewayTakes(a))
    /\ WF_vars(\E a \in Attempts : charge[a] = "pending" /\ GatewaySettles(a))
    /\ WF_vars(\E a \in Attempts : DayComes(a))

FairSpec == Spec /\ Fairness

-----------------------------------------------------------------------------
(* Safety *)

\* An invoice has at most one attempt that is open or succeeded, and a chain at
\* most one that is planned, sent or on its way, whatever two instances that
\* decided from older reads, the gateway's reports and a cancellation do at
\* once: what the chain's turn, the partial unique index and the check of
\* `heldBackByItsChain` are for.
OneOpenPerChain ==
    \A a, b \in Attempts :
        /\ status[a] \in OPEN /\ status[b] \in OPEN => a = b
        /\ a[1] = b[1] /\ status[a] \in BLOCKING /\ status[b] \in BLOCKING => a = b

\* A payment is booked only for money the gateway collected, and an attempt is
\* settled as succeeded only with its payment: neither a report that is late,
\* repeated or out of order, nor a stopped instance parts the two.
BookedAsCollected ==
    /\ \A a \in payments : Collected(charge[a])
    /\ \A a \in Attempts : status[a] = "SUCCEEDED" => a \in payments

\* While an attempt is out, no other request of the chain is in doubt, travelling
\* or pending at the gateway, but one given up because the gateway held nothing
\* under its key: the subscriber is not charged twice at once for one invoice.
NoSecondRequestInDoubt ==
    \A a, b \in Attempts :
        /\ a # b /\ status[b] \in UNSETTLED
        /\ charge[a] = "pending" \/ (charge[a] = "none" /\ a \in flight)
        => reason[a] = "not-sent"

\* A subscriber who was told that nothing is collected until the payment method
\* is replaced is not charged with it again for the invoice.
ToldReplaceIsReplaced ==
    \A a \in Attempts : \A b \in Later(a) :
        failedNext[a] = "replace" => method[b] # method[a]

\* A failure that is followed up, of an invoice that still owes, was told; only
\* a reversal of the chain takes its place.
FailureIsTold ==
    \A a \in Attempts :
        /\ status[a] = "FAILED" /\ followedUp[a] # Never
        /\ failedNotice[a] = "none"
        /\ Owes(a[1])
        => \E b \in Attempts : status[b] = "REVERSED"

\* A direct debit is announced after the subscriber was told of the failures
\* before it, unless a payment of the invoice was reversed.
AnnouncedAfterTold ==
    \A a \in Attempts :
        announcedNotice[a] = "delivered" =>
            \A b \in Of(a[1]) : b[2] < a[2] /\ status[b] = "FAILED" =>
                \/ failedNotice[b] = "delivered"
                \/ \E c \in Of(a[1]) : status[c] = "REVERSED"

AllIdle == \A r \in Runs : run[r] = Idle

\* Something of the chain is still to be collected, settled or followed up: a
\* list of the run returns it.
TakenCareOf ==
    \/ Due(Standing)
    \/ CollectableAgain(Standing)
    \/ \E a \in Attempts : status[a] \in OPEN \/ ToFollowUp(a)

\* The subscriber was told to replace the payment method in use.
AwaitsReplacement ==
    \E a \in Attempts :
        /\ failedNext[a] = "replace" \/ reversedNext[a] = "replace"
        /\ method[a] = active \/ active \in ReversedOn(Attempts)

\* An invoice that owes, with no run at work on it, is taken care of by a later
\* one or waits for a payment method the subscriber was told to replace: no
\* order of steps drops it out of every list, as long as no payment is reversed a
\* second time (listToFollowUp, listCollectableAgain).
NeverForgotten == Standing # 0 /\ owing /\ AllIdle => TakenCareOf \/ AwaitsReplacement

\* A reversal that is followed up, of an invoice that still owes, was told, be it
\* with the reversal of another attempt of the chain, as the documents say
\* (SC-PRIC-085).  It need not have been: the mark of a failure may fall on it, and
\* one recorded after another was given back opens nothing to follow up.
ReversalIsTold ==
    (\E a \in Attempts : status[a] = "REVERSED")
    /\ (\A a \in Attempts : status[a] = "REVERSED" => followedUp[a] # Never)
    /\ Standing # 0 /\ owing
    => \E a \in Attempts : status[a] = "REVERSED" /\ reversedNotice[a] # "none"

\* After a reversal, an invoice that owes is collected with the payment method
\* in use where that is another one than a payment was reversed on (SC-PRIC-085).
CollectedWithAnother ==
    /\ Standing # 0 /\ owing /\ AllIdle
    /\ ReversedOn(Attempts) # {} /\ active \notin ReversedOn(Attempts)
    /\ \A a \in Attempts : method[a] # active
    => TakenCareOf

\* A settled attempt stays settled: one that failed may succeed after all, with
\* its payment, and what succeeded or failed may be reversed, when a reversal of its
\* payment or of one whose cover is lifted is reported; nothing sent is planned again.
SettledStays ==
    [][\A a \in Attempts :
        /\ status[a] \in {"WITHDRAWN", "REVERSED"} => status'[a] = status[a]
        /\ status[a] = "SUCCEEDED" => status'[a] = "SUCCEEDED" \/ (status'[a] = "REVERSED" /\ reversals' # reversals)
        /\ status[a] = "FAILED" /\ status'[a] = "SUCCEEDED" => a \in payments'
        /\ status[a] = "FAILED" => status'[a] \in {"FAILED", "SUCCEEDED", "REVERSED"}]_vars

\* Nothing of a chain is sent for with a payment method one of its payments was
\* reversed on (SC-PRIC-036, SC-PRIC-085).
NotOnReversed ==
    [][\A a \in Attempts : status[a] # "SUBMITTED" /\ status'[a] = "SUBMITTED" =>
            method'[a] \notin ReversedOn(Attempts)]_vars

-----------------------------------------------------------------------------
(* Liveness *)

\* What became of every request that was sent is known at some time: an answer that
\* is lost is asked for, and a request that is lost is sent again.
OutcomeIsKnown ==
    (\E a \in Attempts : status[a] \in UNSETTLED) ~> (\A a \in Attempts : status[a] \notin UNSETTLED)

Undone ==
    \E a \in Attempts : ToFollowUp(a) \/ failedNotice[a] = "recorded" \/ reversedNotice[a] = "recorded"

\* Failures and reversals are followed up at some time, and what is to be told is
\* delivered, whatever arrives late, is reversed or given back meanwhile.
FollowedUpAndTold == Undone ~> ~Undone

\* An invoice that owes is paid or cancelled at some time, or waits for a payment
\* method the subscriber was told to replace.
PaidOrAwaited == Standing # 0 /\ owing ~> Standing = 0 \/ ~owing \/ AwaitsReplacement
=============================================================================
