-------------------------- MODULE SubscriberLedger --------------------------
(***************************************************************************)
(* What a subscriber paid, what of it settles an invoice, what is owed back *)
(* as a credit, and how a refund, a payout, a reversal and what is given    *)
(* back of one divide across them.                                         *)
(*                                                                          *)
(* One chain of invoices and every payment collected for it.  A report is   *)
(* one transaction, in the chain's turn and holding the subscriber's        *)
(* credits, so each is one action, and what it computes on the way is an    *)
(* operator from the books to the books.  A row's number is its place in    *)
(* its table, for rows are read in the order they were written.  The        *)
(* entries of one credit that name the same refund or reversal are one      *)
(* entry, with what they net; so are the settlements of one payment, and of *)
(* one reversal, on one invoice.  Amounts are whole cents.                  *)
(***************************************************************************)
EXTENDS Integers, Sequences

CONSTANTS
    Collected,      \* what a payment may be of
    Returned,       \* what a refund, a payout or a reversal may be of
    Totals,         \* what an invoice may be issued for
    MaxInvoices,    \* bound on the invoices of the chain
    MaxRows,        \* bound on invoices, payments, reversals, refunds and payouts
    MaxPaidOut      \* bound on the refunds, and on the cents of payouts

\* Nothing is collected or returned in less than a cent; an invoice may be of
\* nothing, or owed to the subscriber.
ASSUME LedgerAssumption ==
    /\ Collected \subseteq Nat \ {0}
    /\ Returned \subseteq Nat \ {0}
    /\ Totals \subseteq Int
    /\ MaxInvoices \in Nat \ {0}

VARIABLES
    books           \* the tables: see TypeOK

Invoices == 1 .. MaxInvoices

AtLeastZero(cents) == IF cents > 0 THEN cents ELSE 0

Least(one, other) == IF one < other THEN one ELSE other

\* What the first n of a sequence of amounts come to.
FirstOf(amounts, n) ==
    LET sum[i \in 0 .. n] == IF i = 0 THEN 0 ELSE sum[i - 1] + amounts[i] IN sum[n]

SumOf(amounts) == FirstOf(amounts, Len(amounts))

Total(table, Value(_)) == SumOf([i \in DOMAIN table |-> Value(table[i])])

\* `amount` dealt to the parts of `caps` in their order, each as far as it goes.
\* (<<>> \o s is s; TLC then computes the parts of s once.)
Dealt(amount, caps) ==
    LET cap == <<>> \o [i \in DOMAIN caps |-> AtLeastZero(caps[i])]
    IN [i \in DOMAIN caps |-> Least(cap[i], AtLeastZero(amount - FirstOf(cap, i - 1)))]

-----------------------------------------------------------------------------
(* What the tables say *)

OpenOf(credit) == AtLeastZero(credit.amount - Total(credit.entries, LAMBDA e : e.cents))

\* What `by` took of the credit and did not give back.
TakenBy(credit, by) == Total(credit.entries, LAMBDA e : IF e.by = by THEN e.cents ELSE 0)

SettledOn(b, i) == Total(b.payments, LAMBDA payment : payment.settles[i])

\* Mutant: an invoice owes what it was issued for, whatever settled it since.
OwedOnIssued(b, i) == IF i = b.standing THEN b.totals[i] ELSE 0

\* A cancelled invoice owes nothing.
OwedOn(b, i) == IF i = b.standing THEN b.totals[i] - SettledOn(b, i) ELSE 0

IsOwnCreditOf(credit, p) == credit.origin = <<"payment", p>>

\* Mutant: only the credits of earlier payments cover.
CoversEarlier(credit, p) == credit.origin[1] = "payment" /\ credit.origin[2] < p

\* A credit another payment left covers: all were collected for this chain.
Covers(credit, p) == credit.origin[1] = "payment" /\ ~IsOwnCreditOf(credit, p)

CaseSum(b, by) == Total(b.cases, LAMBDA each : IF each.by = by THEN each.amount ELSE 0)

-----------------------------------------------------------------------------
(* What is written *)

\* Mutant: a credit of nothing is written.
CreditedAlways(b, origin, cents) ==
    [b EXCEPT !.credits = Append(@, [origin |-> origin, amount |-> cents, entries |-> <<>>])]

Credited(b, origin, cents) ==
    IF cents <= 0 THEN b
    ELSE [b EXCEPT !.credits = Append(@, [origin |-> origin, amount |-> cents, entries |-> <<>>])]

Netted(entry, by, cents) == IF entry.by = by THEN [entry EXCEPT !.cents = @ + cents] ELSE entry

Entered(credit, by, cents) ==
    IF cents = 0 THEN credit
    ELSE IF \E i \in DOMAIN credit.entries : credit.entries[i].by = by
    THEN [credit EXCEPT !.entries = [i \in DOMAIN @ |-> Netted(@[i], by, cents)]]
    ELSE [credit EXCEPT !.entries = Append(@, [by |-> by, cents |-> cents])]

\* `cents[c]` entered on credit c, for each of them.
EnteredAll(b, by, cents) ==
    [b EXCEPT !.credits = [c \in DOMAIN @ |-> Entered(@[c], by, cents[c])]]

CaseOpened(b, by, cents) ==
    IF cents <= 0 THEN b
    ELSE [b EXCEPT !.cases = Append(@, [by |-> by, amount |-> cents])]

\* A reversal's settlements: what its payment settles less, it opened.
Opened(b, r, cents) ==
    [b EXCEPT !.payments[b.reversals[r].payment].settles = [i \in Invoices |-> @[i] - cents[i]],
              !.reversals[r].opened = [i \in Invoices |-> @[i] + cents[i]]]

-----------------------------------------------------------------------------
(* A withdrawal.  Amounts are kept for every credit, 0 where it is not meant. *)

\* What the reversals of p took of the credits it left.
FromCredits(b, p) ==
    Total(b.reversals, LAMBDA each : IF each.payment = p THEN each.fromCredit ELSE 0)

\* What of each own credit no reversal of the payment took: what they took in
\* all is counted against the credits in their order.
LeftOfCredits(b, p) ==
    LET own == [c \in DOMAIN b.credits |->
                   IF IsOwnCreditOf(b.credits[c], p) THEN b.credits[c].amount ELSE 0]
        takenHere == Dealt(FromCredits(b, p), own)
    IN [c \in DOMAIN own |-> own[c] - takenHere[c]]

\* What of each credit may cover a reversal of p.
CoverOpen(b, p) ==
    [c \in DOMAIN b.credits |-> IF Covers(b.credits[c], p) THEN OpenOf(b.credits[c]) ELSE 0]

\* The parts: `share` of the own credits, `opening` of the invoices, and `covered`
\* of the covering credits, which keeps the first of the invoices settled.
PartsOf(b, amount, share, opening, covered) ==
    LET ofOpen == [c \in DOMAIN b.credits |-> Least(share[c], OpenOf(b.credits[c]))]
        kept == Dealt(SumOf(covered), opening)
    IN [fromCredit |-> SumOf(share),
        credits |-> ofOpen,
        beyondOpen |-> [c \in DOMAIN b.credits |-> share[c] - ofOpen[c]],
        covered |-> covered,
        opens |-> [i \in Invoices |-> opening[i] - kept[i]],
        unmatched |-> amount - SumOf(ofOpen) - SumOf(opening)]

\* How `amount` divides across what payment p brought: the credits it left
\* first, open or not, then the invoices it settles, which open credits of other
\* payments cover as far as they go.
WithdrawalParts(b, p, amount) ==
    LET Cover(share, opening) ==
            PartsOf(b, amount, share, opening, Dealt(SumOf(opening), CoverOpen(b, p)))
        Open(share) == Cover(share, Dealt(amount - SumOf(share), b.payments[p].settles))
    IN Open(Dealt(amount, LeftOfCredits(b, p)))

\* An entry of a credit of payment p that covers a reversal of another payment.
IsCover(b, entry, p) ==
    entry.by[1] = "reversal" /\ b.reversals[entry.by[2]].payment # p

\* Mutant: no cover is lifted.
LiftsOfNone(b, p, parts) ==
    [c \in DOMAIN b.credits |-> [k \in DOMAIN b.credits[c].entries |-> 0]]

\* What a withdrawal reaches beyond the open part of each own credit lifts the
\* covers that credit gave, in the order they took it.
LiftsOf(b, p, parts) ==
    [c \in DOMAIN b.credits |->
        LET entries == b.credits[c].entries
        IN Dealt(parts.beyondOpen[c], [k \in DOMAIN entries |->
                    IF IsCover(b, entries[k], p) THEN entries[k].cents ELSE 0])]

\* What a reversal takes of its payment: of the credits, of the invoices, and the
\* rest is a case.
Taken(b, r, parts, ofOwn, cases) ==
    LET by == <<"reversal", r>>
        entered == EnteredAll(b, by, [c \in DOMAIN b.credits |-> ofOwn[c] + parts.covered[c]])
        opened == Opened(entered, r, parts.opens)
    IN CaseOpened([opened EXCEPT !.reversals[r].fromCredit = @ + parts.fromCredit], by, cases)

\* A lifted cover returns to credit c, and its reversal takes it again of what its
\* own payment brought, as the books are now.
CoverLifted(b, c, r, cents) ==
    LET Take(returned, parts) == Taken(returned, r, parts, parts.credits, parts.unmatched)
        Again(returned) ==
            Take(returned, WithdrawalParts(returned, b.reversals[r].payment, cents))
    IN IF cents = 0 THEN b
       ELSE Again([b EXCEPT !.credits[c] = Entered(@, <<"reversal", r>>, -cents)])

\* The lifts of one credit, by its entries, and those of all credits.
LiftedOf(b, c, lifts) ==
    LET after[k \in 0 .. Len(lifts)] ==
            IF k = 0 THEN b
            ELSE CoverLifted(after[k - 1], c, b.credits[c].entries[k].by[2], lifts[k])
    IN after[Len(lifts)]

Lifted(b, lifts) ==
    LET after[c \in 0 .. Len(lifts)] ==
            IF c = 0 THEN b ELSE LiftedOf(after[c - 1], c, lifts[c])
    IN after[Len(lifts)]

Withdrawn(b, r, amount) ==
    LET Lift(parts, lifts) ==
            LET ofOwn == [c \in DOMAIN lifts |-> parts.credits[c] + SumOf(lifts[c])]
                grown == [b EXCEPT !.reversals[r].amount = @ + amount]
                cases == parts.unmatched - Total(lifts, SumOf)
            IN Lifted(Taken(grown, r, parts, ofOwn, cases), lifts)
        Take(parts) == Lift(parts, LiftsOf(b, b.reversals[r].payment, parts))
    IN Take(WithdrawalParts(b, b.reversals[r].payment, amount))

-----------------------------------------------------------------------------
(* What the gateway gives back of a reversal *)

\* What the reversal opened and has not settled again, on the invoice that
\* stands now, or where it was opened once none stands.
ReopenedByStanding(b, r) ==
    LET opened == b.reversals[r].opened
    IN IF b.standing = 0 THEN opened
       ELSE [i \in Invoices |-> IF i = b.standing THEN SumOf(opened) ELSE 0]

\* `amount` dealt to the caps of the credits, those of payment p's own first.
DealtOwnFirst(b, p, amount, caps) ==
    LET Of(own) == [c \in DOMAIN caps |->
                       IF IsOwnCreditOf(b.credits[c], p) = own THEN caps[c] ELSE 0]
        first == Dealt(amount, Of(TRUE))
        others == Dealt(amount - SumOf(first), Of(FALSE))
    IN [c \in DOMAIN caps |-> first[c] + others[c]]

\* First the cases, then the credits, then the invoices as far as they owe; what
\* they owe no more is a credit.
Reinstated(b, r, amount) ==
    LET by == <<"reversal", r>>
        reversal == b.reversals[r]
        covered == Least(amount, AtLeastZero(CaseSum(b, by) - reversal.toCases))
        credits == DealtOwnFirst(b, reversal.payment, amount - covered,
                                 [c \in DOMAIN b.credits |-> TakenBy(b.credits[c], by)])
        given == Dealt(amount - covered - SumOf(credits), ReopenedByStanding(b, r))
        settles == [i \in Invoices |-> Least(given[i], AtLeastZero(OwedOn(b, i)))]
        b1 == EnteredAll(b, by, [c \in DOMAIN credits |-> -credits[c]])
        b2 == Opened(b1, r, [i \in Invoices |-> -settles[i]])
    IN Credited([b2 EXCEPT !.reversals[r].reinstated = @ + amount,
                           !.reversals[r].toCases = @ + covered],
                by, SumOf(given) - SumOf(settles))

-----------------------------------------------------------------------------
(* The operations, each one transaction *)

\* The first invoice owes: bound, for one owed to the subscriber may replace it.
Init ==
    books \in {[totals |-> <<total>>, standing |-> 1, payments |-> <<>>, credits |-> <<>>,
                reversals |-> <<>>, refunds |-> <<>>, cases |-> <<>>] : total \in Totals \cap Nat}

PaidOutRows ==
    Len(books.refunds) + Total(books.credits, LAMBDA credit : TakenBy(credit, <<"payout", 0>>))

HasRoom ==
    Len(books.totals) + Len(books.payments) + Len(books.reversals) + PaidOutRows < MaxRows

MayPayOut == HasRoom /\ PaidOutRows < MaxPaidOut

\* A payment settles what the invoice that stands owes; the rest is a credit.
RecordPayment(amount) ==
    LET p == Len(books.payments) + 1
        owed == IF books.standing = 0 THEN 0 ELSE OwedOn(books, books.standing)
        settles == Least(amount, AtLeastZero(owed))
        payment == [amount |-> amount,
                    settles |-> [i \in Invoices |-> IF i = books.standing THEN settles ELSE 0]]
    IN /\ HasRoom
       /\ books' = Credited([books EXCEPT !.payments = Append(@, payment)],
                            <<"payment", p>>, amount - settles)

\* An invoice of a negative total is owed to the subscriber, once.
CreditInvoice(i) ==
    /\ i \in DOMAIN books.totals
    /\ books.totals[i] < 0
    /\ \A c \in DOMAIN books.credits : books.credits[c].origin # <<"invoice", i>>
    /\ books' = Credited(books, <<"invoice", i>>, -books.totals[i])

\* `cents[p]` of each payment p left as a credit.
SharesCredited(b, cents) ==
    LET after[p \in 0 .. Len(cents)] ==
            IF p = 0 THEN b ELSE Credited(after[p - 1], <<"payment", p>>, cents[p])
    IN after[Len(cents)]

\* What was paid on the invoice that stood moves to the one that stands now, the
\* oldest payment first and as far as it owes; the rest is credited.
SharesMoved(b, standing, owes) ==
    LET i == b.standing
        share == [p \in DOMAIN b.payments |-> AtLeastZero(b.payments[p].settles[i])]
        movedIn == Dealt(owes, share)
        Moved(p) == [b.payments[p] EXCEPT !.settles = [j \in Invoices |->
                        CASE j = i -> @[j] - share[p]
                          [] j = standing -> @[j] + movedIn[p]
                          [] OTHER -> @[j]]]
        moved == [b EXCEPT !.standing = standing,
                           !.payments = [p \in DOMAIN share |-> Moved(p)]]
    IN SharesCredited(moved, [p \in DOMAIN share |-> share[p] - movedIn[p]])

CancelInvoice ==
    /\ books.standing # 0
    /\ books' = SharesMoved(books, 0, 0)

ReplaceInvoice(total) ==
    /\ books.standing # 0
    /\ Len(books.totals) < MaxInvoices /\ HasRoom
    /\ total <= books.totals[books.standing]
    /\ books' = SharesMoved([books EXCEPT !.totals = Append(@, total)],
                            Len(books.totals) + 1, total)

\* Mutant: what was given back is not held to what was withdrawn.
GivenBackUnheld(b, r, reinstated) ==
    IF reinstated > b.reversals[r].reinstated
    THEN Reinstated(b, r, reinstated - b.reversals[r].reinstated)
    ELSE b

\* What of all that was given back, and was withdrawn, was not given back before.
GivenBack(b, r, reinstated) ==
    LET given == Least(reinstated, b.reversals[r].amount) - b.reversals[r].reinstated
    IN IF given > 0 THEN Reinstated(b, r, given) ELSE b

\* The gateway reports a reversal with the totals it withdrew and gave back so
\* far: what grew is taken back, and what was given back since returns.
Reported(b, r, withdrawn, reinstated) ==
    LET grown == withdrawn - b.reversals[r].amount
    IN GivenBack(IF grown > 0 THEN Withdrawn(b, r, grown) ELSE b, r, reinstated)

NewReversal(b, p) ==
    [b EXCEPT !.reversals = Append(@, [payment |-> p, amount |-> 0, fromCredit |-> 0,
                                       reinstated |-> 0, toCases |-> 0,
                                       opened |-> [i \in Invoices |-> 0]])]

\* The gateway: over its disputes, and less what it gave back, it withdraws of a
\* payment no more than was collected.
Withdrawable(p) ==
    books.payments[p].amount -
        Total(books.reversals,
              LAMBDA each : IF each.payment = p THEN each.amount - each.reinstated ELSE 0)

ReportNewReversal(p, withdrawn, reinstated) ==
    /\ HasRoom
    /\ withdrawn <= Withdrawable(p)
    /\ books' = Reported(NewReversal(books, p), Len(books.reversals) + 1, withdrawn, reinstated)

\* Reported again, in any order: with more, the same, or what was so before.
ReportReversal(r, withdrawn, reinstated) ==
    /\ withdrawn - books.reversals[r].amount <= Withdrawable(books.reversals[r].payment)
    /\ books' = Reported(books, r, withdrawn, reinstated)

\* A refund seen first is paid out of the open credits, the payment's own first;
\* one that has failed by then pays nothing out.
RecordRefund(p, amount, ended) ==
    LET by == <<"refund", Len(books.refunds) + 1>>
        parts == DealtOwnFirst(books, p, amount,
                               [c \in DOMAIN books.credits |-> OpenOf(books.credits[c])])
        seen == [books EXCEPT !.refunds = Append(@, [amount |-> amount, ended |-> ended])]
    IN /\ MayPayOut
       /\ books' = IF ended THEN seen
                   ELSE CaseOpened(EnteredAll(seen, by, parts), by, amount - SumOf(parts))

\* Mutant: a refund that failed gives nothing back.
EndRefundKept(f) ==
    /\ ~books.refunds[f].ended
    /\ books' = [books EXCEPT !.refunds[f].ended = TRUE]

\* A refund that failed gives back what it paid out, once.
EndRefund(f) ==
    LET by == <<"refund", f>>
    IN /\ ~books.refunds[f].ended
       /\ books' =
            [books EXCEPT
                !.refunds[f].ended = TRUE,
                !.credits = [c \in DOMAIN @ |-> Entered(@[c], by, -TakenBy(@[c], by))]]

\* The operator records a payout, refused where it exceeds what is open.
RecordPayout(c, amount) ==
    /\ amount <= OpenOf(books.credits[c])
    /\ MayPayOut
    /\ books' = [books EXCEPT !.credits[c] = Entered(@, <<"payout", 0>>, amount)]

Next ==
    \/ \E a \in Collected : RecordPayment(a)
    \/ \E i \in Invoices : CreditInvoice(i)
    \/ CancelInvoice
    \/ \E total \in Totals : ReplaceInvoice(total)
    \/ \E p \in DOMAIN books.payments : \E w \in Returned : \E g \in 0 .. w :
         ReportNewReversal(p, w, g)
    \/ \E r \in DOMAIN books.reversals : \E w \in Returned : \E g \in {0} \cup Returned :
         ReportReversal(r, w, g)
    \/ \E p \in DOMAIN books.payments : \E a \in Returned : \E ended \in BOOLEAN :
         RecordRefund(p, a, ended)
    \/ \E f \in DOMAIN books.refunds : EndRefund(f)
    \/ \E c \in DOMAIN books.credits : \E a \in Returned : RecordPayout(c, a)

Spec == Init /\ [][Next]_books

-----------------------------------------------------------------------------
By == {"reversal", "refund", "payout"} \X Nat

\* The tables hold rows of their kinds.
TypeOK ==
    /\ \A i \in DOMAIN books.totals : books.totals[i] \in Totals
    /\ Len(books.totals) \in Invoices /\ books.standing \in 0 .. Len(books.totals)
    /\ \A p \in DOMAIN books.payments :
         books.payments[p] \in [amount : Collected, settles : [Invoices -> Int]]
    /\ \A c \in DOMAIN books.credits :
         LET credit == books.credits[c]
         IN /\ credit.amount \in Nat \ {0}
            /\ credit.origin \in {"payment", "reversal", "invoice"} \X Nat
            /\ \A i \in DOMAIN credit.entries : credit.entries[i] \in [by : By, cents : Int]
    /\ \A r \in DOMAIN books.reversals :
         books.reversals[r] \in [payment : DOMAIN books.payments, amount : Nat, fromCredit : Nat,
                                 reinstated : Nat, toCases : Nat, opened : [Invoices -> Int]]
    /\ \A f \in DOMAIN books.refunds :
         books.refunds[f] \in [amount : Returned, ended : BOOLEAN]
    /\ \A k \in DOMAIN books.cases :
         books.cases[k] \in [by : By, amount : Nat \ {0}]

\* What was given back of the reversal and no invoice owed any more.
CreditedFor(r) ==
    Total(books.credits,
          LAMBDA credit : IF credit.origin = <<"reversal", r>> THEN credit.amount ELSE 0)

\* What a reversal holds of the credits, opened of the invoices and left to
\* reconcile comes to what it withdrew and was not given back, none of it
\* negative: whatever covers were given and lifted meanwhile, a dispute won
\* returns all it took, and nothing beyond (SC-PRIC-086, SC-PRIC-090).
PartsComeToTheAmount ==
    \A r \in DOMAIN books.reversals :
        LET by == <<"reversal", r>>
            reversal == books.reversals[r]
            unmatched == CaseSum(books, by) - reversal.toCases
            reopened == SumOf(ReopenedByStanding(books, r)) - CreditedFor(r)
        IN /\ unmatched >= 0 /\ reopened >= 0
           /\ \A c \in DOMAIN books.credits : TakenBy(books.credits[c], by) >= 0
           /\ unmatched + reopened + Total(books.credits, LAMBDA credit : TakenBy(credit, by))
                = reversal.amount - reversal.reinstated

\* Refunds, payouts, reversals and covers together never pay out of a credit more
\* than it is of, and payments settle no invoice by more than its total nor by
\* less than nothing, whatever was moved, taken back and given back
\* (SC-PRIC-083, SC-PRIC-095).
NothingBeyond ==
    /\ \A c \in DOMAIN books.credits :
         Total(books.credits[c].entries, LAMBDA e : e.cents) \in 0 .. books.credits[c].amount
    /\ \A p \in DOMAIN books.payments : \A i \in Invoices : books.payments[p].settles[i] >= 0
    /\ \A i \in DOMAIN books.totals : SettledOn(books, i) <= AtLeastZero(books.totals[i])

OwedBack(b) == Total(b.credits, OpenOf)

AmountOf(row) == row.amount

PaidOut(b) ==
    Total(b.credits, LAMBDA credit : TakenBy(credit, <<"payout", 0>>))
        + Total(b.refunds, LAMBDA f : IF f.ended THEN 0 ELSE f.amount)

\* The account the ledger keeps: what was collected, went and came back, what of
\* it settles invoices and is owed back, and what is in a case that neither a
\* reversal given back nor a failed refund covered.
AccountOf(b) ==
    [collected |-> Total(b.payments, AmountOf),
     paidOut |-> PaidOut(b),
     withdrawn |-> Total(b.reversals, AmountOf),
     reinstated |-> Total(b.reversals, LAMBDA r : r.reinstated),
     granted |-> Total(b.credits,
                       LAMBDA credit : IF credit.origin[1] = "invoice" THEN credit.amount ELSE 0),
     settled |-> SumOf([i \in Invoices |-> SettledOn(b, i)]),
     owedBack |-> OwedBack(b),
     toReconcile |-> Total(b.cases, LAMBDA each :
                            IF each.by[1] = "refund" /\ b.refunds[each.by[2]].ended THEN 0
                            ELSE each.amount)
                       - Total(b.reversals, LAMBDA r : r.toCases)]

Account == INSTANCE SubscriberAccount WITH account <- AccountOf(books)

\* Whatever rows a report writes, the ledger keeps the account of
\* SubscriberAccount: not a cent is made or lost between payments, covers, lifts,
\* cancellations, refunds and what is given back (SC-PRIC-083 to SC-PRIC-095).
KeepsTheAccount == Account!Spec

\* The books after one more reversal, of p.
Reversed(b, p, cents) == Withdrawn(NewReversal(b, p), Len(b.reversals) + 1, cents)

Owes(b) == [i \in DOMAIN b.totals |-> OwedOn(b, i)]

Alike(one, other) ==
    /\ Owes(one) = Owes(other)
    /\ OwedBack(one) = OwedBack(other)
    /\ Total(one.cases, AmountOf) = Total(other.cases, AmountOf)

LendsBeside(p, q) ==
    \E c \in DOMAIN books.credits : \E k \in DOMAIN books.credits[c].entries :
        LET entry == books.credits[c].entries[k]
        IN /\ IsOwnCreditOf(books.credits[c], p)
           /\ IsCover(books, entry, p) /\ entry.cents > 0
           /\ books.reversals[entry.by[2]].payment # q

\* Two reversals of different payments end alike in either order: the invoices
\* owe the same, as much is owed back and as much is left to reconcile, however
\* they are covered and whatever was cancelled before, unless a credit of one of
\* them covers a third, or a reversal was given back (SC-PRIC-090).
EndAlike ==
    \A p, q \in DOMAIN books.payments : \A x, y \in Returned :
        /\ p < q /\ x <= Withdrawable(p) /\ y <= Withdrawable(q)
        /\ ~LendsBeside(p, q) /\ ~LendsBeside(q, p)
        /\ \A r \in DOMAIN books.reversals : books.reversals[r].reinstated = 0
        => Alike(Reversed(Reversed(books, p, x), q, y), Reversed(Reversed(books, q, y), p, x))

Before(r, Field(_)) == IF r \in DOMAIN books.reversals THEN Field(books.reversals[r]) ELSE 0

OpensMore(r) ==
    \E i \in Invoices : books'.reversals[r].opened[i] > Before(r, LAMBDA each : each.opened[i])

GivesMoreBack ==
    \E r \in DOMAIN books'.reversals :
        books'.reversals[r].reinstated > Before(r, LAMBDA each : each.reinstated)

\* A reversal opens an invoice, itself or through a cover that was lifted, only
\* once no credit another payment left for the chain is open any more
\* (SC-PRIC-087, SC-PRIC-090).
CoveredFirst ==
    [][GivesMoreBack \/ \A r \in DOMAIN books'.reversals :
        OpensMore(r) =>
            \A c \in DOMAIN books'.credits :
                \/ books'.credits[c].origin[1] # "payment"
                \/ IsOwnCreditOf(books'.credits[c], books'.reversals[r].payment)
                \/ OpenOf(books'.credits[c]) = 0]_books

\* A reversal opens an invoice only once the credits its payment left are not
\* open any more (SC-PRIC-084).
OwnCreditFirst ==
    [][GivesMoreBack \/ \A r \in DOMAIN books'.reversals :
        OpensMore(r) =>
            \A c \in DOMAIN books'.credits :
                IsOwnCreditOf(books'.credits[c], books'.reversals[r].payment)
                    => OpenOf(books'.credits[c]) = 0]_books
=============================================================================
