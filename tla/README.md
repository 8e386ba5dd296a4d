# saasicat: a verification of its billing and what stands beside it

TLA+ modules that model parts of this repository, TLC configurations that check
them on small instances, and theorems about them that the TLA+ proof system
checks for every value of the constants. `PROJECT.json` names every run, every
mapped definition with the lines it models, every mutant of the code a property
catches, and the hazards and theorems.

Read `InvoiceCollection.tla` first: it is the system's most delicate part, the
one that charges people's payment methods. `SubscriberLedger.tla` is where the
money goes then. The other modules are smaller and can be read in any order.

## 1. Inventory

saasicat is a set of packages an application installs to sell subscriptions:
plans and bundles, sign-up, contracts, charges, invoices, collecting them,
entitlements and limits, and an administration. It runs as several instances of
one server over one PostgreSQL database. Nothing is kept in a process that
matters but caches; what orders two instances is a transaction, a row lock (the
"chain's turn" of an invoice chain, a tenant's turn), a unique index, a guarded
`UPDATE`, or a claim with a lease. Timers of every instance run the periodic jobs.

| Part | State | Operations | Hard about it | Correct when |
|---|---|---|---|---|
| Invoice collection (`nest/.../invoice-collection.service.ts`, its repository and the pure rules in `core`) | one row per attempt: status, payment method, due day, announced, followed up, hold | `collectDue` and the handlers of its five lists: first attempt, settle, follow up, take up a planned one, plan again; tell what is untold | two instances; a gateway that does not answer, or reports on its own; decisions from older reads; an instance that stops anywhere | nothing is charged twice at once; an invoice that owes is never forgotten; failures and reversals are told, in order, and what was told is kept |
| Payment outcomes (`invoice-payment.service.ts`) | payments, their reversal | record an outcome, a refund, a reversal, one given back; mark what it opened | any order, any number, beside a run | a payment is booked exactly where money arrived; what is settled stays |
| Payment callbacks (`payment-callback.service.ts`) | event log | claim the event and handle it in one transaction, steps after the commit | repeats; a step after the commit that fails | each event handled once |
| Invoice chain and cancellation (`invoice-cancellation.service.ts`, `core/subscription-invoice-correction.ts`) | invoices, each replacing one; cancellation documents | cancel with or without a replacement, move what was paid, withdraw what was planned | beside a run that has just decided to collect | one invoice of a chain stands; the subscriber's money is kept to the cent |
| Notice sender (`notice-sender.ts`) | one row per notice: claim, delivery | claim, deliver, confirm, release, settle a late answer | claims that go stale while an answer is awaited | told once within a lease; recorded once, and only when told |
| Payment methods (`subscriber-payment-method.service.ts`) | payment methods of a subscriber, one in use; setup sessions | start a setup, confirm, remove | confirmed twice; confirmed while a run collects | one in use |
| Subscriber ledger (payment, credit, refund and reconciliation repositories, `core/subscriber-payment-rules.ts`) | payments, their parts on invoices, credits, refunds, cases | settle, credit, refund, reverse, reinstate, restate | reversal beside refund; covers of one payment lifted by another's reversal | what is paid out never exceeds what was paid; parts sum to amounts |
| Charges (`billing/charges`) | one row per charged period and line | record due charges, withdraw | derived from bookings that move on | every period charged once |
| Invoice issuing (`subscription-invoice.service.ts`) | invoices, numbers | draft, issue, register | two instances, a stop between | numbers without gaps, a charge on one invoice |
| Archived files (`archived-file-run.ts`, documents, confirmations) | archive and mail marks | render, archive, confirm, mail under a claim | leases, stops | archived before mailed, mailed once within a lease |
| Promo codes (`promo.service.ts`) | slots, holds, redemptions | hold for a checkout, hand over, redeem, reverse, expire | last slots; holds that expire while used | slots never exceed the maximum and come back once |
| Checkout offers | offer, conclusion | price, start, conclude | two conclusions at once | concluded once |
| Registration | pending registration, one-time code | start, resend, verify, complete, clean up | attempts at once, resend between | attempts bounded per code |
| Subscription contracts | contracts and successors | freeze, succeed | two successors at once | one current contract |
| Pending changes, ending at once | scheduled plan and bundle changes | schedule, withdraw, materialise, end | a due change withdrawn while it is applied | applied only where it stands |
| Version retirements and switches | retirements, notices, bindings | announce, remind, switch | moved before told | told before moved |
| Entitlements | cached snapshot per tenant, generations | get, invalidate, enforce a limit | mutation while computing; the last place of a limit | no stale entry outlives a mutation in its process |
| Maintenance | the window; what each process knows of it | announce, lock, unlock, ask | answers out of order | a later answer is never undone |
| Subscribers and joins, catalog, discovery, settings, setup, administration, tax, e-invoice, adapters, user interfaces, command line | rows edited by operators, or none | | little concurrency, or pure computation | |

How they interact: a subscription's *charges* become *invoices*; an invoice is
*collected*; the gateway's answer or *callback* records a *payment* in the
*ledger*, which says what the invoice still owes; the collection asks the ledger
in every transaction. A *cancellation* issues the next invoice of the chain and
moves what was paid. Failures and reversals are told through *notices*. A
*confirmed payment method* is what a failed invoice is collected with next.

## 2. Modules

| Module | What it is |
|---|---|
| `InvoiceCollection` | the collection of one invoice chain: the tables, every handler, the gateway, the operator and the subscriber |
| `MCInvoiceCollection` | its instances for TLC (`IC_*.cfg`) |
| `MCTwoInstances` | two of them, beside the gateway's reports or a cancellation (`IC_instances.cfg`) |
| `SubscriberLedger` | a subscriber's payments, credits, refunds, reversals and covers over the invoices of one chain |
| `SubscriberAccount` | the abstract account the ledger implements |
| `MCSubscriberLedger` | its instances for TLC (`SL_*.cfg`) |
| `SubscriptionContracts` | a tenant's contracts: changes, copies, conclusions, cancellations and ends |
| `MCSubscriptionContracts` | its instance for `SC_ends_with_subscription.cfg` |
| `PromoSlots` | the slots of promo codes between checkouts, redemptions, reversals and the sweep; also run by itself (`PS_form_slot.cfg`) |
| `EntitlementCache` | what one process keeps of the tenants' entitlements, beside the rows it was computed from |
| `MaintenanceWindow` | the maintenance lock, and what each process knows of it |
| `NoticeSender` | the row of one notice and every call that tells it |
| `ArchivedFile` | one document: rendered, recorded, archived, mailed, handed out; its mail implements `NoticeSender` |
| `MCComponents` | the last six side by side, for TLC (`CO_side_by_side.cfg`) |
| `*Proofs` | the inductive invariants and theorems of the module each is named after |

`SubscriberLedger` and `InvoiceCollection` model the same payments at two grains
and are not composed yet; what either takes of the other is named in its text
(`StillOwingAfter`, `OpensAgain` there; that a reported payment is recorded once
here). `ArchivedFile` INSTANCEs `NoticeSender`. The others share no state with one
another in the code either: their tables are different, and what one calls of the
other is a decision the model takes freely.

### InvoiceCollection

**Grain.** A step is one transaction, one call of the gateway or one read on
which a handler decides; whatever the code awaits between two of those lies
between two steps. An instance's local variables that outlive an `await` are its
`run[r]`: the handler it is in (`op`), the attempt (`a`; `<<i, 0>>` for an
invoice without one), the payment method it read (`m`) and what it decided or was
answered (`with`). So a handler such as `followUpFailure` is several actions
(`FollowUp`, `AttemptAfter`, `PlanWith`, `TellFailure`, `Mark`), and anything can
happen between them, as in the code.

**State.** `status`, `method`, `reason`, `announced`, `due`, `followedUp`,
`reversedAt` are the columns of `subscription_invoice_collections` (moments are
replaced by what is compared of them: how many reversals were recorded by then).
`failedNotice`, `reversedNotice`, `announcedNotice` are the notices of an attempt;
`failedNext`, `reversedNext` what they say follows. `issued`, `cancelled`, `named`
are the chain. `payments` are the attempts with a payment, `withdrawn` those of
which a reversal has something that was not given back, `partly` those of these of
which something still counts; so a payment can be reversed in part, again, and once
more after it was given back. `flight` and `charge` are the gateway, as
the port `PaymentGateway` promises it: a key creates at most one charge, an answer
may be lost with or without the request, and what was refused may still arrive.

**Data left out.** Amounts: `owing` keeps whether the standing invoice owes
something, and where the code would compute it from amounts the model allows each
outcome the amounts could give (`StillOwingAfter`, `OpensAgain`; `short` keeps
which attempts ask for less than the invoice owes since a reversal). Days: a planned
attempt's day comes at any time (`DayComes`). Reasons of a failure are those
`isChargedAgain` tells apart. Chains share only the payment method in use, so one
chain is modelled. An invoice that waits because no payment method, or no gateway
account, is usable changes only the audit, and is left out with it.

**Holds.** A hold on an attempt lasts a lease, and an instance can be stopped for
longer than one; the model therefore relies on no hold at all (`SettleOne` may be
done by two instances at once). Everything checked holds without it.

**Environment.** The set `Environment` says what may happen in a run of TLC:
instances stop, the gateway reports by itself, money arrives late, a reversal is
given back, the operator replaces or cancels the invoice, the subscriber replaces
the payment method, requests are lost.

### SubscriberLedger and SubscriberAccount

Every report - a payment, a refund, its failure, a payout, a reversal, one given
back, a cancellation with or without a replacement - is one transaction that takes
the chain's turn first, so each is one action, from the books before to the books
after. What such a transaction does is long: it reverses a payment's parts in an
order, takes its credits, has credits of other payments cover what would open,
lifts covers others had lent. The operators follow that order (`Withdrawn`,
`LiftsOf`, `CoverLifted`, ...), each from books to books. Amounts are whole
cents. One chain of one subscriber is modelled, so a credit can cover no invoice
outside it.

`SubscriberAccount` forgets the rows: it keeps what was collected, paid out,
withdrawn and given back in all, and where it stands (settled, owed back, to
reconcile), and says which way each kind of report may move it and that the two
sides balance. `KeepsTheAccount` is the refinement: `SubscriberAccount` with
`AccountOf(books)` in place of its account. It is what no test of single reports
reaches: that no sequence of them makes or loses a cent.

Left out: which invoices a payment or reversal opened (`markWhatOpened`, that is
the collection's), currencies, a report about a payment not recorded yet, whether a
case is open or reconciled.

### SubscriptionContracts

Contracts of a tenant are frozen by a change of the plan or a bundle, by a copy
that records reductions or refreshes a contract, and at the conclusion of an offer;
they are ended by a cancellation or an ending at once. Each of these reads the
subscription and the contract in force, and writes later: every `await` is a step,
`contractVars` being the rows and `calls` what each caller carries. `Never` stands
for no end; it is later than every moment. `clock` is the day contracts begin and
end by. The write of a successor replaces what it read only where the row is as
read (`AsRead`), and starts over otherwise, `AttemptsOf` times.

What a cancellation makes of a contract's status is decided where it finds the
contract (`over`) and written where it ends it.

`overtaken` remembers that a first contract was written although another caller
had written one since it looked; `NoneBeside` excepts it, as nothing in the code or
in SC-MKT-028 forbids it.

Left out: the full re-freeze of a refresh, the operator's own `terminate`, stops
between two steps, and withdrawing without a transaction runner.

### PromoSlots

A start of a checkout reads the offer and the code, extends a hold it finds or
takes a slot, releases what another code held, reads the offer again and gives the
slot up where it moved on, then opens the form; beside it the offer's code is
changed, offers are concluded (a hold becomes a redemption), redemptions reversed,
codes paused, and holds that ran out expired by the sweep or a preview. Every
statement and every `await` is a step (`starts[s].place`, `changing`). A hold is
given back by whoever deletes its row, and only then is the count lowered. An update
of an offer reads it, prices it and writes it: it may have read any code the offer
has carried (`carried`), and gives the slot back only where the code it writes is
not the one it read. `form` and `begun` are history: until when a form can be
confirmed, and when the last start began.

Left out: creating, changing and deleting a code, and the rules about who may
redeem it. Also seen in the code and not claimed about: a start that releases the
other code's hold does so whatever form it belongs to (`promo.service.ts`, around
line 510), so after a change of the code it can release the hold of another start's
form; a change of the offer's code can drop the new code's hold taken meanwhile; a
start refused in its second round leaves a hold of the replaced code until it lapses.

### EntitlementCache

One process. A request takes the two generations, reads four tables in turn and
writes what it computed only where the generations are still the same; a mutation
writes its rows first and is told to the cache later (`untold`). Rows are a
version and the dates on which what they grant changes by itself. An answer is kept
for `TimeToLive` or until the first of its `watched` dates: a cancellation, the end
of a booking, a withdrawal's start or lifting. The `unwatched` ones cap nothing: the
day a booked plan change takes effect, and the bounds of a contract's window
(section 5). Which entry is dropped when the
cache is full is left open, so the least recently used one is among them.

Left out: several processes (each has a cache of its own and learns of the others'
changes by the time to live only, as the comments say); the catalog and the plan
versions on sale, which an answer is computed from too and which are taken as they
are: a publication tells no cache, so an answer lives on past it for up to the time to
live; a catalog handed in by the caller; tenants without a subscription; enforcing a
limit.

### MaintenanceWindow

The window is a row any process may write; a process answers requests from what it
remembers (`known`) for `MaxAge`, and asks again then. A question, like a write, is
sent, done by the database and answered, in three steps, so answers overtake each
other; an answer is dated from when it was asked for. `line` lists, per process,
the askers in the order they asked and not overtaken yet, and stands for the order
numbers in the code. `adrift` is one write whose sender stopped or lost the
connection: the database may still do it. `since` is history: when what holds now
began. Left out: the window's times and message. Rescheduling to the times it has,
or locking with another window's id, is refused or not by data the model does not
keep, so how such an operation ends is a free choice.

What is checked rests on what the command `maintenance on` does: it returns MaxAge after
the lock is written. Requests decided while the database cannot be read go by what
was known before, whatever its age; that is the documented exception, and no
property claims otherwise. A read asked after the write was sent and done before it
may, on that one process, still undo the lock it knew of, within MaxAge; no
requirement says more.

### NoticeSender

A call of `tell` is a member of `Tells`; where it is (`at`), the moment it claims
with (`takenAt`), and whether its notice reached the subscriber (`sent`, which the
code learns only by the answer) are kept beside the row's `claimed_at` and
delivery. The claim's moment is read before the claim is made and is all that
tells one claim from another. An answer may be late by any time, may come after
the claim went stale, and a write may fail with or without effect
(`ClaimThrows`, `Stops`). Assumed: one clock for all instances (they are compared
in one database column); the application's port answers truthfully, so what it
reports as not sent is not sent.

Two calls that read the same millisecond share a claim's moment. The model has
that case, and the properties hold in it: the second claim finds the first one
fresh.

### ArchivedFile

One subject's file (an invoice's document or a contract's confirmation) and any
number of workers, each of which archives, hands out or mails it, again and again.
A renderer may be updated while runs go on, and several instances of different
versions may run, so each rendering is any member of `Files`. A run records the
checksum, stores the file, and confirms it; the record follows the archive where
that already keeps a file. `decayed` says the archive's medium failed. `received`
is history: everything that was ever mailed or handed out.

The claims are those of the notices: `MailedAsTold` is `NoticeSender` with a worker
as a call that tells, from the moment it takes the file on. As there, the mail
answers truthfully whether it went out.

Left out: what is rendered and checked, the audit entries, which address is mailed
to, and the pages the runs list subjects in.

### MCComponents

Six components that share no state are checked in one run: `moving` says which one
takes steps in a behaviour, and the others stay in one of their first states. The
states are then those of each component, added up and not multiplied. Callers,
starts, askers and workers are one symmetric set, the tenants another; of the promo
codes, which are alike, both offers carry the first and have carried both.

### MCTwoInstances

Two instances beside everything the gateway may report and every cancellation are
more states than a run can hold. `OneCourse`, an action constraint, bounds them: of an
invoice only the first attempt may succeed late after it failed; one that is attempted
a second time, or of which a report overtook an instance or its request, is not
cancelled; and once one was cancelled the payment method stays, nothing is reported
and nothing succeeds late. What is left out is in the proofs of
`InvoiceCollectionProofs`, which know no bound.

## 3. Runs

| Run | Question | Bounds |
|---|---|---|
| `IC_instances` | Two instances and the gateway's reports in any order, or cancellations with and without a replacement: is one attempt of the chain open, nothing asked for twice at once, a payment booked exactly where money was collected, and a settled attempt left settled? | 2 instances, 2 payment methods; 2 attempts of one invoice, or 1 each of 2 invoices of a chain; no reversal |
| `IC_told` | Is what the subscriber was told told before the attempt is done with, and kept; does a stop anywhere drop an invoice that owes? | 1 instance that may stop anywhere, 3 attempts, 2 payment methods of which one is a direct debit, 1 reversal |
| `IC_settles` | Is an invoice paid at last, or waiting for a payment method the subscriber was told to replace, while requests are lost? | fair; 4 attempts: with two payment methods, each charged at most twice, no more are ever made |
| `IC_asked` | Does the outcome of every request become known, and is every failure and reversal followed up and told, though money arrives late, is reversed and given back? | fair; 2 attempts with one payment method are all that are made, so up to 2 payments; 1 reversal, of all or a part |
| `SL_books` | Do the parts of a payment come to its amount, is nobody given back more than was paid, do two reversals end alike in either order, and does the ledger keep the account? | payments of 2 cents, reported returns of 1 or 2, invoices of -1, 1 or 2 cents, 2 invoices, 5 rows in all, 1 cent paid out |
| `CO_side_by_side`, notices | Is a notice taken on again only once every claim under which it may have been sent is stale, and is what was recorded left alone? | 3 calls, a lease of 1, a clock to 3 |
| contracts | Does one contract run at a time, and one to the end, whatever changes, copies, offers and ends overtake each other? | 2 callers, up to 3 contracts, none or one at first, moments to 3 |
| slots | Are slots counted right, never oversold, and kept by a form that can still be confirmed unless a start began shortly before its end? | 2 codes of 1 slot, 2 offers with the same code at first, 2 starters of one of them, again and again, 1 change of its code or of a code; opening takes 1, a form 2, starts at 0 and 1 |
| entitlements | Is an answer the cache gives what one computed now would grant, but for a date nothing watches? | 2 tenants, 2 requests, 1 change, dates to 1, 1 entry |
| maintenance | Is no request let through `MaxAge` after a lock, and does a lock end by its own unlock? | 1 process, 1 operator and 1 write whose sender is gone, 2 windows |
| files | Is the file archived the one the record names and the only one anybody receives, and is it mailed as a notice is told? | 2 workers, 3 files of which one is refused, a lease of 1, a clock to 3 |

Why these bounds are enough to be interesting: two instances are what a race
needs, and every conflict of the code is between two writers of one row; two
attempts give "the next attempt, planned from an older read", three the retry
after a retry with the other payment method; one replaced invoice gives a chain in
which an older attempt is still out. That both a reversal and a replacement happen
beside two instances is in the proof of `OneOpenAlways` only. In the ledger, a payment of two cents beside
invoices of one and two leaves credits that cover, five rows let two payments, a
reversal of each and what is given back meet. One slot is the last slot. Three
contracts are two successors of one. A write whose sender is gone stands for a
second operator. `CHECK_DEADLOCK FALSE` stands in each cfg because the systems may
rest: a chain that is paid, calls that ended.

Larger instances were run once by hand and found nothing: notices with a clock to 4
(390,904 distinct states); maintenance with two operators and one window (4.5 million), and with `MaxAge` and
the clock at 2 (629,758); files with three workers and a clock to 4 (491,526);
entitlements with dates to 2 (401,191), where an answer's time to live runs out, which
with dates to 1 it does not; slots with the other offer on either code (835,635);
`IC_instances` with a second attempt succeeding late and the method replaced after an
invoice was (1,125,080). With
one change of an offer's code, a start that loses three times and gives up is not
reached; with one operator, neither is an operation whose second attempt is lost as
well.

Six further runs each find a disagreement (section 5).

**Fairness.** `FairSpec` assumes what `collectDue` gives: an instance goes through
all of a list whatever becomes of one item (`eachPage` catches what an item
throws), and starts again a quarter of an hour later; so of what is listed again
and again something is taken up (strong fairness per list), and a handler that was
begun is carried through (weak fairness of `Proceeds`). Of the gateway: of the
requests sent again and again one arrives, and is answered in time once; a pending
charge is settled. Nothing is assumed of its reports, of the operator or of the
subscriber, and stops are left to the safety runs. Of the other modules no
liveness is checked: their clocks are bounded, so a claim, a hold or a window at the
bound stays as it is.

## 4. Theorems

For any number of instances, invoices, attempts, payment methods, calls, codes,
offers, tenants, requests, processes, operators, workers and files, any lease, age,
limit and bound of a clock, and any amounts, totals and rows of the ledger. Assumed
are only the named assumptions on the constants: `CollectionAssumption`
(invoices, attempts and payment methods are counted from one without a gap),
`LedgerAssumption` (amounts are whole cents, none is collected or returned in less
than one; a total may be negative), `NoticeAssumption`, `PromoAssumption`,
`ContractsAssumption`, `EntitlementAssumption`, `MaintenanceAssumption` and
`FilesAssumption` (durations and bounds are numbers of their kind, offers and tenants
are finitely many, and what stands for "none" is none of the rest).

| Module | Theorems |
|---|---|
| `InvoiceCollectionProofs` | `TypeCorrect`, `OneOpenAlways`, `BookedAsCollectedAlways`, `SettledStaysAlways`, `NoSecondRequestInDoubtAlways`, `FailureIsToldAlways`, `AnnouncedAfterToldAlways`, `ToldReplaceIsReplacedAlways`, `NeverForgottenAlways` |
| `SubscriberLedgerProofs` | `Invariance`, `TypeCorrect`, `NothingBeyondAlways`, `PartsComeToTheAmountAlways`, `KeepsTheAccountAlways` (a refinement) |
| `SubscriptionContractsProofs` | `ContractsTypes`, `OneAtATime`, `UnderContractToTheEnd` |
| `PromoSlotsProofs` | `PromoTypes`, `CountsAreRight`, `NoneOversold`, `FormsKeepTheirSlots` |
| `EntitlementCacheProofs` | `EntitlementTypes`, `AnswersAreCurrent` |
| `MaintenanceWindowProofs` | `MaintenanceTypes`, `KnowledgeIsInTime`, `RequestsAreLetThroughInTime`, `LocksEndByTheirUnlock` |
| `NoticeSenderProofs` | `NoticeTypeCorrect`, `TakenOnOnceStaleAlways`, `RecordedOnceReachedAlways`, `RecordedOnceAlways` |
| `ArchivedFileProofs` | `FileTypes`, `OneFile`, `MailIsANotice` (a refinement) |

*Type correctness* of the collection needs that what an instance carries is a
legal item for where it is, since an action writes what it carries into the tables:
`JobsOK` and `Carries` say so per place.

*One open attempt* is not inductive by itself. A replacement starts its first
attempt when nothing of the chain is *out*; what keeps a planned attempt of the
invoice before from being submitted afterwards is that a planned attempt always
belongs to the invoice that stands (`PlannedStands`): cancelling withdraws what was
planned, and planning asks in the same transaction whether the invoice owes. With
it each action is a short argument.

*Booked as collected* needs that an instance about to record a success carries an
attempt the gateway did collect (`RecordsAsCollected`): the answer was read from
the gateway, and money collected is never uncollected.

*A settled attempt stays settled* follows from what may become of an attempt in one
step (`Lives`), and that a run writes one only for the invoice that stands, as its
first or after its last (`Opens`). All that follows rests on these, and on one lemma
of what a run goes on with (`RunFollows`): each step of an instance reads the row it
decides from in that step, keeps what it read before, or is over.

*No second request in doubt* (`Sending`): what the gateway was asked for, or may be,
was sent (`AskedIsSent`, `RunsSend`), and what is settled is known to the gateway or
was given up as not sent (`SettledIsKnown`), which is only done on an answer that it
holds nothing under the attempt's key.

*A failure is told* (`Telling`): what is marked as followed up is settled and told,
or excused: its invoice owes nothing, or a reversal of the chain takes its place
(`Excused`). A run that is about to mark an attempt must find it excused already
(`RunsFollowUp`), although others cancel, report and reverse between its steps; that
holds because an excuse is never taken back while the failure stands.

*Announced after told* (`Announcing`): an attempt is planned only after all before it
are settled (`BeforeIsDone`), and announced only where their failures' notices were
delivered, which they stay.

*Told to replace is replaced* (`Replacing`). What makes the notice true is that a
payment method is tried again only once, and only for a reason that can pass
(`ReplaceIsFinal`, `RunsPlan`, `RunsRetry`); payment methods are replaced by later
ones (`MethodsAscend`), so an attempt planned with the one in use was not planned
with one the subscriber replaced since.

*Never forgotten* (`Keeping`): of the attempts of an invoice one is the last
(`HasLast`); before a reversal no payment leaves its invoice owing, and what was
withdrawn of one that owes was planned with another payment method than the one in
use (`OwingIsOpen`); and where a failure's notice says a retry follows, one is planned
(`AgainIsPlanned`, `RunsTellPlanned`). So wherever an instance stops, the last attempt
is open, or its failure not followed up, or the invoice due with another payment
method: in one of the lists.

The last two are claimed *until a payment is reversed* (`reversals = 0`): beyond that
both are false in general, as consequences of the disagreements of section 5. A retry
decided from a failure that had succeeded late and was reversed before it is planned
is made with the payment method told to be replaced; an attempt withdrawn after one
was reversed may leave nothing that lists the invoice, and so may a payment that is
reversed a second time. `IC_told` checks both with one reversal, of what succeeded at
once.

*The ledger* (`IInv`): its operators fold over rows, so the proofs start from what a
sum of a sequence comes to (`SumOfAdds`, `SumOfChanged`, `SumOfOrdered`) and what
`Dealt` deals (`DealtTakes`: no part beyond its cap, and all of the amount or all of
the caps), by induction on the length. Since a recursive function is proved about
through the set of numbers a fact holds of (`Inductive`), no induction theorem over
operators is needed. Each operator from books to books has a lemma that says what it
writes (`EnteredIs`, `OpenedIs`, `SaidIs`, ...) and one that says what it keeps. The
invariant is that the books are *kept* (`Kept`: rows name rows that exist; a credit
has one entry for each that took of it, none of them negative and together no more
than the credit is of; no invoice is settled beyond its total, by less than nothing
or before there is one) and *fitting* (`Fitting`: the parts of each reversal come to
what it withdrew and was not given back). `NothingBeyond` and `PartsComeToTheAmount`
follow from it; neither is inductive alone, for a withdrawal divides by what the
entries and the settlements say.

The hard step is a withdrawal that lifts covers. It takes of its own credits also
what the covers still hold of them, so for a while those credits pay out more than
they are of; and a cover that returns leaves the reversal it covered short, until
that has taken as much elsewhere. `Sound(b, lifting)` therefore says how much of each
credit is still to be lifted, and `AllFit(b, r, short)` what one reversal is short of;
the lifts of one credit (`LiftedOf`) and of all (`Lifted`) are followed in their order,
and at the end nothing is left to lift and nobody is short. That a later lift finds
the covers as they were when all were planned needs that a reversal taking again
never gives anything back to a credit (`NotLess`, `OthersNotLess`).

*The ledger keeps the account*: the amounts of `AccountOf` are sums over the tables,
which in kept books are those of `WholeAccount` (`AccountIs`: what is open on a credit
is its amount less what was taken, since no credit pays out more than it is of). For
each operator a lemma says by how much it `Shifts` them, a withdrawal and what is
given back part by part beside the proof that they keep the books; each action's
lemma then proves two things of the step, `IInv'` and `Accounted`: where the two sides
of the account balance, the account makes the step named by a lemma of the action
(`PaymentAccounts`, `ReportAccounts`, ...) or none. One more invariant is needed
(`Tallying`): a refund that failed returns what it took of credits and covers what it
left in cases, and only if the two come to what it is of (`RefundsFit`) is that what
was paid out of it. `Accounts` gives `RefundsFit` and the balance again, so the theorem
follows for every step from `IInv` and `Tallying`.

*The contracts* (`ContractsInv`): that one runs at a time (`OneRuns`) needs what the
callers saw. A caller that writes a successor writes only where the contract it read
stands as it was; one that writes a first contract saw none (`CallsSawNone`), or is
`overtaken`, and writes it for a moment no contract that is not closed ends before
(`CallsOutlasted`). That the tenant is under contract to the end (`Governed`) needs
that every contract not closed runs at least until the subscription's end (`RunOn`),
and that what a caller ends a contract for, or composed one from, is no earlier than
that end, which is only ever brought forward (`CallsFit`).

*The slots* (`SlotInv`): counts are right because each row is deleted, or inserted,
by the one step that changes the count (`Sound`); an offer that is open was not redeemed
(`OpenUnredeemed`), so concluding it turns one hold into one redemption; and a start
remembers a code it was there for (`StartsKnow`).

*A form keeps its slot unless a start began late* (`KeepInv`), for any starts at any
moments. As long as an offer's code was never changed, its hold is of that code or of
none and nobody drops it (`OfferFits`), a start acts on that code, and what it took
for its form stays until it says so (`StartFits`). Only a failing start could give it
back (`HoldBecomes`), and only if the hold ended with that start's own opening time
(`KeptStays`): no earlier than the form's end, but then the start, and so the offer's
last one (`begun`), began within the opening time before it. What is lost there is
section 5's `PS_form_slot`.

*The entitlements* (`CacheInv`): while nothing is untold and no generation moved
since a request began, each table it has read is as it is now (`ReadIsCurrent`);
an answer kept was written under that condition (`KeptAreCurrent`), and only until
the first watched date that was to come when it began, or for the time to live
(`KeptToTheFirstDate`). So what was computed then differs from what one would compute
now only by a date nothing watches, and by that for less than the time to live.

*The lock* (`MaintenanceInv`): any answer - known, waiting in a read or found by an
operation - that differs from what holds now was asked for before what holds began
(`KnownFits`, `ReadingFits`, `OperationsFit`, `WriteFits`). As answers are dated
from the question, they run out in time.

*The notice* rests on four facts beside its types: claims are stamped in the past
(`TakenInThePast`), nothing is sent before the claim or by a call that failed
(`SentWhileHeld`), a call in hand holds the row unless its claim is stale or the
notice is recorded (`HoldsItsClaim`), and of two calls in hand that claimed in the
same moment, neither lets go of the other's fresh claim (`OneFreshClaim`). A row that
can be claimed then belongs to no call in hand with a fresh claim
(`ClaimableOnceStale`), which is the theorem. Settling a late answer keeps all four,
which is why the code may do it after its claim was taken over.

*The file* (`FileInv`): the archive keeps the first file it is given, so what a run
is about to confirm, or mails, is what the archive keeps (`InHand`); the record may
follow another only while nothing is archived, so once it is, it names that file
(`ArchivedAsRecorded`). *Its mail* is shown to be a notice step by step
(`QuietWhileNobodyMails`, `MailsAsTold`): a claim needs the file archived, which it
stays (`MailedOnceArchived`). What is proved of notices therefore holds of mails.

Only model-checked: the order in which a reversal takes (`CoveredFirst`), not proved yet;
`EndAlike`, which compares two orders of two withdrawals. Out of the prover's reach
altogether: liveness under fairness and `ENABLED`.

## 5. Disagreements with the documentation

Each is a run with one property that TLC violates; the trace is the scenario.

* `IC_another_method`. A replacement that what was paid covers is issued without a
  payment method (`core/subscription-invoice-correction.ts:201`). When that payment
  is reversed, the replacement owes, but `listDue` asks for an announced payment
  method and `listCollectableAgain` for an attempt of the invoice itself. No run
  collects it, though the notice of the reversal says it is collected with the
  payment method in use, and SC-PRIC-085 does.
* `IC_reversed_method`. A retry is decided from a failure that was read; before it
  is planned, callbacks record that the money arrived after all and was reversed.
  Planning asks for reversals of the *other* invoices of the chain only, so the
  retry goes out with the payment method that was reversed, against SC-PRIC-036 and
  SC-PRIC-085.
* `IC_reversal_told`. Following a failure up ends by marking the attempt, whatever
  it is by then; a reversal recorded meanwhile had just opened it again, and is
  marked with it. It is then never told, though SC-PRIC-085 says it is, once.
* `SL_own_credit_first`. A reversal that took the credit its payment left is given
  back, and the credit is open again; the reversal's `fromCredit` is not reduced by
  that. The next reversal of the payment counts it as taken for good and opens the
  invoice instead, against SC-PRIC-084.
* `SC_ends_with_subscription`. A change of the plan composed its contract from the
  subscription as it was, without an end; a cancellation is recorded and looks for
  the contract in force on its day; the change replaces that one; ending the closed
  contract is refused. The successor has no end, against the comments at
  `subscription-contract-freeze.service.ts:115` and
  `tenant-subscription-bundles.controller.ts:698`. Requesting the cancellation again
  would end it.

* `PS_form_slot`. A start that begins within `OpeningTime`, ten minutes, before the
  end of an earlier form holds its slot, while its own form opens, to no earlier than
  the earlier form's end, so the hold is moved there (`promo.service.ts:506`). When the
  start then fails, the hold stands where it put it and is given back
  (`promo.service.ts:536`), while the earlier form can still be confirmed.
  `pending-registration.service.ts:270` says a slot a form of the sign-up holds stays
  with it whatever becomes of the start, for its end lies later than the minutes a
  start holds it; that is so of the start's own form, not of an earlier one;
  SC-PROMO-024 that a start never takes the slot from a form opened before. (At Stripe
  nobody can pay on the form by then; what comes is a confirmation that is still
  retried.) `KeptUnlessStartedLate` is what is left, checked and proved.

Three more were met while modelling and have no run of their own:

* A reversal that is given back and reported again is not told. `recordReversalIn`
  applies what is new of it (`drizzle-subscriber-reversal.ts:96`) and the invoice owes
  again, but the attempt is `REVERSED` already, and `markReversed` changes a reversible
  one only (`drizzle-invoice-collection.repository.ts:492`): followed up before, it
  stays followed up. If the first reversal was given back before it was followed up,
  nothing was told of it either, and nobody is ever told of the second, against
  SC-PRIC-085 (`09_pric/chapter.md:2020`: "A reversal that opens an invoice again is
  told to the subscriber at the invoice email, once"); where no other payment method
  is in use, no list of the run returns the invoice from then on, so `NeverForgotten`
  fails with it. It takes one instance, one invoice, one attempt with one payment
  method, `MaxReversals` 2 and `Environment` `{"gives back"}` to see
  `ReversalIsTold` violated, in twelve states. `IC_reversal_told` shows the same
  property violated by the shorter way.
* Two dates change an answer of the entitlements and cap none. A plan change booked for
  a day takes effect on it (`plan-resolution.ts:81`), and a contract counts within its
  window only (`entitlement.service.ts:473`); `computeLimits` hands neither to
  `firstAfter`, although the comment at `entitlement.service.ts:229` says "Every other
  thing that changes these limits is a mutation, and every mutation invalidates the
  entry". An answer computed before is given on after, for less than the time to live,
  a minute; the comment at line 143 accepts that of the plan change, and names no
  contract. These are the model's `unwatched` dates, and `AsComputedUnlessUnwatched`
  says that of the tenant's rows nothing else, and no longer, is answered wrongly. (A
  publication in the catalog caps and invalidates nothing either; the model leaves the
  catalog out, section 2.)
* A due plan change that was listed is applied with a guard on the cancellation only
  (`pending-plan-materialization.service.ts:96`); one replaced or applied meanwhile is
  applied as it was listed.

## 6. What is not modelled, and what is next

Not modelled, and to be modelled in this order:

1. `PaymentCallback`: the event log, repeats, and the steps after the commit.
2. `PendingChange`: changes listed, withdrawn, replaced and applied.
3. `Registration`: pending registrations, attempts per one-time code, resends.
4. `Charges`, invoice numbers, and the retirement and switching of versions.
5. `SubscriberLedger` composed with `InvoiceCollection`, whose `owing`,
   `StillOwingAfter`, `OpensAgain` and `Live` become the ledger's own; several
   chains of one subscriber.
6. Proofs: `CoveredFirst`, from what a withdrawal takes of each credit.

Enforcing a limit is one transaction behind a row lock; a model of it would show
only the lock it assumes.

Not planned: catalog, discovery, settings, administration, tax, e-invoices,
adapters, user interfaces and command line. They edit rows one operator at a time,
compute on data, or wire the rest together; the second adapter is held to the first
by the shared persistence tests.
