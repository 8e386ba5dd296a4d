----------------------- MODULE SubscriptionContracts -----------------------
(***************************************************************************)
(* The contracts a tenant is under, one after the other, and the day the    *)
(* subscription ends.  A change writes the successor of the contract in     *)
(* force; an operator's refresh and the record of withdrawn features copy   *)
(* it; a checkout offer concludes a first one; a cancellation, or an end at *)
(* once, is written to the subscription and then ends the contract.         *)
(*                                                                          *)
(* A member of Callers makes one call after the other, and every await of a *)
(* call is a step of its own: what it read may be stale when it is used.    *)
(* The two writes of a successor are one, for they share a transaction.     *)
(* Never is the missing date of the tables, and later than every moment.    *)
(***************************************************************************)
EXTENDS Integers, Sequences, FiniteSets

CONSTANTS
    Callers,        \* who calls: requests, runs and operators
    BeginsUnder,    \* how many contracts the tenant is under at first: 0, 1 or either
    MaxContracts,   \* bound on the contracts
    LastMoment      \* bound on the clock, and on the day a cancellation lands

ASSUME ContractsAssumption ==
    /\ BeginsUnder \subseteq {0, 1}
    /\ MaxContracts \in Nat
    /\ LastMoment \in Nat \ {0}

VARIABLES
    clock,
    endsAt,         \* the subscription: when its cancellation lands, or Never
    contracts,      \* the contracts, in the order they were created
    calls,          \* what each caller is at
    overtaken       \* history: a first contract was written after another, unseen

contractVars == <<clock, endsAt, contracts, calls, overtaken>>

Never == LastMoment + 1

Moments == 0 .. LastMoment

ChangeKinds == {"change", "reductions", "refresh"}

Kinds == ChangeKinds \union {"offer", "cancellation", "end at once", "repair"}

NoCall == [kind |-> "change", place |-> "idle", at |-> 0, ends |-> Never,
           previous |-> 0, until |-> Never, tried |-> 0, seen |-> 0, over |-> FALSE]

\* The moments, the contracts and the calls are of their kinds.
ContractsTypeOK ==
    /\ clock \in Moments
    /\ endsAt \in Moments \union {Never}
    /\ contracts \in Seq([from : Moments, until : Moments \union {Never},
                          status : {"active", "superseded", "terminated"}])
    /\ calls \in [Callers -> [kind : Kinds,
                              place : {"idle", "checking", "finding", "writing", "none found",
                                       "declaring", "ending", "reading", "capping"},
                              at : Moments, ends : Moments \union {Never},
                              previous : Nat, until : Moments \union {Never}, tried : 0 .. 1,
                              seen : Nat, over : BOOLEAN]]
    /\ overtaken \in BOOLEAN

ContractsInit ==
    /\ clock = 1
    /\ endsAt = Never
    /\ contracts \in {[k \in 1 .. n |-> [from |-> 0, until |-> Never, status |-> "active"]] :
                        n \in BeginsUnder}
    /\ calls = [c \in Callers |-> NoCall]
    /\ overtaken = FALSE

\* None was found; `seen` is history: how many contracts there were.
NoneFound(c) == calls' = [calls EXCEPT ![c].place = "none found", ![c].seen = Len(contracts)]

CallGoes(c, place) == calls' = [calls EXCEPT ![c].place = place]

\* The call is over, whatever it answers.
Over(c) == calls' = [calls EXCEPT ![c] = NoCall]

-----------------------------------------------------------------------------
(* The contracts *)

Runs(contract, moment) == contract.status = "active" /\ contract.until > moment

InForce(contract, moment) == Runs(contract, moment) /\ contract.from <= moment

AllInForce(moment) == {k \in DOMAIN contracts : InForce(contracts[k], moment)}

\* findActiveByTenantId: of those in force, the one that began last; 0 where none is.
IsFoundAt(k, moment) ==
    \/ k = 0 /\ AllInForce(moment) = {}
    \/ /\ k \in AllInForce(moment)
       /\ \A j \in AllInForce(moment) :
            \/ contracts[j].from < contracts[k].from
            \/ contracts[j].from = contracts[k].from /\ j <= k

\* A contract of the tenant is in force at the moment, or begins after it.
RunsFrom(moment) == \E k \in DOMAIN contracts : Runs(contracts[k], moment)

\* Not closed, and begun before it is to end.
Terminable(contract, moment) == contract.status = "active" /\ moment > contract.from

\* Mutant: whatever became of the contract since it was read.
AsReadWhatever(call) == TRUE

\* Still not closed, and still to end when it was to end as it was read.
AsRead(call) ==
    /\ contracts[call.previous].status = "active"
    /\ contracts[call.previous].until = call.until

NewContract(from, until) == [from |-> from, until |-> until, status |-> "active"]

-----------------------------------------------------------------------------
(* A successor *)

IsWriter(call) == call.kind \in ChangeKinds \union {"offer"} /\ call.place # "idle"

HasRoom == Len(contracts) + Cardinality({c \in Callers : IsWriter(calls[c])}) < MaxContracts

Begins(c, kind, place, ends) ==
    /\ calls[c].place = "idle"
    /\ calls' = [calls EXCEPT ![c] =
                    [NoCall EXCEPT !.kind = kind, !.place = place, !.at = clock, !.ends = ends]]
    /\ UNCHANGED <<clock, endsAt, contracts, overtaken>>

\* A change made to the subscription as it was read: nothing is frozen once the
\* subscription is over.
BeginChange(c) == HasRoom /\ endsAt > clock /\ Begins(c, "change", "finding", endsAt)

BeginReductions(c) == HasRoom /\ Begins(c, "reductions", "finding", Never)

BeginRefresh(c) == HasRoom /\ Begins(c, "refresh", "finding", Never)

\* Mutant: it is read once more.
AttemptsOfOneMore(kind) == IF kind = "refresh" THEN 2 ELSE 3

\* How often the contract in force is read.
AttemptsOf(kind) == IF kind = "refresh" THEN 1 ELSE 2

\* Where none is in force a change writes a first one, and a copy copies nothing.
FindPrevious(c) ==
    /\ calls[c].place = "finding"
    /\ \E found \in 0 .. Len(contracts) :
        /\ IsFoundAt(found, calls[c].at)
        /\ \/ found = 0 /\ calls[c].kind # "change" /\ Over(c)
           \/ /\ found # 0 \/ calls[c].kind = "change"
              /\ calls' = [calls EXCEPT ![c].place = "writing", ![c].previous = found,
                                        ![c].until = IF found = 0 THEN Never
                                                     ELSE contracts[found].until]
    /\ UNCHANGED <<clock, endsAt, contracts, overtaken>>

\* It moved meanwhile: it is read again, or the call answers that it changed.
MovedOn(c) ==
    IF calls[c].tried + 1 < AttemptsOf(calls[c].kind)
    THEN calls' = [calls EXCEPT ![c].place = "finding", ![c].tried = @ + 1]
    ELSE Over(c)

\* A change's contract ends with the subscription it was composed from, a copy
\* when the contract it copies does.
UntilOf(call) == IF call.kind = "change" THEN call.ends ELSE call.until

\* The contract that was in force ends, and its successor begins.
Succeeds(c, k) ==
    contracts' = Append([contracts EXCEPT ![k].until = calls[c].at, ![k].status = "superseded"],
                        NewContract(calls[c].at, UntilOf(calls[c])))

WriteSuccessor(c) ==
    LET k == calls[c].previous
    IN /\ calls[c].place = "writing" /\ calls[c].kind # "offer" /\ k # 0
       /\ IF calls[c].at <= contracts[k].from THEN Over(c) /\ UNCHANGED contracts
          ELSE IF AsRead(calls[c]) THEN Succeeds(c, k) /\ Over(c)
          ELSE MovedOn(c) /\ UNCHANGED contracts
       /\ UNCHANGED <<clock, endsAt, overtaken>>

\* With none to succeed, the tenant's contracts are looked through before the
\* first one is written.
LookForOthers(c) ==
    /\ calls[c].place = "writing" /\ calls[c].kind # "offer" /\ calls[c].previous = 0
    /\ IF RunsFrom(calls[c].at) THEN MovedOn(c) ELSE NoneFound(c)
    /\ UNCHANGED <<clock, endsAt, contracts, overtaken>>

WriteFirst(c) ==
    /\ calls[c].place = "none found"
    /\ contracts' = Append(contracts, NewContract(calls[c].at, UntilOf(calls[c])))
    /\ overtaken' = (overtaken \/ Len(contracts) > calls[c].seen)
    /\ Over(c)
    /\ UNCHANGED <<clock, endsAt>>

\* An offer concludes a first contract, of a subscription that is not cancelled.
BeginOffer(c) == HasRoom /\ endsAt = Never /\ Begins(c, "offer", "checking", Never)

\* assertFirstContract: before the offer is consumed, and again in its transaction.
AssertFirst(c) ==
    /\ calls[c].kind = "offer"
    /\ \/ calls[c].place = "checking" /\ ~RunsFrom(calls[c].at) /\ CallGoes(c, "writing")
       \/ calls[c].place = "writing" /\ ~RunsFrom(calls[c].at) /\ NoneFound(c)
       \/ calls[c].place \in {"checking", "writing"} /\ RunsFrom(calls[c].at) /\ Over(c)
    /\ UNCHANGED <<clock, endsAt, contracts, overtaken>>

-----------------------------------------------------------------------------
(* The end *)

\* A cancellation is declared once, for the day the rules name; where one is, the
\* contract is ended again on its day.
DeclareCancellation(c) ==
    IF endsAt = Never
    THEN \E day \in clock .. LastMoment : Begins(c, "cancellation", "declaring", day)
    ELSE Begins(c, "repair", "ending", endsAt)

\* cancelSubscription: only while no cancellation is stored.
ClaimCancellation(c) ==
    /\ calls[c].place = "declaring" /\ calls[c].kind = "cancellation"
    /\ IF endsAt = Never THEN endsAt' = calls[c].ends /\ CallGoes(c, "ending")
       ELSE UNCHANGED endsAt /\ Over(c)
    /\ UNCHANGED <<clock, contracts, overtaken>>

\* An operator ends now what has not ended, with the declared end as it was read.
BeginEndAtOnce(c) == endsAt > clock /\ Begins(c, "end at once", "declaring", endsAt)

\* Only while the end is the one that was read; one at the same moment is as good.
EndSubscription(c) ==
    LET at == calls[c].at
    IN /\ calls[c].place = "declaring" /\ calls[c].kind = "end at once"
       /\ IF endsAt \in {calls[c].ends, at}
          THEN /\ endsAt' = at
               /\ calls' = [calls EXCEPT ![c].place = "ending", ![c].ends = at]
          ELSE UNCHANGED endsAt /\ Over(c)
       /\ UNCHANGED <<clock, contracts, overtaken>>

\* endOnCancellation: the contract in force on that day.  Whether that day is over is
\* judged then, and not again.
FindEnding(c) ==
    /\ calls[c].place = "ending"
    /\ \E found \in 0 .. Len(contracts) :
        /\ IsFoundAt(found, calls[c].ends)
        /\ \/ found = 0 /\ Over(c)
           \/ /\ found # 0
              /\ calls' = [calls EXCEPT ![c].place = "reading", ![c].previous = found,
                                        ![c].over = calls[c].ends <= clock]
    /\ UNCHANGED <<clock, endsAt, contracts, overtaken>>

\* terminate reads it again, and refuses one that is closed.
AssertTerminable(c) ==
    /\ calls[c].place = "reading"
    /\ IF Terminable(contracts[calls[c].previous], calls[c].ends) THEN CallGoes(c, "capping") ELSE Over(c)
    /\ UNCHANGED <<clock, endsAt, contracts, overtaken>>

\* Mutant: terminated at once, whenever it ends.
StatusOnceCappedAtOnce(status, over) == "terminated"

\* A contract that still ran when it was found keeps its status.
StatusOnceCapped(status, over) == IF over THEN "terminated" ELSE status

\* The write asks nothing of the row but its tenant.
Cap(c) ==
    LET k == calls[c].previous
    IN /\ calls[c].place = "capping"
       /\ contracts' = [contracts EXCEPT ![k].until = calls[c].ends,
                                         ![k].status = StatusOnceCapped(@, calls[c].over)]
       /\ Over(c)
       /\ UNCHANGED <<clock, endsAt, overtaken>>

-----------------------------------------------------------------------------
ClockTicks == clock < LastMoment /\ clock' = clock + 1 /\ UNCHANGED <<endsAt, contracts, calls, overtaken>>

ContractsNext ==
    \/ \E c \in Callers :
        \/ BeginChange(c) \/ BeginReductions(c) \/ BeginRefresh(c) \/ FindPrevious(c)
        \/ WriteSuccessor(c) \/ LookForOthers(c) \/ WriteFirst(c) \/ BeginOffer(c) \/ AssertFirst(c)
        \/ DeclareCancellation(c) \/ ClaimCancellation(c) \/ BeginEndAtOnce(c) \/ EndSubscription(c)
        \/ FindEnding(c) \/ AssertTerminable(c) \/ Cap(c)
    \/ ClockTicks

ContractsSpec == ContractsInit /\ [][ContractsNext]_contractVars

-----------------------------------------------------------------------------
Together(one, other) ==
    /\ one.status = "active" /\ other.status = "active"
    /\ one.from < other.until /\ other.from < one.until

\* No two contracts run at one time: a change, a refresh, reductions and the ends,
\* however they overtake each other, never leave a second one beside a first,
\* unless a first contract was written after another its writer had not seen
\* (SC-MKT-028).
NoneBeside ==
    ~overtaken => \A j, k \in DOMAIN contracts : Together(contracts[j], contracts[k]) => j = k

\* A tenant under contract is under one at every moment until the subscription
\* ends: no change that lost a race has ended the contract it did not succeed,
\* and no cancellation ends it before its day.
GovernedUntilTheEnd ==
    contracts # <<>> /\ clock < endsAt => AllInForce(clock) # {}

\* Once every call is over, a contract that began before the subscription ends
\* does not run beyond it (SubscriptionContractFreezeService.endOnCancellation).
EndsWithSubscription ==
    (\A c \in Callers : calls[c].place = "idle") =>
        \A k \in DOMAIN contracts :
            contracts[k].from < endsAt => ~Runs(contracts[k], endsAt)
=============================================================================
