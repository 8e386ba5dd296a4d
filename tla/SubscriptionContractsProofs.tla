-------------------- MODULE SubscriptionContractsProofs --------------------
(***************************************************************************)
(* What holds of SubscriptionContracts for any callers, any number of       *)
(* contracts and however long the clock runs.                               *)
(***************************************************************************)
EXTENDS SubscriptionContracts, SequenceTheorems, TLAPS

Contract == [from : Moments, until : Moments \union {Never},
             status : {"active", "superseded", "terminated"}]

Places == {"idle", "checking", "finding", "writing", "none found",
           "declaring", "ending", "reading", "capping"}

Call == [kind : Kinds, place : Places, at : Moments, ends : Moments \union {Never},
         previous : Nat, until : Moments \union {Never}, tried : 0 .. 1, seen : Nat,
         over : BOOLEAN]

IsActive(k) == contracts[k].status = "active"

\* A call that may write a first contract.
Composes(call) == call.kind \in {"change", "offer"} /\ call.place # "idle"

\* What a call carries is of contracts there are and of a moment that has come.
CallFits(call) ==
    /\ call.at <= clock
    /\ call.previous <= Len(contracts) /\ call.seen <= Len(contracts)
    /\ call.place \in {"reading", "capping"} => call.previous # 0
    /\ call.over => call.place \in {"reading", "capping"} /\ call.ends <= clock
    /\ call.place = "none found" => call.kind \in {"change", "offer"}
    /\ call.place = "writing" /\ call.previous = 0 => call.kind \in {"change", "offer"}
    /\ call.kind = "offer" => call.until = Never /\ call.place # "finding"

\* The subscription's end is only ever brought forward: what was composed from it,
\* and what it is ended for, is not earlier than it is.
EndsLate(call) ==
    /\ call.kind = "change" \/ call.place \in {"ending", "reading", "capping"} => call.ends >= endsAt
    /\ call.place = "declaring" /\ call.kind = "end at once" => call.at < call.ends

CallsFit == \A c \in Callers : CallFits(calls[c]) /\ EndsLate(calls[c])

\* No contract that is not closed ends before the subscription does.
RunOn == \A k \in DOMAIN contracts : IsActive(k) => contracts[k].until >= endsAt

\* One of them governs the tenant, and will until the subscription ends.
Governed ==
    contracts # <<>> /\ clock < endsAt =>
        \E k \in DOMAIN contracts :
            IsActive(k) /\ contracts[k].from <= clock /\ contracts[k].until >= endsAt

\* Nothing that is not closed, or that a change is to write, ends before a moment
\* for which a first contract may be written.
Outlasts(call) ==
    Composes(call) =>
        /\ \A k \in DOMAIN contracts : IsActive(k) => contracts[k].until > call.at
        /\ \A d \in Callers : calls[d].kind = "change" => calls[d].ends > call.at

CallsOutlasted == \A c \in Callers : Outlasts(calls[c])

\* A call that ends a contract and leaves it open.
LeavesOpen(call) == call.place \in {"reading", "capping"} /\ ~call.over

\* It ends it after every moment for which a first contract may be written.
EndsOutlast ==
    \A c, d \in Callers :
        LeavesOpen(calls[c]) /\ Composes(calls[d]) => calls[c].ends > calls[d].at

\* One contract at most is not closed.
OneRuns == ~overtaken => \A j, k \in DOMAIN contracts : IsActive(j) /\ IsActive(k) => j = k

\* A call that found none is right as long as none was written.
NoneSeen(call) ==
    call.place = "none found" /\ call.seen = Len(contracts) =>
        \A k \in DOMAIN contracts : ~IsActive(k)

CallsSawNone == \A c \in Callers : NoneSeen(calls[c])

ContractsInv ==
    ContractsTypeOK /\ CallsFit /\ RunOn /\ Governed /\ CallsOutlasted /\ EndsOutlast
    /\ OneRuns /\ CallsSawNone

-----------------------------------------------------------------------------
(* The rows.                                                               *)

LEMMA Typed ==
    ContractsTypeOK <=>
        /\ clock \in Moments /\ endsAt \in Moments \union {Never}
        /\ contracts \in Seq(Contract) /\ calls \in [Callers -> Call] /\ overtaken \in BOOLEAN
  BY Zenon DEF ContractsTypeOK, Contract, Call, Places

\* The moments are numbers, and none is later than Never.
LEMMA MomentsAreOrdered ==
    /\ LastMoment \in Nat /\ Never \in Nat
    /\ \A m \in Moments : m \in Nat /\ m < Never
    /\ \A m \in Moments \union {Never} : m \in Nat /\ m <= Never
  BY ContractsAssumption DEF Moments, Never

LEMMA ContractThere ==
    ASSUME ContractsTypeOK, NEW k \in Nat, k # 0, k <= Len(contracts)
    PROVE  k \in DOMAIN contracts
<1>1. DOMAIN contracts = 1 .. Len(contracts) /\ Len(contracts) \in Nat
  BY Typed, LenProperties
<1> QED
  BY <1>1

LEMMA NoCallIsOne ==
    ASSUME ContractsTypeOK
    PROVE  NoCall \in Call /\ CallFits(NoCall) /\ EndsLate(NoCall) /\ ~Composes(NoCall)
           /\ ~LeavesOpen(NoCall)
           /\ NoCall.kind = "change" /\ NoCall.ends = Never /\ NoCall.place = "idle"
<1>1. 0 \in Moments /\ Never \in Moments \union {Never}
  BY ContractsAssumption DEF Moments
<1>2. 0 \in 0 .. 1
  OBVIOUS
<1>3. NoCall \in Call
  BY <1>1, <1>2, Zenon DEF NoCall, Call, Kinds, ChangeKinds, Places
<1>4. clock \in Nat /\ Len(contracts) \in Nat /\ endsAt <= Never
  BY Typed, MomentsAreOrdered, LenProperties
<1>5. CallFits(NoCall) /\ EndsLate(NoCall)
  BY <1>4, MomentsAreOrdered DEF NoCall, CallFits, EndsLate
<1> QED
  BY <1>3, <1>5 DEF NoCall, Composes, LeavesOpen

LEMMA ContractAt ==
    ASSUME ContractsTypeOK, NEW k \in DOMAIN contracts
    PROVE  /\ contracts[k] \in Contract
           /\ contracts[k].until \in Nat /\ contracts[k].until <= Never /\ contracts[k].from \in Nat
<1>1. contracts[k] \in Contract
  BY Typed, ElementOfSeq, LenProperties
<1> QED
  BY <1>1, MomentsAreOrdered DEF Contract

-----------------------------------------------------------------------------
(* A call moves, and nothing else does.                                    *)

OthersStay(c) == \A d \in Callers : d # c => calls'[d] = calls[d]

\* One call moves on, and what it was begun with stays.
GoesOn(c) ==
    /\ calls[c].place # "idle"
    /\ calls'[c].kind = calls[c].kind
    /\ calls'[c].at = calls[c].at
    /\ calls'[c].ends = calls[c].ends

LEMMA CallStep ==
    ASSUME ContractsInv, UNCHANGED <<clock, endsAt, contracts, overtaken>>,
           NEW c \in Callers, calls' \in [Callers -> Call], OthersStay(c),
           CallFits(calls'[c]), EndsLate(calls'[c]), NoneSeen(calls'[c]),
           \/ GoesOn(c)
           \/ calls'[c] = NoCall
           \/ /\ Composes(calls'[c]) => endsAt > calls'[c].at
              /\ calls'[c].kind = "change" => endsAt > clock,
           LeavesOpen(calls'[c]) =>
              GoesOn(c) /\ (LeavesOpen(calls[c]) \/ calls'[c].ends > clock)
    PROVE  ContractsInv'
<1>1. ContractsTypeOK'
  BY Typed DEF ContractsInv, ContractsTypeOK, Call, Places
<1>2. CallsFit'
  BY DEF ContractsInv, CallsFit, CallFits, EndsLate, OthersStay
<1>3. RunOn' /\ Governed' /\ OneRuns'
  BY DEF ContractsInv, RunOn, Governed, OneRuns, IsActive
<1>4. CallsSawNone'
  BY DEF ContractsInv, CallsSawNone, NoneSeen, OthersStay, IsActive
<1>5. CallsOutlasted'
  <2>1. ASSUME NEW d \in Callers, Composes(calls'[d]), NEW k \in DOMAIN contracts, IsActive(k)
        PROVE  contracts[k].until > calls'[d].at
    <3>1. CASE d # c
      BY <2>1, <3>1 DEF ContractsInv, CallsOutlasted, Outlasts, OthersStay
    <3>2. CASE d = c /\ GoesOn(c)
      BY <2>1, <3>2 DEF ContractsInv, CallsOutlasted, Outlasts, GoesOn, Composes
    <3>3. CASE d = c /\ endsAt > calls'[c].at
      <4>1. contracts[k].until \in Nat /\ endsAt \in Nat /\ calls'[c].at \in Nat
        BY ContractAt, Typed, MomentsAreOrdered DEF ContractsInv, Call
      <4> QED
        BY <2>1, <3>3, <4>1 DEF ContractsInv, RunOn
    <3> QED
      BY <2>1, <3>1, <3>2, <3>3, NoCallIsOne DEF ContractsInv
  <2>2. ASSUME NEW d \in Callers, Composes(calls'[d]), NEW e \in Callers, calls'[e].kind = "change"
        PROVE  calls'[e].ends > calls'[d].at
    <3>1. /\ calls'[d].at \in Nat /\ calls'[d].at < Never /\ calls'[d].at <= clock
          /\ calls'[e].ends \in Nat /\ calls'[e].ends >= endsAt
          /\ clock \in Nat /\ endsAt \in Nat
      BY <1>2, <2>2, Typed, MomentsAreOrdered DEF ContractsInv, CallsFit, CallFits, EndsLate, Call
    <3>2. CASE calls'[e] = NoCall
      BY <3>1, <3>2, NoCallIsOne DEF ContractsInv
    <3>3. CASE endsAt > calls'[d].at
      BY <3>1, <3>3
    <3>4. CASE d # c /\ e # c
      BY <2>2, <3>4 DEF ContractsInv, CallsOutlasted, Outlasts, OthersStay
    <3>5. CASE d = c /\ e # c
      BY <2>2, <3>3, <3>5, NoCallIsOne
         DEF ContractsInv, CallsOutlasted, Outlasts, OthersStay, GoesOn, Composes
    <3>6. CASE d # c /\ e = c
      BY <2>2, <3>1, <3>2, <3>6 DEF ContractsInv, CallsOutlasted, Outlasts, OthersStay, GoesOn
    <3>7. CASE d = c /\ e = c
      BY <2>2, <3>2, <3>3, <3>7 DEF ContractsInv, CallsOutlasted, Outlasts, GoesOn, Composes
    <3> QED
      BY <3>4, <3>5, <3>6, <3>7
  <2> QED
    BY <2>1, <2>2 DEF CallsOutlasted, Outlasts, IsActive
<1>6. EndsOutlast'
  <2> SUFFICES ASSUME NEW e \in Callers, LeavesOpen(calls'[e]), NEW d \in Callers, Composes(calls'[d])
               PROVE  calls'[e].ends > calls'[d].at
    BY DEF EndsOutlast, LeavesOpen, Composes
  <2>1. /\ calls'[d].at \in Nat /\ calls'[d].at <= clock
        /\ calls'[e].ends \in Nat /\ calls'[e].ends >= endsAt
        /\ clock \in Nat /\ endsAt \in Nat
    BY <1>2, Typed, MomentsAreOrdered
       DEF ContractsInv, CallsFit, CallFits, EndsLate, Call, LeavesOpen
  <2>2. CASE calls'[e].ends > clock \/ endsAt > calls'[d].at
    BY ONLY <2>1, <2>2
  <2>3. ASSUME LeavesOpen(calls[e]), calls'[e].ends = calls[e].ends, ~(endsAt > calls'[d].at)
        PROVE  calls'[e].ends > calls'[d].at
    <3>1. Composes(calls[d]) /\ calls'[d].at = calls[d].at
      BY <2>3, NoCallIsOne DEF ContractsInv, OthersStay, GoesOn, Composes
    <3> QED
      BY <2>3, <3>1 DEF ContractsInv, EndsOutlast
  <2>4. CASE e = c
    BY <2>2, <2>3, <2>4 DEF GoesOn
  <2>5. CASE e # c
    BY <2>2, <2>3, <2>5 DEF OthersStay
  <2> QED
    BY <2>4, <2>5
<1> QED
  BY <1>1, <1>2, <1>3, <1>4, <1>5, <1>6 DEF ContractsInv

LEMMA OverStep ==
    ASSUME ContractsInv, UNCHANGED <<clock, endsAt, contracts, overtaken>>,
           NEW c \in Callers, Over(c)
    PROVE  ContractsInv'
<1>1. calls \in [Callers -> Call] /\ NoCall \in Call
  BY Typed, NoCallIsOne DEF ContractsInv
<1>2. calls' \in [Callers -> Call] /\ calls'[c] = NoCall /\ OthersStay(c)
  BY <1>1 DEF Over, OthersStay
<1>3. NoneSeen(NoCall) /\ CallFits(NoCall) /\ EndsLate(NoCall)
  BY NoCallIsOne DEF NoneSeen, ContractsInv
<1>4. ~LeavesOpen(calls'[c])
  BY <1>2, NoCallIsOne DEF ContractsInv
<1> QED
  BY <1>2, <1>3, <1>4, CallStep

LEMMA BeginStep ==
    ASSUME ContractsInv, NEW c \in Callers, NEW kind \in Kinds,
           NEW place \in {"finding", "checking", "declaring", "ending"},
           NEW ends \in Moments \union {Never}, Begins(c, kind, place, ends),
           kind \in {"change", "offer"} => endsAt > clock,
           kind = "change" \/ place = "ending" => ends = endsAt,
           kind = "end at once" => ends > clock, kind = "offer" => place = "checking"
    PROVE  ContractsInv'
<1> DEFINE row == [NoCall EXCEPT !.kind = kind, !.place = place, !.at = clock, !.ends = ends]
<1>1. calls \in [Callers -> Call] /\ NoCall \in Call /\ clock \in Moments
  BY Typed, NoCallIsOne DEF ContractsInv
<1>2. clock \in Nat /\ Len(contracts) \in Nat /\ endsAt \in Nat /\ ends \in Nat
  BY Typed, MomentsAreOrdered, LenProperties DEF ContractsInv
<1>3. /\ row.kind = kind /\ row.place = place /\ row.at = clock /\ row.ends = ends
      /\ row.previous = 0 /\ row.until = Never /\ row.seen = 0 /\ ~row.over
  BY DEF NoCall
<1>4. row \in Call
  <2>1. place \in Places
    BY DEF Places
  <2> QED
    BY <1>1, <2>1 DEF Call
<1>5. calls' \in [Callers -> Call] /\ calls'[c] = row /\ OthersStay(c)
  BY <1>1, <1>4 DEF Begins, OthersStay
<1> HIDE DEF row
<1>6. CallFits(row)
  <2>1. row.at <= clock /\ row.previous <= Len(contracts) /\ row.seen <= Len(contracts)
    BY ONLY <1>2, <1>3
  <2>2. place \notin {"reading", "capping", "none found", "writing"}
        /\ (kind = "offer" => place # "finding")
    OBVIOUS
  <2> QED
    BY ONLY <1>3, <2>1, <2>2 DEF CallFits
<1>7. EndsLate(row)
  <2>1. kind = "change" => ends = endsAt
    OBVIOUS
  <2>2. place = "ending" => ends = endsAt
    OBVIOUS
  <2>3. kind = "end at once" => clock < ends
    BY ONLY kind = "end at once" => ends > clock, <1>2
  <2>4. place \notin {"reading", "capping"}
    OBVIOUS
  <2>5. row.ends = endsAt => row.ends >= endsAt
    BY ONLY <1>2
  <2> QED
    BY ONLY <1>3, <2>1, <2>2, <2>3, <2>4, <2>5 DEF EndsLate
<1>8. NoneSeen(row)
  BY <1>3 DEF NoneSeen
<1>9. UNCHANGED <<clock, endsAt, contracts, overtaken>>
  BY DEF Begins
<1>10. /\ Composes(calls'[c]) => endsAt > calls'[c].at
       /\ calls'[c].kind = "change" => endsAt > clock
  BY <1>3, <1>5 DEF Composes
<1>11. ~LeavesOpen(calls'[c])
  <2>1. place \notin {"reading", "capping"}
    OBVIOUS
  <2> QED
    BY <1>3, <1>5, <2>1 DEF LeavesOpen
<1> QED
  BY <1>5, <1>6, <1>7, <1>8, <1>9, <1>10, <1>11, CallStep

\* A call that goes on with what it was begun with.
LEMMA GoOnStep ==
    ASSUME ContractsInv, UNCHANGED <<clock, endsAt, contracts, overtaken>>,
           NEW c \in Callers, calls[c].place # "idle",
           NEW row \in Call, calls' = [calls EXCEPT ![c] = row],
           row.kind = calls[c].kind, row.at = calls[c].at, row.ends = calls[c].ends,
           CallFits(row), EndsLate(row), NoneSeen(row),
           LeavesOpen(row) => LeavesOpen(calls[c]) \/ row.ends > clock
    PROVE  ContractsInv'
<1>1. calls \in [Callers -> Call]
  BY Typed DEF ContractsInv
<1>2. calls' \in [Callers -> Call] /\ calls'[c] = row /\ OthersStay(c)
  BY <1>1 DEF OthersStay
<1>3. GoesOn(c)
  BY <1>2 DEF GoesOn
<1> QED
  BY <1>2, <1>3, CallStep

\* What is known of a call under way.
LEMMA CallKnown ==
    ASSUME ContractsInv, NEW c \in Callers
    PROVE  /\ calls[c] \in Call /\ CallFits(calls[c]) /\ EndsLate(calls[c])
           /\ Outlasts(calls[c]) /\ NoneSeen(calls[c])
           /\ calls[c].at \in Moments /\ calls[c].at \in Nat /\ calls[c].ends \in Nat
           /\ calls[c].previous \in Nat /\ Len(contracts) \in Nat
           /\ clock \in Nat /\ endsAt \in Nat
<1>1. calls[c] \in Call /\ contracts \in Seq(Contract)
      /\ clock \in Moments /\ endsAt \in Moments \union {Never}
  BY Typed DEF ContractsInv
<1>2. /\ calls[c].at \in Moments /\ calls[c].at \in Nat /\ calls[c].ends \in Nat
      /\ calls[c].previous \in Nat /\ Len(contracts) \in Nat
      /\ clock \in Nat /\ endsAt \in Nat
  BY <1>1, MomentsAreOrdered, LenProperties DEF Call
<1> QED
  BY <1>1, <1>2 DEF ContractsInv, CallsFit, CallsOutlasted, CallsSawNone

\* A call that only goes to another place.
LEMMA PlaceStep ==
    ASSUME ContractsInv, UNCHANGED <<clock, endsAt, contracts, overtaken>>,
           NEW c \in Callers, NEW place \in {"writing", "capping"}, CallGoes(c, place),
           \/ place = "capping" /\ calls[c].place = "reading"
           \/ place = "writing" /\ calls[c].kind = "offer" /\ calls[c].place = "checking"
    PROVE  ContractsInv'
<1> DEFINE row == [calls[c] EXCEPT !.place = place]
<1>1. place \in Places
  BY DEF Places
<1>2. row \in Call /\ row.place = place
      /\ row.kind = calls[c].kind /\ row.at = calls[c].at /\ row.ends = calls[c].ends
      /\ row.previous = calls[c].previous /\ row.seen = calls[c].seen
      /\ row.until = calls[c].until /\ row.over = calls[c].over
  BY <1>1, CallKnown DEF Call
<1>3. calls' = [calls EXCEPT ![c] = row]
  BY DEF CallGoes
<1> HIDE DEF row
<1>4. CallFits(row) /\ EndsLate(row) /\ NoneSeen(row)
  BY <1>2, CallKnown DEF CallFits, EndsLate, NoneSeen
<1>5. LeavesOpen(row) => LeavesOpen(calls[c])
  BY <1>2 DEF LeavesOpen
<1> QED
  BY <1>2, <1>3, <1>4, <1>5, GoOnStep

LEMMA FindPreviousStep ==
    ASSUME ContractsInv, NEW c \in Callers, FindPrevious(c)
    PROVE  ContractsInv'
<1>1. UNCHANGED <<clock, endsAt, contracts, overtaken>> /\ calls[c].place = "finding"
  BY DEF FindPrevious
<1>2. CASE Over(c)
  BY <1>1, <1>2, OverStep
<1>3. ASSUME NEW found \in 0 .. Len(contracts),
             found # 0 \/ calls[c].kind = "change",
             calls' = [calls EXCEPT ![c].place = "writing", ![c].previous = found,
                                    ![c].until = IF found = 0 THEN Never
                                                 ELSE contracts[found].until]
      PROVE  ContractsInv'
  <2> DEFINE until == IF found = 0 THEN Never ELSE contracts[found].until
             row == [calls[c] EXCEPT !.place = "writing", !.previous = found, !.until = until]
  <2>1. calls' = [calls EXCEPT ![c] = row]
    BY <1>3
  <2>2. until \in Moments \union {Never}
    BY ContractAt, LenProperties, Typed DEF Contract, ContractsInv
  <2>3. "writing" \in Places /\ found \in Nat /\ found <= Len(contracts)
    BY CallKnown DEF Places
  <2> HIDE DEF until
  <2>4. row \in Call /\ row.place = "writing" /\ row.previous = found
        /\ row.kind = calls[c].kind /\ row.at = calls[c].at /\ row.ends = calls[c].ends
        /\ row.seen = calls[c].seen /\ row.until = until /\ row.over = calls[c].over
    BY <2>2, <2>3, CallKnown DEF Call
  <2> HIDE DEF row
  <2>5. calls[c].kind # "offer" /\ ~calls[c].over
    BY <1>1, CallKnown DEF CallFits
  <2>6. CallFits(row) /\ EndsLate(row) /\ NoneSeen(row) /\ ~LeavesOpen(row)
    BY <1>3, <2>3, <2>4, <2>5, CallKnown DEF CallFits, EndsLate, NoneSeen, LeavesOpen
  <2> QED
    BY <1>1, <2>1, <2>4, <2>6, GoOnStep
<1> QED
  BY <1>2, <1>3 DEF FindPrevious

LEMMA MovedOnStep ==
    ASSUME ContractsInv, UNCHANGED <<clock, endsAt, contracts, overtaken>>,
           NEW c \in Callers, calls[c].place = "writing", calls[c].kind # "offer", MovedOn(c)
    PROVE  ContractsInv'
<1>1. CASE Over(c)
  BY <1>1, OverStep
<1>2. CASE calls[c].tried + 1 < AttemptsOf(calls[c].kind)
           /\ calls' = [calls EXCEPT ![c].place = "finding", ![c].tried = @ + 1]
  <2> DEFINE tried == calls[c].tried + 1
             row == [calls[c] EXCEPT !.place = "finding", !.tried = tried]
  <2>1. calls' = [calls EXCEPT ![c] = row]
    BY <1>2
  <2>2. tried \in 0 .. 1
    <3>1. calls[c].tried \in 0 .. 1
      BY CallKnown DEF Call
    <3>2. AttemptsOf(calls[c].kind) \in {1, 2}
      BY DEF AttemptsOf
    <3> QED
      BY <1>2, <3>1, <3>2
  <2>3. "finding" \in Places
    BY DEF Places
  <2> HIDE DEF tried
  <2>4. row \in Call /\ row.place = "finding" /\ row.previous = calls[c].previous
        /\ row.kind = calls[c].kind /\ row.at = calls[c].at /\ row.ends = calls[c].ends
        /\ row.seen = calls[c].seen /\ row.until = calls[c].until /\ row.over = calls[c].over
    BY <2>2, <2>3, CallKnown DEF Call
  <2> HIDE DEF row
  <2>5. CallFits(row) /\ EndsLate(row) /\ NoneSeen(row) /\ ~LeavesOpen(row)
    BY <2>4, CallKnown DEF CallFits, EndsLate, NoneSeen, LeavesOpen
  <2> QED
    BY <2>1, <2>4, <2>5, GoOnStep
<1> QED
  BY <1>1, <1>2 DEF MovedOn

LEMMA NoneFoundStep ==
    ASSUME ContractsInv, UNCHANGED <<clock, endsAt, contracts, overtaken>>,
           NEW c \in Callers, calls[c].place = "writing", calls[c].kind \in {"change", "offer"},
           ~RunsFrom(calls[c].at), NoneFound(c)
    PROVE  ContractsInv'
<1> DEFINE row == [calls[c] EXCEPT !.place = "none found", !.seen = Len(contracts)]
<1>1. calls' = [calls EXCEPT ![c] = row]
  BY DEF NoneFound
<1>2. "none found" \in Places
  BY DEF Places
<1>3. row \in Call /\ row.place = "none found" /\ row.previous = calls[c].previous
      /\ row.kind = calls[c].kind /\ row.at = calls[c].at /\ row.ends = calls[c].ends
      /\ row.seen = Len(contracts) /\ row.until = calls[c].until /\ row.over = calls[c].over
  BY <1>2, CallKnown DEF Call
<1> HIDE DEF row
<1>4. \A k \in DOMAIN contracts : ~IsActive(k)
  BY CallKnown DEF RunsFrom, Runs, Outlasts, Composes, IsActive
<1>5. CallFits(row) /\ EndsLate(row)
  <2>1. Len(contracts) \in Nat
    BY CallKnown
  <2>2. Len(contracts) <= Len(contracts)
    BY ONLY <2>1
  <2>3. row.seen <= Len(contracts)
    BY <1>3, <2>2, Zenon
  <2> QED
    BY <1>3, <2>3, CallKnown DEF CallFits, EndsLate
<1>6. NoneSeen(row) /\ ~LeavesOpen(row)
  BY <1>3, <1>4 DEF NoneSeen, LeavesOpen
<1> QED
  BY <1>1, <1>3, <1>5, <1>6, GoOnStep

LEMMA LookForOthersStep ==
    ASSUME ContractsInv, NEW c \in Callers, LookForOthers(c)
    PROVE  ContractsInv'
<1>1. UNCHANGED <<clock, endsAt, contracts, overtaken>>
      /\ calls[c].place = "writing" /\ calls[c].kind # "offer" /\ calls[c].previous = 0
  BY DEF LookForOthers
<1>2. CASE RunsFrom(calls[c].at)
  BY <1>1, <1>2, MovedOnStep DEF LookForOthers
<1>3. CASE ~RunsFrom(calls[c].at)
  <2>1. calls[c].kind \in {"change", "offer"}
    BY <1>1, CallKnown DEF CallFits
  <2>2. NoneFound(c)
    BY <1>3 DEF LookForOthers
  <2> QED
    BY <1>1, <1>3, <2>1, <2>2, NoneFoundStep
<1> QED
  BY <1>2, <1>3

LEMMA AssertFirstStep ==
    ASSUME ContractsInv, NEW c \in Callers, AssertFirst(c)
    PROVE  ContractsInv'
<1>1. UNCHANGED <<clock, endsAt, contracts, overtaken>> /\ calls[c].kind = "offer"
  BY DEF AssertFirst
<1>2. CASE calls[c].place = "checking" /\ CallGoes(c, "writing")
  BY <1>1, <1>2, PlaceStep
<1>3. CASE calls[c].place = "writing" /\ ~RunsFrom(calls[c].at) /\ NoneFound(c)
  BY <1>1, <1>3, NoneFoundStep
<1>4. CASE Over(c)
  BY <1>1, <1>4, OverStep
<1> QED
  BY <1>2, <1>3, <1>4 DEF AssertFirst

LEMMA FindEndingStep ==
    ASSUME ContractsInv, NEW c \in Callers, FindEnding(c)
    PROVE  ContractsInv'
<1>1. UNCHANGED <<clock, endsAt, contracts, overtaken>> /\ calls[c].place = "ending"
  BY DEF FindEnding
<1>2. CASE Over(c)
  BY <1>1, <1>2, OverStep
<1>3. ASSUME NEW found \in 0 .. Len(contracts), found # 0,
             calls' = [calls EXCEPT ![c].place = "reading", ![c].previous = found,
                                    ![c].over = calls[c].ends <= clock]
      PROVE  ContractsInv'
  <2> DEFINE over == calls[c].ends <= clock
             row == [calls[c] EXCEPT !.place = "reading", !.previous = found, !.over = over]
  <2>1. calls' = [calls EXCEPT ![c] = row]
    BY <1>3
  <2>2. "reading" \in Places /\ found \in Nat /\ found <= Len(contracts)
        /\ over \in BOOLEAN
    BY CallKnown DEF Places
  <2>3. row \in Call /\ row.place = "reading" /\ row.previous = found
        /\ row.kind = calls[c].kind /\ row.at = calls[c].at /\ row.ends = calls[c].ends
        /\ row.seen = calls[c].seen /\ row.until = calls[c].until /\ row.over = over
    BY <2>2, CallKnown DEF Call
  <2> HIDE DEF row
  <2>4. CallFits(row) /\ EndsLate(row) /\ NoneSeen(row)
    BY <1>1, <1>3, <2>2, <2>3, CallKnown DEF CallFits, EndsLate, NoneSeen
  <2>5. calls[c].ends > clock \/ over
    BY CallKnown
  <2> HIDE DEF over
  <2>6. LeavesOpen(row) => row.ends > clock
    BY <2>3, <2>5 DEF LeavesOpen
  <2> QED
    BY <1>1, <2>1, <2>3, <2>4, <2>6, GoOnStep
<1> QED
  BY <1>2, <1>3 DEF FindEnding

LEMMA AssertTerminableStep ==
    ASSUME ContractsInv, NEW c \in Callers, AssertTerminable(c)
    PROVE  ContractsInv'
<1>1. UNCHANGED <<clock, endsAt, contracts, overtaken>> /\ calls[c].place = "reading"
  BY DEF AssertTerminable
<1>2. CallGoes(c, "capping") \/ Over(c)
  BY DEF AssertTerminable
<1> QED
  BY <1>1, <1>2, PlaceStep, OverStep

\* The subscription's end is brought forward, and the contract's is sought next.
LEMMA EndComesStep ==
    ASSUME ContractsInv, UNCHANGED <<clock, contracts, overtaken>>,
           NEW c \in Callers, calls[c].place = "declaring",
           calls[c].kind \in {"cancellation", "end at once"},
           NEW ends \in Moments \union {Never}, ends <= endsAt, endsAt' = ends,
           NEW row \in Call, calls' = [calls EXCEPT ![c] = row],
           row.place = "ending", row.kind = calls[c].kind, row.at = calls[c].at, row.ends = ends,
           row.previous = calls[c].previous, row.seen = calls[c].seen, row.until = calls[c].until,
           row.over = calls[c].over
    PROVE  ContractsInv'
<1>2. ends \in Nat /\ endsAt \in Nat
  BY MomentsAreOrdered, CallKnown
<1>3. row.ends >= endsAt'
  BY ONLY <1>2, row.ends = ends, endsAt' = ends
<1>4. calls \in [Callers -> Call]
  BY Typed DEF ContractsInv
<1>5. calls' \in [Callers -> Call] /\ calls'[c] = row /\ OthersStay(c)
  BY <1>4 DEF OthersStay
<1>6. ContractsTypeOK'
  BY <1>2, <1>5, Typed DEF ContractsInv, ContractsTypeOK, Call, Places
<1>7. CallsFit'
  <2>1. CallFits(calls[c])'
    BY <1>5, CallKnown DEF CallFits
  <2>2. EndsLate(calls[c])'
    BY <1>3, <1>5 DEF EndsLate
  <2>3. ASSUME NEW d \in Callers, d # c PROVE CallFits(calls[d])' /\ EndsLate(calls[d])'
    <3>1. calls'[d] = calls[d]
      BY <1>5, <2>3 DEF OthersStay
    <3>2. CallFits(calls[d]) /\ EndsLate(calls[d]) /\ calls[d].ends \in Nat
      BY CallKnown
    <3>3. CallFits(calls[d])'
      BY <3>1, <3>2 DEF CallFits
    <3>4. calls[d].ends >= endsAt => calls[d].ends >= endsAt'
      BY ONLY <1>2, <3>2, endsAt' = ends, ends <= endsAt
    <3> QED
      BY <3>1, <3>2, <3>3, <3>4 DEF EndsLate
  <2> QED
    BY <2>1, <2>2, <2>3 DEF CallsFit
<1>8. RunOn' /\ Governed'
  <2>1. \A k \in DOMAIN contracts :
            contracts[k].until \in Nat /\ (contracts[k].until >= endsAt => contracts[k].until >= endsAt')
    <3> SUFFICES ASSUME NEW k \in DOMAIN contracts
                 PROVE  contracts[k].until \in Nat
                        /\ (contracts[k].until >= endsAt => contracts[k].until >= endsAt')
      OBVIOUS
    <3>1. contracts[k].until \in Nat
      BY ContractAt DEF ContractsInv
    <3> QED
      BY ONLY <1>2, <3>1, endsAt' = ends, ends <= endsAt
  <2>2. clock < endsAt' => clock < endsAt
    <3>1. clock \in Nat
      BY CallKnown
    <3> QED
      BY ONLY <1>2, <3>1, endsAt' = ends, ends <= endsAt
  <2> QED
    BY <2>1, <2>2 DEF ContractsInv, RunOn, Governed, IsActive
<1>9. OneRuns' /\ CallsSawNone'
  <2>1. \A d \in Callers : d # c => NoneSeen(calls[d])'
    BY <1>5, CallKnown DEF NoneSeen, IsActive, OthersStay
  <2>2. NoneSeen(calls[c])'
    BY <1>5 DEF NoneSeen
  <2>3. OneRuns'
    BY DEF ContractsInv, OneRuns, IsActive
  <2> QED
    BY <2>1, <2>2, <2>3 DEF CallsSawNone
<1>10. CallsOutlasted'
  <2>1. ~Composes(calls'[c]) /\ calls'[c].kind # "change"
    BY <1>5 DEF Composes
  <2> QED
    BY <1>5, <2>1 DEF ContractsInv, CallsOutlasted, Outlasts, Composes, IsActive, OthersStay
<1>11. EndsOutlast'
  <2>1. ~Composes(calls'[c]) /\ ~LeavesOpen(calls'[c])
    BY <1>5 DEF Composes, LeavesOpen
  <2> QED
    BY <1>5, <2>1 DEF ContractsInv, EndsOutlast, LeavesOpen, Composes, OthersStay
<1> QED
  BY <1>6, <1>7, <1>8, <1>9, <1>10, <1>11 DEF ContractsInv

LEMMA ClaimCancellationStep ==
    ASSUME ContractsInv, NEW c \in Callers, ClaimCancellation(c)
    PROVE  ContractsInv'
<1>1. UNCHANGED <<clock, contracts, overtaken>>
      /\ calls[c].place = "declaring" /\ calls[c].kind = "cancellation"
  BY DEF ClaimCancellation
<1>2. CASE endsAt = Never
  <2> DEFINE row == [calls[c] EXCEPT !.place = "ending"]
             ends == calls[c].ends
  <2>1. ends \in Moments \union {Never} /\ ends <= endsAt
    BY <1>2, CallKnown, MomentsAreOrdered DEF Call
  <2>2. endsAt' = ends /\ calls' = [calls EXCEPT ![c] = row]
    BY <1>2 DEF ClaimCancellation, CallGoes
  <2>3. "ending" \in Places
    BY DEF Places
  <2>4. row \in Call /\ row.place = "ending" /\ row.previous = calls[c].previous
        /\ row.kind = calls[c].kind /\ row.at = calls[c].at /\ row.ends = ends
        /\ row.seen = calls[c].seen /\ row.until = calls[c].until /\ row.over = calls[c].over
    BY <2>3, CallKnown DEF Call
  <2> HIDE DEF row, ends
  <2> QED
    BY <1>1, <2>1, <2>2, <2>4, EndComesStep
<1>3. CASE endsAt # Never
  BY <1>1, <1>3, OverStep DEF ClaimCancellation
<1> QED
  BY <1>2, <1>3

LEMMA EndSubscriptionStep ==
    ASSUME ContractsInv, NEW c \in Callers, EndSubscription(c)
    PROVE  ContractsInv'
<1>1. UNCHANGED <<clock, contracts, overtaken>>
      /\ calls[c].place = "declaring" /\ calls[c].kind = "end at once"
  BY DEF EndSubscription
<1>2. CASE endsAt \in {calls[c].ends, calls[c].at}
  <2>1. calls[c].at \in Moments /\ calls[c].at < calls[c].ends
    BY <1>1, CallKnown DEF EndsLate
  <2>2. calls[c].at <= endsAt
    BY <1>2, <2>1, CallKnown
  <2> DEFINE row == [calls[c] EXCEPT !.place = "ending", !.ends = calls[c].at]
  <2>3. endsAt' = calls[c].at /\ calls' = [calls EXCEPT ![c] = row]
    BY <1>2 DEF EndSubscription
  <2>4. "ending" \in Places /\ calls[c].at \in Moments \union {Never}
    BY <2>1 DEF Places
  <2>5. row \in Call /\ row.place = "ending" /\ row.previous = calls[c].previous
        /\ row.kind = calls[c].kind /\ row.at = calls[c].at /\ row.ends = calls[c].at
        /\ row.seen = calls[c].seen /\ row.until = calls[c].until /\ row.over = calls[c].over
    BY <2>4, CallKnown DEF Call
  <2> HIDE DEF row
  <2> QED
    BY <1>1, <2>2, <2>3, <2>4, <2>5, EndComesStep
<1>3. CASE endsAt \notin {calls[c].ends, calls[c].at}
  BY <1>1, <1>3, OverStep DEF EndSubscription
<1> QED
  BY <1>2, <1>3

-----------------------------------------------------------------------------
(* A contract is written, and the call is over.                            *)

\* Over, typed.
LEMMA CallEnds ==
    ASSUME ContractsInv, NEW c \in Callers, Over(c)
    PROVE  calls' \in [Callers -> Call] /\ calls'[c] = NoCall /\ OthersStay(c)
<1>1. calls \in [Callers -> Call] /\ NoCall \in Call
  BY Typed, NoCallIsOne DEF ContractsInv
<1> QED
  BY <1>1 DEF Over, OthersStay

\* A new contract runs beside none that is not closed, unless it was overtaken.
LEMMA NewStep ==
    ASSUME ContractsInv, UNCHANGED <<clock, endsAt>>, NEW c \in Callers, Over(c),
           NEW until \in Moments \union {Never}, until >= endsAt,
           contracts' \in Seq(Contract), Len(contracts') = Len(contracts) + 1,
           contracts'[Len(contracts) + 1] = NewContract(calls[c].at, until),
           \A k \in DOMAIN contracts :
               contracts'[k].status = "active" => IsActive(k) /\ contracts'[k] = contracts[k],
           \A d \in Callers : Composes(calls[d]) => until > calls[d].at,
           overtaken' \in BOOLEAN, overtaken => overtaken',
           ~overtaken' => \A k \in DOMAIN contracts : contracts'[k].status # "active"
    PROVE  ContractsInv'
<1> DEFINE last == Len(contracts) + 1
<1>1. /\ Len(contracts) \in Nat /\ clock \in Nat /\ endsAt \in Nat /\ calls[c].at \in Nat
      /\ calls[c].at <= clock
  BY CallKnown DEF CallFits
<1>2. /\ DOMAIN contracts = 1 .. Len(contracts) /\ DOMAIN contracts' = 1 .. last
  BY Typed, LenProperties DEF ContractsInv
<1>3. DOMAIN contracts' = DOMAIN contracts \union {last} /\ last \notin DOMAIN contracts
  BY <1>1, <1>2
<1>4. contracts'[last].status = "active" /\ contracts'[last].from = calls[c].at
      /\ contracts'[last].until = until
  BY DEF NewContract
<1>5. calls' \in [Callers -> Call] /\ calls'[c] = NoCall /\ OthersStay(c)
  BY CallEnds
<1>6. ContractsTypeOK'
  BY <1>5, Typed DEF ContractsInv, ContractsTypeOK, Contract, Call, Places
<1>7. CallsFit'
  <2>1. ASSUME NEW d \in Callers PROVE CallFits(calls[d])' /\ EndsLate(calls[d])'
    <3>1. PICK call : call = calls'[d] /\ call \in Call /\ CallFits(call) /\ EndsLate(call)
      BY <1>5, NoCallIsOne, CallKnown DEF OthersStay, ContractsInv
    <3>2. call.previous \in Nat /\ call.seen \in Nat
      BY <3>1 DEF Call
    <3>3. call.previous <= Len(contracts) => call.previous <= Len(contracts')
      BY ONLY <1>1, <3>2, Len(contracts') = Len(contracts) + 1
    <3>4. call.seen <= Len(contracts) => call.seen <= Len(contracts')
      BY ONLY <1>1, <3>2, Len(contracts') = Len(contracts) + 1
    <3> QED
      BY <3>1, <3>3, <3>4 DEF CallFits, EndsLate
  <2> QED
    BY <2>1 DEF CallsFit
<1>8. RunOn'
  BY <1>3, <1>4 DEF ContractsInv, RunOn, IsActive
<1>9. Governed'
  BY <1>1, <1>3, <1>4 DEF Governed, IsActive
<1>10. CallsOutlasted'
  <2>1. ASSUME NEW d \in Callers, Composes(calls'[d])
        PROVE  d # c /\ calls'[d] = calls[d] /\ Composes(calls[d])
    BY <1>5, <2>1, NoCallIsOne DEF ContractsInv, OthersStay
  <2>2. ASSUME NEW d \in Callers, Composes(calls'[d]),
               NEW k \in DOMAIN contracts', contracts'[k].status = "active"
        PROVE  contracts'[k].until > calls'[d].at
    <3>1. CASE k = last
      BY <1>4, <2>1, <2>2, <3>1
    <3>2. CASE k \in DOMAIN contracts
      BY <2>1, <2>2, <3>2, CallKnown DEF Outlasts
    <3> QED
      BY <1>3, <3>1, <3>2
  <2>3. ASSUME NEW d \in Callers, Composes(calls'[d]), NEW e \in Callers, calls'[e].kind = "change"
        PROVE  calls'[e].ends > calls'[d].at
    <3>1. CASE e = c
      <4>1. calls[d].at \in Nat /\ calls[d].at < Never
        BY CallKnown, MomentsAreOrdered
      <4>2. calls'[e].ends = Never
        BY <1>5, <3>1, NoCallIsOne DEF ContractsInv
      <4> QED
        BY <2>1, <2>3, <4>1, <4>2, MomentsAreOrdered
    <3>2. CASE e # c
      BY <1>5, <2>1, <2>3, <3>2, CallKnown DEF Outlasts, OthersStay
    <3> QED
      BY <3>1, <3>2
  <2> QED
    BY <2>2, <2>3 DEF CallsOutlasted, Outlasts, IsActive
<1>11. OneRuns'
  BY <1>3, <1>4 DEF OneRuns, IsActive
<1>12. CallsSawNone'
  <2>1. ASSUME NEW d \in Callers PROVE calls'[d].place = "none found" => calls'[d].seen # Len(contracts')
    <3>1. CASE d = c
      BY <1>5, <3>1, NoCallIsOne DEF ContractsInv
    <3>2. CASE d # c
      <4>1. calls'[d] = calls[d] /\ calls[d].seen <= Len(contracts) /\ calls[d].seen \in Nat
        BY <1>5, <3>2, CallKnown DEF OthersStay, CallFits, Call
      <4>2. calls[d].seen # Len(contracts')
        BY ONLY <1>1, <4>1, Len(contracts') = Len(contracts) + 1
      <4> QED
        BY <4>1, <4>2
    <3> QED
      BY <3>1, <3>2
  <2> QED
    BY <2>1 DEF CallsSawNone, NoneSeen
<1>13. EndsOutlast'
  <2>1. ASSUME NEW d \in Callers, Composes(calls'[d]) \/ LeavesOpen(calls'[d])
        PROVE  calls'[d] = calls[d]
    BY <1>5, <2>1, NoCallIsOne DEF ContractsInv, OthersStay
  <2> QED
    BY <2>1 DEF ContractsInv, EndsOutlast, LeavesOpen, Composes
<1> QED
  BY <1>6, <1>7, <1>8, <1>9, <1>10, <1>11, <1>12, <1>13 DEF ContractsInv

\* What a change is to write outlasts whatever first contract may be written.
LEMMA ChangeOutlasts ==
    ASSUME ContractsInv, NEW c \in Callers, calls[c].kind = "change"
    PROVE  /\ calls[c].ends \in Moments \union {Never} /\ calls[c].ends >= endsAt
           /\ \A d \in Callers : Composes(calls[d]) => calls[c].ends > calls[d].at
<1>1. calls[c].ends \in Moments \union {Never} /\ calls[c].ends >= endsAt
  BY CallKnown DEF Call, EndsLate
<1>2. \A d \in Callers : Composes(calls[d]) => calls[c].ends > calls[d].at
  BY CallKnown DEF Outlasts
<1> QED
  BY <1>1, <1>2

LEMMA Appended ==
    ASSUME NEW S, NEW s \in Seq(S), NEW e \in S, NEW t, t = Append(s, e)
    PROVE  /\ t \in Seq(S) /\ Len(t) = Len(s) + 1
           /\ \A k \in DOMAIN s : t[k] = s[k]
           /\ t[Len(s) + 1] = e
<1>1. DOMAIN s = 1 .. Len(s)
  BY LenProperties
<1>2. t \in Seq(S)
  BY AppendProperties
<1>3. Len(t) = Len(s) + 1 /\ t[Len(s) + 1] = e
  BY AppendProperties
<1>4. \A k \in 1 .. Len(s) : t[k] = s[k]
  BY AppendProperties
<1> QED
  BY <1>1, <1>2, <1>3, <1>4

LEMMA WriteFirstStep ==
    ASSUME ContractsInv, NEW c \in Callers, WriteFirst(c)
    PROVE  ContractsInv'
<1> DEFINE until == UntilOf(calls[c])
<1>1. /\ UNCHANGED <<clock, endsAt>> /\ Over(c) /\ calls[c].place = "none found"
      /\ contracts' = Append(contracts, NewContract(calls[c].at, until))
      /\ overtaken' = (overtaken \/ Len(contracts) > calls[c].seen)
  BY DEF WriteFirst
<1>2. calls[c].kind \in {"change", "offer"} /\ calls[c].seen <= Len(contracts)
  BY <1>1, CallKnown DEF CallFits
<1>3. /\ until \in Moments \union {Never} /\ until >= endsAt
      /\ \A d \in Callers : Composes(calls[d]) => until > calls[d].at
  <2>1. CASE calls[c].kind = "change"
    BY <2>1, ChangeOutlasts DEF UntilOf
  <2>2. CASE calls[c].kind = "offer"
    <3>1. until = Never
      BY <1>1, <2>2, CallKnown DEF UntilOf, CallFits
    <3>2. endsAt <= Never
      BY Typed, MomentsAreOrdered DEF ContractsInv
    <3> HIDE DEF until
    <3> QED
      BY <3>1, <3>2, CallKnown, MomentsAreOrdered
  <2> QED
    BY <1>2, <2>1, <2>2
<1>4. contracts \in Seq(Contract) /\ NewContract(calls[c].at, until) \in Contract
  BY <1>3, CallKnown, Typed DEF NewContract, Contract, ContractsInv
<1> DEFINE first == NewContract(calls[c].at, until)
<1>5. /\ contracts' \in Seq(Contract) /\ Len(contracts') = Len(contracts) + 1
      /\ \A k \in DOMAIN contracts : contracts'[k] = contracts[k]
      /\ contracts'[Len(contracts) + 1] = first
  <2>1. contracts' = Append(contracts, first) /\ first \in Contract
    BY <1>1, <1>4
  <2> HIDE DEF first
  <2> QED
    BY ONLY <1>4, <2>1, Appended
<1> HIDE DEF until
<1>6. ~overtaken' => \A k \in DOMAIN contracts : ~IsActive(k)
  <2>1. ~(Len(contracts) > calls[c].seen) => calls[c].seen = Len(contracts)
    BY <1>2, CallKnown DEF Call
  <2> QED
    BY <1>1, <2>1, CallKnown DEF NoneSeen
<1>7. overtaken' \in BOOLEAN /\ (overtaken => overtaken')
  BY <1>1
<1> QED
  BY <1>1, <1>3, <1>5, <1>6, <1>7, NewStep DEF IsActive

LEMMA SucceedsStep ==
    ASSUME ContractsInv, UNCHANGED <<clock, endsAt, overtaken>>, NEW c \in Callers,
           calls[c].kind # "offer", calls[c].previous \in DOMAIN contracts, AsRead(calls[c]),
           Succeeds(c, calls[c].previous), Over(c)
    PROVE  ContractsInv'
<1> DEFINE k == calls[c].previous
           until == UntilOf(calls[c])
           closed == [contracts[k] EXCEPT !.until = calls[c].at, !.status = "superseded"]
           others == [contracts EXCEPT ![k] = closed]
<1>1. contracts' = Append(others, NewContract(calls[c].at, until))
  BY DEF Succeeds
<1>2. IsActive(k) /\ contracts[k].until = calls[c].until
  BY DEF AsRead, IsActive
<1>3. /\ until \in Moments \union {Never} /\ until >= endsAt
      /\ \A d \in Callers : Composes(calls[d]) => until > calls[d].at
  <2>1. CASE calls[c].kind = "change"
    BY <2>1, ChangeOutlasts DEF UntilOf
  <2>2. CASE calls[c].kind # "change"
    <3>1. until = contracts[k].until
      BY <1>2, <2>2 DEF UntilOf
    <3>2. contracts[k].until \in Moments \union {Never}
      BY ContractAt DEF ContractsInv, Contract
    <3>3. contracts[k].until >= endsAt
      BY <1>2 DEF ContractsInv, RunOn
    <3>4. \A d \in Callers : Composes(calls[d]) => contracts[k].until > calls[d].at
      BY <1>2, CallKnown DEF Outlasts
    <3> HIDE DEF until, k
    <3> QED
      BY <3>1, <3>2, <3>3, <3>4
  <2> QED
    BY <2>1, <2>2
<1>4. contracts \in Seq(Contract) /\ closed \in Contract /\ closed.status = "superseded"
      /\ NewContract(calls[c].at, until) \in Contract
  <2>1. contracts \in Seq(Contract) /\ contracts[k] \in Contract
    BY Typed, ContractAt DEF ContractsInv
  <2>2. calls[c].at \in Moments
    BY CallKnown
  <2>3. closed \in Contract /\ closed.status = "superseded"
    BY <2>1, <2>2 DEF Contract
  <2> HIDE DEF until
  <2>4. NewContract(calls[c].at, until) \in Contract
    BY <1>3, <2>2 DEF NewContract, Contract
  <2> QED
    BY <2>1, <2>3, <2>4
<1> HIDE DEF until, closed
<1>5. /\ others \in Seq(Contract) /\ Len(others) = Len(contracts)
      /\ \A j \in DOMAIN contracts : others[j] = IF j = k THEN closed ELSE contracts[j]
  BY <1>4, ExceptSeq, LenProperties
<1> HIDE DEF others
<1>6. /\ contracts' \in Seq(Contract) /\ Len(contracts') = Len(contracts) + 1
      /\ \A j \in DOMAIN contracts : contracts'[j] = others[j]
      /\ contracts'[Len(contracts) + 1] = NewContract(calls[c].at, until)
  <2>1. DOMAIN others = DOMAIN contracts
    BY <1>4, <1>5, LenProperties
  <2>2. /\ contracts' \in Seq(Contract) /\ Len(contracts') = Len(others) + 1
        /\ \A j \in DOMAIN others : contracts'[j] = others[j]
        /\ contracts'[Len(others) + 1] = NewContract(calls[c].at, until)
    BY <1>1, <1>4, <1>5, Appended
  <2> QED
    BY <1>5, <2>1, <2>2
<1>7. \A j \in DOMAIN contracts : contracts'[j].status = "active" =>
          j # k /\ IsActive(j) /\ contracts'[j] = contracts[j]
  BY <1>4, <1>5, <1>6 DEF IsActive
<1>8. ~overtaken' => \A j \in DOMAIN contracts : contracts'[j].status # "active"
  BY <1>2, <1>7 DEF ContractsInv, OneRuns
<1>9. overtaken' \in BOOLEAN /\ (overtaken => overtaken')
  BY Typed DEF ContractsInv
<1> QED
  BY <1>3, <1>6, <1>7, <1>8, <1>9, NewStep

LEMMA WriteSuccessorStep ==
    ASSUME ContractsInv, NEW c \in Callers, WriteSuccessor(c)
    PROVE  ContractsInv'
<1>1. /\ UNCHANGED <<clock, endsAt, overtaken>> /\ calls[c].place = "writing"
      /\ calls[c].kind # "offer" /\ calls[c].previous # 0
  BY DEF WriteSuccessor
<1>2. CASE Over(c) /\ UNCHANGED contracts
  BY <1>1, <1>2, OverStep
<1>3. CASE AsRead(calls[c]) /\ Succeeds(c, calls[c].previous) /\ Over(c)
  <2>1. calls[c].previous \in DOMAIN contracts
    BY <1>1, CallKnown, ContractThere DEF ContractsInv, CallFits
  <2> QED
    BY <1>1, <1>3, <2>1, SucceedsStep
<1>4. CASE MovedOn(c) /\ UNCHANGED contracts
  BY <1>1, <1>4, MovedOnStep
<1> QED
  BY <1>2, <1>3, <1>4 DEF WriteSuccessor

\* An end is written to a contract: no earlier than the subscription's, and the
\* contract closes only where that moment has come.
LEMMA CapStep ==
    ASSUME ContractsInv, NEW c \in Callers, Cap(c)
    PROVE  ContractsInv'
<1> DEFINE k == calls[c].previous
           ends == calls[c].ends
           status == StatusOnceCapped(contracts[k].status, calls[c].over)
           capped == [contracts[k] EXCEPT !.until = ends, !.status = status]
<1>1. /\ UNCHANGED <<clock, endsAt, overtaken>> /\ calls[c].place = "capping" /\ Over(c)
      /\ contracts' = [contracts EXCEPT ![k].until = ends,
                                        ![k].status = StatusOnceCapped(@, calls[c].over)]
  BY DEF Cap
<1>2. /\ clock \in Nat /\ endsAt \in Nat /\ ends \in Nat /\ ends >= endsAt
      /\ ends \in Moments \union {Never}
  BY <1>1, CallKnown DEF EndsLate, Call
<1>3. k \in DOMAIN contracts
  BY <1>1, CallKnown, ContractThere DEF ContractsInv, CallFits
<1>4. contracts[k] \in Contract /\ contracts \in Seq(Contract)
  BY <1>3, ContractAt, Typed DEF ContractsInv
<1>5. status \in {"active", "superseded", "terminated"}
      /\ (status = "active" => contracts[k].status = "active" /\ LeavesOpen(calls[c]))
      /\ (ends > clock => status = contracts[k].status)
  <2>1. contracts[k].status \in {"active", "superseded", "terminated"}
    BY <1>4 DEF Contract
  <2>2. calls[c].over => ~(ends > clock)
    <3>1. calls[c].over => ends <= clock
      BY CallKnown DEF CallFits
    <3>2. ends <= clock => ~(ends > clock)
      BY ONLY <1>2
    <3> QED
      BY <3>1, <3>2
  <2> QED
    BY <1>1, <2>1, <2>2 DEF StatusOnceCapped, LeavesOpen
<1>6. contracts' = [contracts EXCEPT ![k] = capped]
  BY <1>1, <1>3, <1>4
<1> HIDE DEF status
<1>7. capped \in Contract /\ capped.until = ends /\ capped.status = status
      /\ capped.from = contracts[k].from
  BY <1>2, <1>4, <1>5 DEF Contract
<1> HIDE DEF capped, ends
<1>8. /\ contracts' \in Seq(Contract) /\ Len(contracts') = Len(contracts)
      /\ DOMAIN contracts' = DOMAIN contracts
      /\ \A j \in DOMAIN contracts : contracts'[j] = IF j = k THEN capped ELSE contracts[j]
  BY <1>3, <1>4, <1>6, <1>7, ExceptSeq, LenProperties
<1>9. calls' \in [Callers -> Call] /\ calls'[c] = NoCall /\ OthersStay(c)
  BY <1>1, CallEnds
<1>10. \A j \in DOMAIN contracts : contracts'[j].status = "active" => IsActive(j)
  BY <1>5, <1>7, <1>8 DEF IsActive
<1>11. ContractsTypeOK'
  BY <1>1, <1>8, <1>9, Typed DEF ContractsInv, ContractsTypeOK, Contract, Call, Places
<1>12. CallsFit'
  BY <1>1, <1>8, <1>9, NoCallIsOne, CallKnown
     DEF ContractsInv, CallsFit, CallFits, EndsLate, OthersStay
<1>13. RunOn'
  BY <1>1, <1>2, <1>7, <1>8, <1>10 DEF ContractsInv, RunOn, IsActive
<1>14. Governed'
  <2> SUFFICES ASSUME contracts' # <<>>, clock < endsAt
               PROVE  \E j \in DOMAIN contracts :
                          /\ contracts'[j].status = "active" /\ contracts'[j].from <= clock
                          /\ contracts'[j].until >= endsAt
    BY <1>1, <1>8 DEF Governed, IsActive
  <2>1. contracts # <<>>
    BY <1>3
  <2>2. PICK j \in DOMAIN contracts :
            IsActive(j) /\ contracts[j].from <= clock /\ contracts[j].until >= endsAt
    BY <2>1 DEF ContractsInv, Governed
  <2>3. ends > clock
    BY <1>2
  <2> WITNESS j \in DOMAIN contracts
  <2>4. CASE j = k
    BY <1>2, <1>5, <1>7, <1>8, <2>2, <2>3, <2>4 DEF IsActive
  <2>5. CASE j # k
    BY <1>8, <2>2, <2>5 DEF IsActive
  <2> QED
    BY <2>4, <2>5
<1>15. CallsOutlasted'
  <2>1. ASSUME NEW d \in Callers, Composes(calls'[d])
        PROVE  d # c /\ calls'[d] = calls[d] /\ Composes(calls[d])
    BY <1>9, <2>1, NoCallIsOne DEF ContractsInv, OthersStay
  <2>2. ASSUME NEW d \in Callers, Composes(calls'[d]),
               NEW j \in DOMAIN contracts, contracts'[j].status = "active"
        PROVE  contracts'[j].until > calls'[d].at
    <3>1. CASE j = k
      <4>1. LeavesOpen(calls[c]) /\ contracts'[j].until = ends
        BY <1>5, <1>7, <1>8, <2>2, <3>1
      <4>2. calls[c].ends > calls[d].at
        BY <2>1, <2>2, <4>1 DEF ContractsInv, EndsOutlast
      <4> QED
        BY <2>1, <2>2, <4>1, <4>2 DEF ends
    <3>2. CASE j # k
      BY <1>8, <1>10, <2>1, <2>2, <3>2, CallKnown DEF Outlasts
    <3> QED
      BY <3>1, <3>2
  <2>3. ASSUME NEW d \in Callers, Composes(calls'[d]), NEW e \in Callers, calls'[e].kind = "change"
        PROVE  calls'[e].ends > calls'[d].at
    <3>1. CASE e = c
      <4>1. calls[d].at \in Nat /\ calls[d].at < Never
        BY CallKnown, MomentsAreOrdered
      <4>2. calls'[e].ends = Never
        BY <1>9, <3>1, NoCallIsOne DEF ContractsInv
      <4> QED
        BY <2>1, <2>3, <4>1, <4>2, MomentsAreOrdered
    <3>2. CASE e # c
      BY <1>9, <2>1, <2>3, <3>2, CallKnown DEF Outlasts, OthersStay
    <3> QED
      BY <3>1, <3>2
  <2> QED
    BY <1>8, <2>2, <2>3 DEF CallsOutlasted, Outlasts, IsActive
<1>16. OneRuns'
  BY <1>1, <1>8, <1>10 DEF ContractsInv, OneRuns, IsActive
<1>17. CallsSawNone'
  <2>1. ASSUME NEW d \in Callers PROVE NoneSeen(calls[d])'
    <3>1. CASE d = c
      BY <1>9, <3>1, NoCallIsOne DEF ContractsInv, NoneSeen
    <3>2. CASE d # c
      BY <1>8, <1>9, <1>10, <3>2, CallKnown DEF OthersStay, NoneSeen, IsActive
    <3> QED
      BY <3>1, <3>2
  <2> QED
    BY <2>1 DEF CallsSawNone
<1>18. EndsOutlast'
  <2>1. ASSUME NEW d \in Callers, Composes(calls'[d]) \/ LeavesOpen(calls'[d])
        PROVE  calls'[d] = calls[d]
    BY <1>9, <2>1, NoCallIsOne DEF ContractsInv, OthersStay
  <2> QED
    BY <2>1 DEF ContractsInv, EndsOutlast, LeavesOpen, Composes
<1> QED
  BY <1>11, <1>12, <1>13, <1>14, <1>15, <1>16, <1>17, <1>18 DEF ContractsInv

LEMMA ClockStep ==
    ASSUME ContractsInv, ClockTicks
    PROVE  ContractsInv'
<1>1. clock' = clock + 1 /\ clock < LastMoment /\ UNCHANGED <<endsAt, contracts, calls, overtaken>>
  BY DEF ClockTicks
<1>2. clock \in Nat /\ clock' \in Nat /\ clock < clock' /\ clock' \in Moments /\ endsAt \in Nat
  BY <1>1, ContractsAssumption, Typed, MomentsAreOrdered DEF ContractsInv, Moments
<1>3. ContractsTypeOK'
  BY <1>1, <1>2 DEF ContractsInv, ContractsTypeOK
<1>4. CallsFit'
  <2>1. ASSUME NEW c \in Callers
        PROVE  calls[c].at <= clock' /\ (calls[c].ends <= clock => calls[c].ends <= clock')
    <3>1. calls[c].at \in Nat /\ calls[c].at <= clock /\ calls[c].ends \in Nat
      BY CallKnown DEF CallFits
    <3> QED
      BY ONLY <1>2, <3>1
  <2> QED
    BY <1>1, <2>1 DEF ContractsInv, CallsFit, CallFits, EndsLate
<1>5. Governed'
  <2>1. \A k \in DOMAIN contracts : contracts[k].from <= clock => contracts[k].from <= clock'
    BY <1>2, ContractAt DEF ContractsInv
  <2>2. clock' < endsAt => clock < endsAt
    BY <1>2
  <2> QED
    BY <1>1, <2>1, <2>2 DEF ContractsInv, Governed, IsActive
<1>6. RunOn' /\ CallsOutlasted' /\ EndsOutlast' /\ OneRuns' /\ CallsSawNone'
  BY <1>1 DEF ContractsInv, RunOn, CallsOutlasted, Outlasts, EndsOutlast, LeavesOpen, Composes,
              OneRuns, CallsSawNone, NoneSeen, IsActive
<1> QED
  BY <1>3, <1>4, <1>5, <1>6 DEF ContractsInv

-----------------------------------------------------------------------------
(* Every reachable state.                                                  *)

LEMMA ContractsStart ==
    ContractsInit => ContractsInv
<1> SUFFICES ASSUME ContractsInit PROVE ContractsInv
  OBVIOUS
<1> USE DEF ContractsInit
<1>1. PICK n \in BeginsUnder :
          contracts = [k \in 1 .. n |-> [from |-> 0, until |-> Never, status |-> "active"]]
  OBVIOUS
<1>2. n \in {0, 1}
  BY ContractsAssumption
<1>3. 0 \in Moments /\ 1 \in Moments /\ Never \in Nat
  BY ContractsAssumption, MomentsAreOrdered DEF Moments
<1>4. [from |-> 0, until |-> Never, status |-> "active"] \in Contract
  BY <1>3 DEF Contract
<1>5. contracts \in Seq(Contract)
  BY <1>1, <1>2, <1>4, IsASeq
<1>6. DOMAIN contracts = 1 .. n /\ Len(contracts) = n
  BY <1>1, <1>2, <1>5, LenProperties
<1>7. ASSUME NEW k \in DOMAIN contracts
      PROVE  k = 1 /\ contracts[k].from = 0 /\ contracts[k].until = Never
             /\ contracts[k].status = "active"
  BY <1>1, <1>2, <1>6, <1>7
<1>8. NoCall \in Call
  <2>1. 0 \in 0 .. 1
    OBVIOUS
  <2> QED
    BY <1>3, <2>1, Zenon DEF NoCall, Call, Kinds, ChangeKinds, Places
<1>9. ContractsTypeOK
  BY <1>3, <1>5, <1>8, Typed
<1>10. CallsFit
  BY <1>9, NoCallIsOne DEF CallsFit
<1>11. RunOn /\ OneRuns
  BY <1>3, <1>7 DEF RunOn, OneRuns
<1>12. Governed
  <2>1. CASE n = 0
    BY <1>1, <2>1 DEF Governed
  <2>2. CASE n = 1
    <3>1. 1 \in DOMAIN contracts
      BY <1>6, <2>2
    <3> QED
      BY <1>3, <1>7, <3>1 DEF Governed, IsActive
  <2> QED
    BY <1>2, <2>1, <2>2
<1>13. CallsOutlasted /\ EndsOutlast /\ CallsSawNone
  BY <1>9, NoCallIsOne DEF CallsOutlasted, Outlasts, EndsOutlast, CallsSawNone, NoneSeen
<1> QED
  BY <1>9, <1>10, <1>11, <1>12, <1>13 DEF ContractsInv

LEMMA ContractsStep ==
    ContractsInv /\ [ContractsNext]_contractVars => ContractsInv'
<1> SUFFICES ASSUME ContractsInv, [ContractsNext]_contractVars PROVE ContractsInv'
  OBVIOUS
<1>1. endsAt \in Moments \union {Never} /\ Never \in Moments \union {Never} /\ clock \in Nat
      /\ clock < Never
  BY Typed, MomentsAreOrdered DEF ContractsInv
<1>2. /\ "change" \in Kinds /\ "reductions" \in Kinds /\ "refresh" \in Kinds /\ "offer" \in Kinds
      /\ "cancellation" \in Kinds /\ "end at once" \in Kinds /\ "repair" \in Kinds
  BY DEF Kinds, ChangeKinds
<1>3. ASSUME NEW c \in Callers, BeginChange(c) PROVE ContractsInv'
  BY <1>1, <1>2, <1>3, BeginStep DEF BeginChange
<1>4. ASSUME NEW c \in Callers, BeginReductions(c) \/ BeginRefresh(c) PROVE ContractsInv'
  BY <1>1, <1>2, <1>4, BeginStep DEF BeginReductions, BeginRefresh
<1>5. ASSUME NEW c \in Callers, BeginOffer(c) PROVE ContractsInv'
  BY <1>1, <1>2, <1>5, BeginStep DEF BeginOffer
<1>6. ASSUME NEW c \in Callers, DeclareCancellation(c) PROVE ContractsInv'
  <2>1. ASSUME NEW day \in clock .. LastMoment, Begins(c, "cancellation", "declaring", day)
        PROVE  ContractsInv'
    <3>1. day \in Moments \union {Never}
      BY <1>1, ContractsAssumption DEF Moments
    <3> QED
      BY <1>2, <2>1, <3>1, BeginStep
  <2>2. ASSUME Begins(c, "repair", "ending", endsAt) PROVE ContractsInv'
    BY <1>1, <1>2, <2>2, BeginStep
  <2> QED
    BY <1>6, <2>1, <2>2 DEF DeclareCancellation
<1>7. ASSUME NEW c \in Callers, BeginEndAtOnce(c) PROVE ContractsInv'
  BY <1>1, <1>2, <1>7, BeginStep DEF BeginEndAtOnce
<1>8. CASE UNCHANGED contractVars
  BY <1>8 DEF contractVars, ContractsInv, ContractsTypeOK, CallsFit, CallFits, EndsLate, RunOn,
              Governed, CallsOutlasted, Outlasts, EndsOutlast, LeavesOpen, Composes,
              OneRuns, CallsSawNone, NoneSeen, IsActive
<1> QED
  BY <1>3, <1>4, <1>5, <1>6, <1>7, <1>8, FindPreviousStep, WriteSuccessorStep, LookForOthersStep,
     WriteFirstStep, AssertFirstStep, ClaimCancellationStep, EndSubscriptionStep, FindEndingStep,
     AssertTerminableStep, CapStep, ClockStep
     DEF ContractsNext

LEMMA ContractsInduction ==
    ContractsSpec => []ContractsInv
  BY ContractsStart, ContractsStep, PTL DEF ContractsSpec

\* The moments, the contracts and the calls of the tenant are of their kinds, for
\* any callers.
THEOREM ContractsTypes == ContractsSpec => []ContractsTypeOK
<1>1. ContractsInv => ContractsTypeOK
  BY DEF ContractsInv
<1> QED
  BY <1>1, ContractsInduction, PTL

\* However many calls overtake each other, no two contracts of a tenant run at one
\* time, unless a first one was written after another its writer had not seen
\* (SubscriptionContractService.append, createFirst and terminate).
THEOREM OneAtATime == ContractsSpec => []NoneBeside
<1>1. ContractsInv => NoneBeside
  BY DEF ContractsInv, OneRuns, NoneBeside, Together, IsActive
<1> QED
  BY <1>1, ContractsInduction, PTL

\* However many calls overtake each other, a tenant under contract is under one at
\* every moment until its subscription ends: findActiveByTenantId finds one.
THEOREM UnderContractToTheEnd == ContractsSpec => []GovernedUntilTheEnd
<1>1. ASSUME ContractsInv PROVE GovernedUntilTheEnd
  <2> SUFFICES ASSUME contracts # <<>>, clock < endsAt PROVE AllInForce(clock) # {}
    BY DEF GovernedUntilTheEnd
  <2>1. PICK k \in DOMAIN contracts :
            IsActive(k) /\ contracts[k].from <= clock /\ contracts[k].until >= endsAt
    BY <1>1 DEF ContractsInv, Governed
  <2>2. contracts[k].until \in Nat /\ endsAt \in Nat /\ clock \in Nat
    BY <1>1, ContractAt, Typed, MomentsAreOrdered DEF ContractsInv
  <2>3. contracts[k].until > clock
    BY <2>1, <2>2
  <2> QED
    BY <2>1, <2>3 DEF AllInForce, InForce, Runs, IsActive
<1> QED
  BY <1>1, ContractsInduction, PTL
=============================================================================
