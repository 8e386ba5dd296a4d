---------------------------- MODULE NoticeSender ----------------------------
(***************************************************************************)
(* Telling a subscriber one notice, once.  Every instance of the server     *)
(* tells what is due: it claims the notice's row, has the application send  *)
(* it, and records that it went out.  A claim holds for a lease, so a       *)
(* notice whose instance stopped is taken on again.                         *)
(*                                                                          *)
(* A member of Tells is one call of `tell` for the notice.  The claim's     *)
(* moment is read before the claim is made, and is all that tells one claim *)
(* from another; an answer may come long after the call gave it up, and a   *)
(* write may fail without a word of whether it took effect.  The instances  *)
(* share one clock.                                                         *)
(***************************************************************************)
EXTENDS Integers

CONSTANTS
    Tells,          \* the calls of `tell` for the notice, by whatever instance
    Lease,          \* how long a claim holds
    Horizon         \* bound on the clock

ASSUME NoticeAssumption ==
    /\ Lease \in Nat
    /\ Horizon \in Nat

VARIABLES
    retriesNobody,  \* the kind of notice: whether one that reached nobody is told again
    now,            \* the clock
    claimedAt,      \* the row: the moment of the claim that holds it, or None
    delivered,      \* the row: None, or whom it reached
    at,             \* where each call is
    takenAt,        \* the moment each call claims with
    sent            \* the calls whose notice reached the subscriber

noticeVars == <<retriesNobody, now, claimedAt, delivered, at, takenAt, sent>>

None == -1

Places == {"idle", "claiming", "sending", "late", "answered", "nobody", "failed",
           "recorded", "given up", "stopped"}

\* The clock, the row and the calls hold moments, recipients and places.
NoticeTypeOK ==
    /\ retriesNobody \in BOOLEAN
    /\ now \in Nat
    /\ claimedAt \in Nat \union {None}
    /\ delivered \in {"no", "somebody", "nobody"}
    /\ at \in [Tells -> Places]
    /\ takenAt \in [Tells -> Nat]
    /\ sent \in SUBSET Tells

NoticeInit ==
    /\ retriesNobody \in BOOLEAN
    /\ now = 0
    /\ claimedAt = None
    /\ delivered = "no"
    /\ at = [t \in Tells |-> "idle"]
    /\ takenAt = [t \in Tells |-> 0]
    /\ sent = {}

TellGoes(t, place) == at' = [at EXCEPT ![t] = place]

-----------------------------------------------------------------------------
(* The row. *)

\* Not delivered, and held by no claim younger than the lease.
Claimable(moment) ==
    /\ delivered = "no"
    /\ claimedAt = None \/ claimedAt < moment - Lease

\* Mutant: whether it is delivered or not.
ClaimedBy(t) == claimedAt = takenAt[t]

HeldBy(t) == claimedAt = takenAt[t] /\ delivered = "no"

-----------------------------------------------------------------------------
(* tell *)

\* Mutant: stamped with the moment before which a claim is stale.
TakenBefore(t) ==
    /\ at[t] = "idle"
    /\ takenAt' = [takenAt EXCEPT ![t] = now - Lease]
    /\ TellGoes(t, "claiming")
    /\ UNCHANGED <<retriesNobody, now, claimedAt, delivered, sent>>

Take(t) ==
    /\ at[t] = "idle"
    /\ takenAt' = [takenAt EXCEPT ![t] = now]
    /\ TellGoes(t, "claiming")
    /\ UNCHANGED <<retriesNobody, now, claimedAt, delivered, sent>>

Claim(t) ==
    /\ at[t] = "claiming"
    /\ IF Claimable(takenAt[t])
       THEN claimedAt' = takenAt[t] /\ TellGoes(t, "sending")
       ELSE UNCHANGED claimedAt /\ TellGoes(t, "given up")
    /\ UNCHANGED <<retriesNobody, now, delivered, takenAt, sent>>

\* The claim throws: it may have been made all the same.
ClaimThrows(t) ==
    /\ at[t] = "claiming"
    /\ claimedAt' \in {claimedAt} \union (IF Claimable(takenAt[t]) THEN {takenAt[t]} ELSE {})
    /\ TellGoes(t, "given up")
    /\ UNCHANGED <<retriesNobody, now, delivered, takenAt, sent>>

\* The application sends it; that it did is not known yet.
Reaches(t) ==
    /\ at[t] \in {"sending", "late"}
    /\ sent' = sent \union {t}
    /\ UNCHANGED <<retriesNobody, now, claimedAt, delivered, at, takenAt>>

\* A delivery that told nobody is let go where such a notice is told again.
AnswersNobody(t) == TellGoes(t, IF retriesNobody THEN "failed" ELSE "nobody")

Answers(t) ==
    /\ at[t] = "sending"
    /\ IF t \in sent THEN TellGoes(t, "answered") ELSE TellGoes(t, "failed") \/ AnswersNobody(t)
    /\ UNCHANGED <<retriesNobody, now, claimedAt, delivered, takenAt, sent>>

\* Mutant: no answer in time lets the claim go.
TimesOutAndLetsGo(t) ==
    /\ at[t] = "sending"
    /\ claimedAt' = IF HeldBy(t) THEN None ELSE claimedAt
    /\ TellGoes(t, "late")
    /\ UNCHANGED <<retriesNobody, now, delivered, takenAt, sent>>

\* No answer in time: the claim is kept while the answer is awaited.
TimesOut(t) ==
    /\ at[t] = "sending"
    /\ TellGoes(t, "late")
    /\ UNCHANGED <<retriesNobody, now, claimedAt, delivered, takenAt, sent>>

\* Mutant: a late answer that names nobody is recorded.
SettlesLateWhoever(t) ==
    /\ at[t] = "late"
    /\ IF t \in sent THEN TellGoes(t, "answered") ELSE TellGoes(t, "failed") \/ TellGoes(t, "nobody")
    /\ UNCHANGED <<retriesNobody, now, claimedAt, delivered, takenAt, sent>>

SettleLate(t) ==
    /\ at[t] = "late"
    /\ IF t \in sent THEN TellGoes(t, "answered") ELSE TellGoes(t, "failed") \/ AnswersNobody(t)
    /\ UNCHANGED <<retriesNobody, now, claimedAt, delivered, takenAt, sent>>

\* confirm, and its refusal where another call took the notice on.
RecordSent(t) ==
    /\ at[t] \in {"answered", "nobody"}
    /\ delivered' = IF ~HeldBy(t) THEN delivered
                    ELSE IF at[t] = "answered" THEN "somebody" ELSE "nobody"
    /\ TellGoes(t, "recorded")
    /\ UNCHANGED <<retriesNobody, now, claimedAt, takenAt, sent>>

\* release, while the claim is this call's.
LetGo(t) ==
    /\ at[t] = "failed"
    /\ claimedAt' = IF HeldBy(t) THEN None ELSE claimedAt
    /\ TellGoes(t, "given up")
    /\ UNCHANGED <<retriesNobody, now, delivered, takenAt, sent>>

\* confirm or release throws, or the instance stops: the claim is left to go stale.
Stops(t) ==
    /\ at[t] \in {"claiming", "sending", "late", "answered", "nobody", "failed"}
    /\ TellGoes(t, "stopped")
    /\ UNCHANGED <<retriesNobody, now, claimedAt, delivered, takenAt, sent>>

Tick ==
    /\ now < Horizon
    /\ now' = now + 1
    /\ UNCHANGED <<retriesNobody, claimedAt, delivered, at, takenAt, sent>>

NoticeNext ==
    \/ \E t \in Tells :
        \/ Take(t) \/ Claim(t) \/ ClaimThrows(t) \/ Reaches(t) \/ Answers(t) \/ TimesOut(t)
        \/ SettleLate(t) \/ RecordSent(t) \/ LetGo(t) \/ Stops(t)
    \/ Tick

NoticeSpec == NoticeInit /\ [][NoticeNext]_noticeVars

-----------------------------------------------------------------------------
\* A call that may have told the subscriber, or may still.
MayHaveTold(t) == at[t] \in {"sending", "late", "answered", "nobody", "recorded"} \/ t \in sent

Stale(t) == takenAt[t] + Lease < now

\* A notice is taken on only while no delivery is recorded, and once the claim of
\* every call that told the subscriber, or may still, is older than the lease:
\* neither a call whose answer is late, nor one whose claim was taken over and
\* that settles then, nor one whose record failed opens it to a second telling
\* before.
TakenOnOnceStale ==
    [][\A t \in Tells :
        at[t] = "claiming" /\ at'[t] = "sending" =>
            delivered = "no" /\ \A s \in Tells : MayHaveTold(s) => Stale(s)]_noticeVars

\* A notice that is told again until it reaches somebody is recorded as sent
\* only once it did, be the answer in time or late (SC-SUB-038).
RecordedOnceReached == retriesNobody /\ delivered # "no" => delivered = "somebody" /\ sent # {}

\* What is recorded of a notice is recorded once (SC-SUB-023): a call that was
\* overtaken does not write over whom the notice reached.
RecordedOnce == [][delivered # "no" => delivered' = delivered]_noticeVars
=============================================================================
