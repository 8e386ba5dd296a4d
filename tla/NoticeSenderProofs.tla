------------------------- MODULE NoticeSenderProofs -------------------------
(***************************************************************************)
(* What holds of NoticeSender for any number of calls, any lease and either *)
(* treatment of a notice that reached nobody.                               *)
(***************************************************************************)
EXTENDS NoticeSender, TLAPS

\* The claim of a call in hand: it may have told the subscriber, or is about to
\* let its claim go.
Holds(t) == MayHaveTold(t) \/ at[t] = "failed"

\* No call claims with a moment that is still to come.
TakenInThePast == \A t \in Tells : takenAt[t] <= now

\* A call sends nothing before its claim, and none that failed has sent it.
SentWhileHeld ==
    \A t \in Tells : at[t] \in {"idle", "claiming", "failed", "given up"} => t \notin sent

\* A call in hand has the row, unless its claim is stale or the notice is recorded.
HoldsItsClaim ==
    \A t \in Tells : Holds(t) => Stale(t) \/ delivered # "no" \/ claimedAt = takenAt[t]

\* Of two calls that claimed with the same moment neither lets go of a claim of
\* the other that is not stale.
OneFreshClaim ==
    \A s, t \in Tells : s # t /\ Holds(s) /\ Holds(t) /\ takenAt[s] = takenAt[t] => Stale(s)

ClaimInv == NoticeTypeOK /\ TakenInThePast /\ SentWhileHeld /\ HoldsItsClaim /\ OneFreshClaim

-----------------------------------------------------------------------------
\* Where a notice may be taken on, no call in hand has a claim that is not stale.
LEMMA ClaimableOnceStale ==
    ASSUME ClaimInv, NEW t \in Tells, NEW s \in Tells, Claimable(takenAt[t]), Holds(s)
    PROVE  Stale(s)
<1>1. /\ takenAt \in [Tells -> Nat] /\ now \in Nat /\ claimedAt \in Nat \union {None}
      /\ takenAt[t] <= now
      /\ Stale(s) \/ claimedAt = takenAt[s]
      /\ claimedAt = None \/ claimedAt < takenAt[t] - Lease
  BY DEF ClaimInv, NoticeTypeOK, TakenInThePast, HoldsItsClaim, Claimable
<1>2. CASE claimedAt = takenAt[s]
  BY <1>1, <1>2, NoticeAssumption DEF None, Stale
<1> QED
  BY <1>1, <1>2

\* The variables keep their types.
LEMMA TypeStep == NoticeTypeOK /\ [NoticeNext]_noticeVars => NoticeTypeOK'
<1> SUFFICES ASSUME NoticeTypeOK, [NoticeNext]_noticeVars PROVE NoticeTypeOK'
  OBVIOUS
<1> USE DEF NoticeTypeOK, Places, TellGoes
<1>1. ASSUME NEW t \in Tells, Take(t) PROVE NoticeTypeOK'
  BY <1>1 DEF Take
<1>2. ASSUME NEW t \in Tells, Claim(t) PROVE NoticeTypeOK'
  <2>1. \/ claimedAt' = takenAt[t] /\ at' = [at EXCEPT ![t] = "sending"]
        \/ claimedAt' = claimedAt /\ at' = [at EXCEPT ![t] = "given up"]
    BY <1>2 DEF Claim
  <2>2. at' \in [Tells -> Places] /\ claimedAt' \in Nat \union {None}
    <3>1. /\ at \in [Tells -> Places] /\ takenAt \in [Tells -> Nat]
          /\ claimedAt \in Nat \union {None}
      OBVIOUS
    <3>2. {"sending", "given up"} \subseteq Places /\ t \in Tells
      OBVIOUS
    <3> QED
      BY ONLY <2>1, <3>1, <3>2
  <2>3. UNCHANGED <<retriesNobody, now, delivered, takenAt, sent>>
    BY <1>2 DEF Claim
  <2> QED
    BY <2>2, <2>3
<1>3. ASSUME NEW t \in Tells, ClaimThrows(t) PROVE NoticeTypeOK'
  BY <1>3 DEF ClaimThrows
<1>4. ASSUME NEW t \in Tells, Reaches(t) PROVE NoticeTypeOK'
  BY <1>4 DEF Reaches
<1>5. ASSUME NEW t \in Tells, Answers(t) \/ SettleLate(t) PROVE NoticeTypeOK'
  BY <1>5 DEF Answers, SettleLate, AnswersNobody
<1>6. ASSUME NEW t \in Tells, TimesOut(t) \/ Stops(t) PROVE NoticeTypeOK'
  BY <1>6 DEF TimesOut, Stops
<1>7. ASSUME NEW t \in Tells, RecordSent(t) PROVE NoticeTypeOK'
  BY <1>7 DEF RecordSent
<1>8. ASSUME NEW t \in Tells, LetGo(t) PROVE NoticeTypeOK'
  BY <1>8 DEF LetGo
<1>9. CASE Tick
  <2>1. now' \in Nat
    <3>1. now \in Nat
      OBVIOUS
    <3>2. now' = now + 1
      BY <1>9 DEF Tick
    <3> QED
      BY ONLY <3>1, <3>2
  <2>2. UNCHANGED <<retriesNobody, claimedAt, delivered, at, takenAt, sent>>
    BY <1>9 DEF Tick
  <2> QED
    BY <2>1, <2>2
<1>10. CASE UNCHANGED noticeVars
  BY <1>10 DEF noticeVars
<1> QED
  BY <1>1, <1>2, <1>3, <1>4, <1>5, <1>6, <1>7, <1>8, <1>9, <1>10 DEF NoticeNext

\* A step of a call that claims nothing and lets nothing go: it is in hand after
\* the step only where it was before, and has sent the notice only from there.
LEMMA QuietStep ==
    ASSUME ClaimInv, NoticeTypeOK', NEW t \in Tells,
           now' = now, claimedAt' = claimedAt, takenAt' = takenAt,
           delivered' = delivered \/ delivered' # "no",
           \A s \in Tells \ {t} : at'[s] = at[s] /\ (s \in sent' <=> s \in sent),
           Holds(t)' => Holds(t),
           at'[t] \in {"idle", "claiming", "failed", "given up"} => t \notin sent'
    PROVE  ClaimInv'
<1>1. \A s \in Tells : (Holds(s)' => Holds(s)) /\ (Stale(s)' <=> Stale(s))
  BY DEF Holds, MayHaveTold, Stale
<1>2. TakenInThePast' /\ SentWhileHeld'
  BY DEF ClaimInv, TakenInThePast, SentWhileHeld
<1>3. HoldsItsClaim' /\ OneFreshClaim'
  BY <1>1 DEF ClaimInv, HoldsItsClaim, OneFreshClaim
<1> QED
  BY <1>2, <1>3 DEF ClaimInv

LEMMA ClaimInvStep == ClaimInv /\ [NoticeNext]_noticeVars => ClaimInv'
<1> SUFFICES ASSUME ClaimInv, [NoticeNext]_noticeVars PROVE ClaimInv'
  OBVIOUS
<1>0. NoticeTypeOK /\ NoticeTypeOK'
  BY TypeStep DEF ClaimInv
<1>1. ASSUME NEW t \in Tells, Take(t) PROVE ClaimInv'
  <2>1. at' = [at EXCEPT ![t] = "claiming"] /\ takenAt' = [takenAt EXCEPT ![t] = now]
        /\ UNCHANGED <<retriesNobody, now, claimedAt, delivered, sent>> /\ at[t] = "idle"
    BY <1>1 DEF Take, TellGoes
  <2>2. /\ t \notin sent
        /\ at \in [Tells -> Places] /\ takenAt \in [Tells -> Nat] /\ now \in Nat
    BY <1>0, <2>1 DEF ClaimInv, SentWhileHeld, NoticeTypeOK
  <2>3. ~Holds(t)'
    BY <2>1, <2>2 DEF Holds, MayHaveTold
  <2>4. \A s \in Tells \ {t} : takenAt'[s] = takenAt[s] /\ (Holds(s)' <=> Holds(s)) /\ (Stale(s)' <=> Stale(s))
    BY <2>1, <2>2 DEF Holds, MayHaveTold, Stale
  <2>5. TakenInThePast' /\ SentWhileHeld'
    <3>1. TakenInThePast'
      BY <2>1, <2>2 DEF ClaimInv, TakenInThePast
    <3> QED
      BY <2>1, <2>2, <3>1 DEF ClaimInv, SentWhileHeld
  <2>6. HoldsItsClaim' /\ OneFreshClaim'
    BY <2>1, <2>3, <2>4 DEF ClaimInv, HoldsItsClaim, OneFreshClaim
  <2> QED
    BY <1>0, <2>5, <2>6 DEF ClaimInv
<1>2. ASSUME NEW t \in Tells, Claim(t) \/ ClaimThrows(t), Claimable(takenAt[t]), claimedAt' = takenAt[t]
      PROVE ClaimInv'
  <2>1. /\ UNCHANGED <<retriesNobody, now, delivered, takenAt, sent>> /\ at[t] = "claiming"
        /\ at' = [at EXCEPT ![t] = at'[t]]
        /\ at'[t] \in {"sending", "given up"}
    BY <1>0, <1>2 DEF Claim, ClaimThrows, TellGoes, NoticeTypeOK
  <2>2. \A s \in Tells : Holds(s) => Stale(s)
    BY <1>2, ClaimableOnceStale
  <2>3. \A s \in Tells \ {t} : (Holds(s)' <=> Holds(s))
    BY <1>0, <2>1 DEF Holds, MayHaveTold, NoticeTypeOK
  <2>4. \A s \in Tells : (Stale(s)' <=> Stale(s)) /\ takenAt'[s] = takenAt[s]
    BY <2>1 DEF Stale
  <2>5. TakenInThePast'
    BY <2>1 DEF ClaimInv, TakenInThePast
  <2>6. SentWhileHeld'
    BY <1>0, <2>1 DEF ClaimInv, SentWhileHeld, NoticeTypeOK
  <2>7. HoldsItsClaim'
    BY <1>2, <2>2, <2>3, <2>4 DEF HoldsItsClaim
  <2>8. OneFreshClaim'
    <3> SUFFICES ASSUME NEW s \in Tells, NEW u \in Tells, s # u, Holds(s)', Holds(u)',
                        takenAt[s] = takenAt[u]
                 PROVE  Stale(s)
      BY <2>4 DEF OneFreshClaim
    <3>1. Stale(s) <=> Stale(u)
      BY DEF Stale
    <3> QED
      BY <2>2, <2>3, <3>1
  <2> QED
    BY <1>0, <2>5, <2>6, <2>7, <2>8 DEF ClaimInv
<1>3. ASSUME NEW t \in Tells, Claim(t) \/ ClaimThrows(t), claimedAt' = claimedAt, at'[t] = "given up"
      PROVE ClaimInv'
  <2>1. /\ UNCHANGED <<retriesNobody, now, delivered, takenAt, sent>> /\ at[t] = "claiming"
        /\ at' = [at EXCEPT ![t] = "given up"]
    BY <1>0, <1>3 DEF Claim, ClaimThrows, TellGoes, NoticeTypeOK
  <2>2. t \notin sent
    BY <2>1 DEF ClaimInv, SentWhileHeld
  <2> QED
    BY <1>0, <1>3, <2>1, <2>2, QuietStep DEF Holds, MayHaveTold, NoticeTypeOK
<1>4. ASSUME NEW t \in Tells, Reaches(t) PROVE ClaimInv'
  BY <1>0, <1>4, QuietStep DEF Reaches, Holds, MayHaveTold
<1>5. ASSUME NEW t \in Tells, Answers(t) \/ SettleLate(t) PROVE ClaimInv'
  BY <1>0, <1>5, QuietStep DEF Answers, SettleLate, AnswersNobody, TellGoes, Holds, MayHaveTold, NoticeTypeOK
<1>6. ASSUME NEW t \in Tells, TimesOut(t) \/ Stops(t) PROVE ClaimInv'
  BY <1>0, <1>6, QuietStep DEF TimesOut, Stops, TellGoes, Holds, MayHaveTold, NoticeTypeOK
<1>7. ASSUME NEW t \in Tells, RecordSent(t) PROVE ClaimInv'
  BY <1>0, <1>7, QuietStep DEF RecordSent, TellGoes, Holds, MayHaveTold, NoticeTypeOK
<1>8. ASSUME NEW t \in Tells, LetGo(t) PROVE ClaimInv'
  <2>1. /\ UNCHANGED <<retriesNobody, now, delivered, takenAt, sent>> /\ at[t] = "failed"
        /\ at' = [at EXCEPT ![t] = "given up"]
        /\ claimedAt' = claimedAt \/ (claimedAt = takenAt[t] /\ claimedAt' = None)
    BY <1>8 DEF LetGo, TellGoes, HeldBy
  <2>2. t \notin sent
    BY <2>1 DEF ClaimInv, SentWhileHeld
  <2>3. ~Holds(t)' /\ Holds(t)
    BY <1>0, <2>1, <2>2 DEF Holds, MayHaveTold, NoticeTypeOK
  <2>4. \A s \in Tells : Stale(s)' <=> Stale(s)
    BY <2>1 DEF Stale
  <2>5. \A s \in Tells \ {t} : (Holds(s)' <=> Holds(s))
    BY <1>0, <2>1 DEF Holds, MayHaveTold, NoticeTypeOK
  <2>6. TakenInThePast' /\ SentWhileHeld'
    <3>1. TakenInThePast'
      BY <2>1 DEF ClaimInv, TakenInThePast
    <3>2. \A s \in Tells : at'[s] = IF s = t THEN "given up" ELSE at[s]
      BY <1>0, <2>1 DEF NoticeTypeOK
    <3> QED
      BY <2>1, <2>2, <3>1, <3>2 DEF ClaimInv, SentWhileHeld
  <2>7. HoldsItsClaim'
    <3> SUFFICES ASSUME NEW s \in Tells, Holds(s)', ~Stale(s), delivered = "no"
                 PROVE  claimedAt' = takenAt[s]
      BY <2>1, <2>4 DEF HoldsItsClaim
    <3>1. s # t /\ Holds(s) /\ claimedAt = takenAt[s]
      BY <2>3, <2>5 DEF ClaimInv, HoldsItsClaim
    <3>2. takenAt[s] # takenAt[t]
      BY <2>3, <3>1 DEF ClaimInv, OneFreshClaim
    <3> QED
      BY <2>1, <3>1, <3>2
  <2>8. OneFreshClaim'
    BY <2>1, <2>3, <2>4, <2>5 DEF ClaimInv, OneFreshClaim
  <2> QED
    BY <1>0, <2>6, <2>7, <2>8 DEF ClaimInv
<1>9. CASE Tick
  <2>1. /\ now' = now + 1 /\ UNCHANGED <<retriesNobody, claimedAt, delivered, at, takenAt, sent>>
        /\ now \in Nat /\ takenAt \in [Tells -> Nat]
    BY <1>0, <1>9 DEF Tick, NoticeTypeOK
  <2>2. \A t \in Tells : (Holds(t)' <=> Holds(t)) /\ (Stale(t) => Stale(t)')
    BY <2>1, NoticeAssumption DEF Holds, MayHaveTold, Stale
  <2>3. TakenInThePast'
    BY <2>1 DEF ClaimInv, TakenInThePast
  <2>5. SentWhileHeld'
    BY <2>1 DEF ClaimInv, SentWhileHeld
  <2>4. HoldsItsClaim' /\ OneFreshClaim'
    BY <2>1, <2>2 DEF ClaimInv, HoldsItsClaim, OneFreshClaim
  <2> QED
    BY <1>0, <2>3, <2>4, <2>5 DEF ClaimInv
<1>10. CASE UNCHANGED noticeVars
  BY <1>0, <1>10 DEF noticeVars, ClaimInv, TakenInThePast, SentWhileHeld, HoldsItsClaim, OneFreshClaim,
                     Holds, MayHaveTold, Stale
<1>11. ASSUME NEW t \in Tells, Claim(t) \/ ClaimThrows(t) PROVE ClaimInv'
  <2>1. \/ Claimable(takenAt[t]) /\ claimedAt' = takenAt[t]
        \/ claimedAt' = claimedAt /\ at'[t] = "given up"
    BY <1>0, <1>11 DEF Claim, ClaimThrows, TellGoes, NoticeTypeOK
  <2> QED
    BY <1>2, <1>3, <1>11, <2>1
<1> QED
  BY <1>1, <1>4, <1>5, <1>6, <1>7, <1>8, <1>9, <1>10, <1>11 DEF NoticeNext

LEMMA ClaimInvAlways == NoticeSpec => []ClaimInv
<1>1. NoticeInit => ClaimInv
  BY DEF NoticeInit, ClaimInv, NoticeTypeOK, Places, None, TakenInThePast, SentWhileHeld, HoldsItsClaim,
         OneFreshClaim, Holds, MayHaveTold
<1> QED
  BY <1>1, ClaimInvStep, PTL DEF NoticeSpec

-----------------------------------------------------------------------------
\* The clock, the row and the calls keep their types: no moment a call claims
\* with lies before the clock began.
THEOREM NoticeTypeCorrect == NoticeSpec => []NoticeTypeOK
<1>1. ClaimInv => NoticeTypeOK
  BY DEF ClaimInv
<1> QED
  BY <1>1, ClaimInvAlways, PTL

\* However many calls and whatever the lease: a notice is taken on only while it
\* is not recorded and every claim under which it was sent, or may still be, is
\* older than the lease.
THEOREM TakenOnOnceStaleAlways == NoticeSpec => TakenOnOnceStale
<1> DEFINE TakesOn == \A t \in Tells :
        at[t] = "claiming" /\ at'[t] = "sending" =>
            delivered = "no" /\ \A s \in Tells : MayHaveTold(s) => Stale(s)
<1>1. ASSUME ClaimInv, [NoticeNext]_noticeVars PROVE TakesOn
  <2> SUFFICES ASSUME NEW t \in Tells, at[t] = "claiming", at'[t] = "sending"
               PROVE  delivered = "no" /\ \A s \in Tells : MayHaveTold(s) => Stale(s)
    OBVIOUS
  <2>1. at \in [Tells -> Places]
    BY <1>1 DEF ClaimInv, NoticeTypeOK
  <2>2. ASSUME NEW u \in Tells,
               Take(u) \/ ClaimThrows(u) \/ Reaches(u) \/ Answers(u) \/ TimesOut(u)
               \/ SettleLate(u) \/ RecordSent(u) \/ LetGo(u) \/ Stops(u)
        PROVE  FALSE
    BY <2>1, <2>2 DEF Take, ClaimThrows, Reaches, Answers, TimesOut, SettleLate, RecordSent, LetGo,
                      Stops, TellGoes, AnswersNobody
  <2>3. ~Tick /\ ~(UNCHANGED noticeVars)
    BY DEF Tick, noticeVars
  <2>4. PICK u \in Tells : Claim(u)
    BY <1>1, <2>2, <2>3 DEF NoticeNext
  <2>5. u = t /\ Claimable(takenAt[t])
    BY <2>1, <2>4 DEF Claim, TellGoes
  <2>6. \A s \in Tells : MayHaveTold(s) => Stale(s)
    BY <1>1, <2>5, ClaimableOnceStale DEF Holds
  <2> QED
    BY <2>5, <2>6 DEF Claimable
<1> QED
  BY <1>1, ClaimInvAlways, PTL DEF NoticeSpec, TakenOnOnceStale

-----------------------------------------------------------------------------
\* Only a call that sent the notice answers whom it reached; where nobody is told
\* again, no answer that names nobody is recorded.
ReachedInv ==
    /\ NoticeTypeOK
    /\ \A t \in Tells : at[t] = "answered" => t \in sent
    /\ retriesNobody => \A t \in Tells : at[t] # "nobody"
    /\ delivered = "somebody" => sent # {}
    /\ retriesNobody => delivered # "nobody"

LEMMA ReachedInvStep == ReachedInv /\ [NoticeNext]_noticeVars => ReachedInv'
<1> SUFFICES ASSUME ReachedInv, [NoticeNext]_noticeVars PROVE ReachedInv'
  OBVIOUS
<1>0. NoticeTypeOK /\ NoticeTypeOK'
  BY TypeStep DEF ReachedInv
<1> USE <1>0 DEF ReachedInv, NoticeTypeOK, TellGoes
<1>1. ASSUME NEW t \in Tells, Take(t) \/ Claim(t) \/ ClaimThrows(t) PROVE ReachedInv'
  BY <1>1 DEF Take, Claim, ClaimThrows
<1>2. ASSUME NEW t \in Tells, Reaches(t) PROVE ReachedInv'
  BY <1>2 DEF Reaches
<1>3. ASSUME NEW t \in Tells, Answers(t) \/ SettleLate(t) PROVE ReachedInv'
  BY <1>3 DEF Answers, SettleLate, AnswersNobody
<1>4. ASSUME NEW t \in Tells, TimesOut(t) \/ Stops(t) \/ LetGo(t) PROVE ReachedInv'
  BY <1>4 DEF TimesOut, Stops, LetGo
<1>5. ASSUME NEW t \in Tells, RecordSent(t) PROVE ReachedInv'
  BY <1>5 DEF RecordSent
<1>6. CASE Tick \/ UNCHANGED noticeVars
  BY <1>6 DEF Tick, noticeVars
<1> QED
  BY <1>1, <1>2, <1>3, <1>4, <1>5, <1>6 DEF NoticeNext

\* A notice told until it reaches somebody is recorded as sent only once it did.
THEOREM RecordedOnceReachedAlways == NoticeSpec => []RecordedOnceReached
<1>1. NoticeInit => ReachedInv
  BY DEF NoticeInit, ReachedInv, NoticeTypeOK, Places, None
<1>2. ReachedInv => RecordedOnceReached
  BY DEF ReachedInv, RecordedOnceReached, NoticeTypeOK
<1> QED
  BY <1>1, <1>2, ReachedInvStep, PTL DEF NoticeSpec

\* What is recorded of a notice is recorded once.
THEOREM RecordedOnceAlways == NoticeSpec => RecordedOnce
<1>1. [NoticeNext]_noticeVars => (delivered # "no" => delivered' = delivered)
  BY DEF NoticeNext, noticeVars, Take, Claim, ClaimThrows, Reaches, Answers, TimesOut, SettleLate, RecordSent,
         HeldBy, LetGo, Stops, Tick
<1> QED
  BY <1>1, PTL DEF NoticeSpec, RecordedOnce
=============================================================================
