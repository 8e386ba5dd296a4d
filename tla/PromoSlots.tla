----------------------------- MODULE PromoSlots -----------------------------
(***************************************************************************)
(* The slots of promo codes: redeemed, or held for a checkout's payment     *)
(* form.  A sign-up starts a checkout: it holds a slot of its offer's code  *)
(* while the form opens, opens the form, and moves the slot to the form's   *)
(* end.  Meanwhile others take and redeem slots, the offer's code is        *)
(* changed, a code is paused, and an offer is concluded.                    *)
(*                                                                          *)
(* A member of Starts makes one start after the other.  Every await of a    *)
(* start is a step; a statement or transaction of the store is one.  What a *)
(* start read of the code is kept as it was read.                           *)
(***************************************************************************)
EXTENDS Integers, FiniteSets

CONSTANTS
    PromoCodes, NoCode,
    Offers,         \* the checkout offers, each of one sign-up and its subscription
    NoOffer,
    Started,        \* those that are started and changed; the others are only concluded
    Starts,         \* the requests that start a checkout
    Limit,          \* maxRedemptions of every code
    OpeningTime,    \* how long a slot is held while a form opens
    FormTime,       \* for how long a confirmation of a form can arrive
    LastStart,      \* bound on the clock
    MaxChanges      \* bound on the changes of offers and of codes

ASSUME PromoAssumption ==
    /\ NoCode \notin PromoCodes
    /\ IsFiniteSet(Offers) /\ NoOffer \notin Offers /\ Started \subseteq Offers
    /\ Limit \in Nat /\ OpeningTime \in Nat \ {0} /\ FormTime \in Nat \ {0}
    /\ LastStart \in Nat /\ MaxChanges \in Nat

VARIABLES
    promoNow,       \* the clock
    codes,          \* promo_codes: redeemed and held slots, and the status
    offers,         \* the offers: the code each carries, and whether it is open
    holds,          \* promo_code_holds: the slot each offer holds, or NoHold
    redemptions,    \* promo_code_redemptions: what each subscription redeemed
    starts,         \* where each start is
    carried,        \* the codes each offer has carried: what an update may have read of it
    changing,       \* how many updates of each offer have yet to give its old slot back
    form,           \* history: until when a form of the offer can be confirmed, or Changed
    begun,          \* history: when the last start of the offer began
    changes         \* how often an offer or a code was changed, for its bound

promoVars ==
    <<promoNow, codes, offers, holds, redemptions, starts, carried, changing, form, begun, changes>>

\* What only a start or an update writes.
formVars == <<form, begun>>
updateVars == <<carried, changing>>

\* No form of an offer whose code was changed is promised its slot.
Changed == -1

NoHold == [code |-> NoCode, until |-> 0]

NoRedemption == [code |-> NoCode, reversed |-> FALSE]

NoStart ==
    [place |-> "idle", offer |-> NoOffer, code |-> NoCode, startedAt |-> 0, opened |-> FALSE,
     offerReads |-> 0, holdReads |-> 0]

StartPlaces == {"idle", "reading", "looking", "judging", "extending", "releasing", "taking",
                "verifying", "dropping", "opening", "giving back"}

\* The rows and the starts are of their kinds.
PromoTypeOK ==
    /\ promoNow \in 0 .. LastStart
    /\ codes \in [PromoCodes -> [redeemed : 0 .. Limit, held : 0 .. Limit,
                                 status : {"ACTIVE", "PAUSED", "EXHAUSTED"}]]
    /\ offers \in [Offers -> [code : PromoCodes \union {NoCode}, open : BOOLEAN]]
    /\ holds \in [Offers -> [code : PromoCodes \union {NoCode}, until : Nat]]
    /\ redemptions \in [Offers -> [code : PromoCodes \union {NoCode}, reversed : BOOLEAN]]
    /\ starts \in [Starts -> [place : StartPlaces, offer : Offers \union {NoOffer},
                              code : PromoCodes \union {NoCode}, startedAt : Nat, opened : BOOLEAN,
                              offerReads : 0 .. 2, holdReads : 0 .. 1]]
    /\ carried \in [Offers -> SUBSET (PromoCodes \union {NoCode})]
    /\ changing \in [Offers -> Nat]
    /\ form \in [Offers -> Nat \union {Changed}]
    /\ begun \in [Offers -> Nat]
    /\ changes \in 0 .. MaxChanges

PromoInit ==
    /\ promoNow = 0
    /\ codes = [c \in PromoCodes |-> [redeemed |-> 0, held |-> 0, status |-> "ACTIVE"]]
    /\ offers \in [Offers -> [code : PromoCodes, open : {TRUE}]]
    /\ holds = [o \in Offers |-> NoHold]
    /\ redemptions = [o \in Offers |-> NoRedemption]
    /\ starts = [s \in Starts |-> NoStart]
    /\ carried \in [Offers -> SUBSET (PromoCodes \union {NoCode})]
    /\ \A o \in Offers : offers[o].code \in carried[o]
    /\ changing = [o \in Offers |-> 0]
    /\ form = [o \in Offers |-> 0]
    /\ begun = [o \in Offers |-> 0]
    /\ changes = 0

-----------------------------------------------------------------------------
(* The slots *)

HoldOf(offer) == holds[offer].code # NoCode

\* Mutant: the slots held are not counted.
HasFreeSlotUnheld(row) == row.status = "ACTIVE" /\ row.redeemed < Limit

HasFreeSlot(row) == row.status = "ACTIVE" /\ row.redeemed + row.held < Limit

FreedOf(c, n) == [codes EXCEPT ![c].held = IF @ > n THEN @ - n ELSE 0]

\* The hold of the offer ends, whatever code it is of, and its slot is free.
ReleaseHold(o) ==
    /\ codes' = IF HoldOf(o) THEN FreedOf(holds[o].code, 1) ELSE codes
    /\ holds' = [holds EXCEPT ![o] = NoHold]

\* The offers whose hold of the code has run out.
Due(c) == {o \in Offers : holds[o].code = c /\ holds[o].until <= promoNow}

\* expireDue of one code.
Expired(c) == FreedOf(c, Cardinality(Due(c)))

WithoutDue(c) == [o \in Offers |-> IF o \in Due(c) THEN NoHold ELSE holds[o]]

-----------------------------------------------------------------------------
(* startCheckout: holdPromoCode while the form opens, and again to its end *)

Until(start) == start.startedAt + IF start.opened THEN FormTime ELSE OpeningTime

StartGoes(s, place) == starts' = [starts EXCEPT ![s].place = place]

StartOver(s) == starts' = [starts EXCEPT ![s] = NoStart]

\* What was read of the offer and of the code is not used again.
StartAsksFor(s, place) ==
    starts' = [starts EXCEPT ![s] = [@ EXCEPT !.place = place, !.code = NoCode,
                                              !.offerReads = 0, !.holdReads = 0]]

\* The slot is the start's; the offer is read again.
StartHolds(s) == starts' = [starts EXCEPT ![s].place = "verifying", ![s].holdReads = 0]

\* The hold is refused: before the form is asked for, that is the answer; after,
\* the slot is given back first.
RefusedStart(s) == IF starts[s].opened THEN StartAsksFor(s, "giving back") ELSE StartOver(s)

BeginStart(s, o) ==
    /\ starts[s].place = "idle"
    /\ starts' = [starts EXCEPT ![s] =
                     [NoStart EXCEPT !.place = "reading", !.offer = o, !.startedAt = promoNow]]
    /\ begun' = [begun EXCEPT ![o] = promoNow]
    /\ UNCHANGED <<promoNow, codes, offers, holds, redemptions, updateVars, form, changes>>

ReadOffer(s) ==
    LET offer == offers[starts[s].offer]
    IN /\ starts[s].place = "reading"
       /\ IF ~offer.open THEN RefusedStart(s)
          ELSE starts' = [starts EXCEPT ![s].code = offer.code,
                            ![s].place = IF offer.code = NoCode THEN "dropping" ELSE "looking"]
       /\ UNCHANGED <<promoNow, codes, offers, holds, redemptions, updateVars, formVars, changes>>

\* findWithLiveHolds: the ended holds of the code give their slots back.
ReadCode(s) ==
    LET c == starts[s].code
    IN /\ starts[s].place = "looking"
       /\ codes' = Expired(c)
       /\ holds' = WithoutDue(c)
       /\ starts' = [starts EXCEPT ![s].place = "judging"]
       /\ UNCHANGED <<promoNow, offers, redemptions, updateVars, formVars, changes>>

\* The code, as it was read, may be refused for its state, its slots, the plan or
\* the customer; a slot the offer holds of it is its own, one of another code is
\* given back.
Judge(s) ==
    LET hold == holds[starts[s].offer]
        place == CASE hold.code = starts[s].code -> "extending"
                   [] hold.code = NoCode -> "taking"
                   [] OTHER -> "releasing"
    IN /\ starts[s].place = "judging"
       /\ StartGoes(s, place) \/ RefusedStart(s)
       /\ UNCHANGED <<promoNow, codes, offers, holds, redemptions, updateVars, formVars, changes>>

\* Never earlier.
Later(until, to) == IF to > until THEN to ELSE until

Extend(s) ==
    LET o == starts[s].offer
    IN /\ starts[s].place = "extending"
       /\ IF holds[o].code = starts[s].code
          THEN /\ holds' = [holds EXCEPT ![o].until = Later(@, Until(starts[s]))]
               /\ StartHolds(s)
          ELSE UNCHANGED holds /\ StartGoes(s, "taking")
       /\ UNCHANGED <<promoNow, codes, offers, redemptions, updateVars, formVars, changes>>

ReleaseOther(s) ==
    /\ starts[s].place = "releasing"
    /\ ReleaseHold(starts[s].offer)
    /\ StartGoes(s, "taking")
    /\ UNCHANGED <<promoNow, offers, redemptions, updateVars, formVars, changes>>

\* Mutant: a slot is taken whether one is free or not.
TakeSlotBeyond(s) ==
    LET o == starts[s].offer
        c == starts[s].code
    IN /\ starts[s].place = "taking"
       /\ codes' = [codes EXCEPT ![c].held = @ + 1]
       /\ holds' = [holds EXCEPT ![o] = [code |-> c, until |-> Until(starts[s])]]
       /\ StartHolds(s)
       /\ UNCHANGED <<promoNow, offers, redemptions, updateVars, formVars, changes>>

\* take: one hold per offer, and a free slot of the code.
TakeSlot(s) ==
    LET o == starts[s].offer
        c == starts[s].code
    IN /\ starts[s].place = "taking"
       /\ IF HoldOf(o)
          THEN /\ UNCHANGED <<codes, holds>>
               /\ IF starts[s].holdReads = 1 THEN RefusedStart(s)
                  ELSE starts' = [starts EXCEPT ![s].place = "judging", ![s].holdReads = 1]
          ELSE IF HasFreeSlot(codes[c])
          THEN /\ codes' = [codes EXCEPT ![c].held = @ + 1]
               /\ holds' = [holds EXCEPT ![o] = [code |-> c, until |-> Until(starts[s])]]
               /\ StartHolds(s)
          ELSE UNCHANGED <<codes, holds>> /\ RefusedStart(s)
       /\ UNCHANGED <<promoNow, offers, redemptions, updateVars, formVars, changes>>

\* What holds a slot, or needs none: the form is asked for, or may be paid on.
Held(s) ==
    LET o == starts[s].offer
    IN IF ~starts[s].opened
       THEN StartAsksFor(s, "opening") /\ UNCHANGED form
       ELSE /\ StartOver(s)
            /\ form' = IF form[o] = Changed THEN form
                       ELSE [form EXCEPT ![o] = Later(@, Until(starts[s]))]

\* The offer is read again: another code is held instead, three times in all.
Verify(s) ==
    /\ starts[s].place = "verifying"
    /\ IF offers[starts[s].offer].code = starts[s].code THEN Held(s)
       ELSE /\ starts' = IF starts[s].offerReads = 2 THEN [starts EXCEPT ![s].place = "dropping"]
                         ELSE [starts EXCEPT ![s].place = "reading", ![s].offerReads = @ + 1]
            /\ UNCHANGED form
    /\ UNCHANGED <<promoNow, codes, offers, holds, redemptions, updateVars, begun, changes>>

\* An offer without a code holds nothing, nor one whose code keeps changing.
Drop(s) ==
    /\ starts[s].place = "dropping"
    /\ ReleaseHold(starts[s].offer)
    /\ IF starts[s].code = NoCode THEN Held(s) ELSE RefusedStart(s) /\ UNCHANGED form
    /\ UNCHANGED <<promoNow, offers, redemptions, updateVars, begun, changes>>

\* The gateway opens the form, or fails to.
OpenForm(s) ==
    /\ starts[s].place = "opening"
    /\ \/ starts' = [starts EXCEPT ![s].place = "reading", ![s].opened = TRUE]
       \/ StartGoes(s, "giving back")
    /\ UNCHANGED <<promoNow, codes, offers, holds, redemptions, updateVars, formVars, changes>>

\* Mutant: whatever another start made of the hold.
IsUnmovedEver(start) == TRUE

\* The hold is still until the end this start first held it to.
IsUnmoved(start) == holds[start.offer].until = start.startedAt + OpeningTime

\* A start that fails gives back the slot that is still held as it took it.
GiveBackUnmoved(s) ==
    /\ starts[s].place = "giving back"
    /\ IF IsUnmoved(starts[s]) THEN ReleaseHold(starts[s].offer) ELSE UNCHANGED <<codes, holds>>
    /\ StartOver(s)
    /\ UNCHANGED <<promoNow, offers, redemptions, updateVars, formVars, changes>>

-----------------------------------------------------------------------------
(* The offer *)

\* The code of an open offer is changed, removed or left; what the update read of it,
\* before it was priced again, may be a code the offer no longer carries.  A code
\* that is not the one read gives its slot back next.
UpdateOffer(o, read, c) ==
    /\ offers[o].open /\ read \in carried[o] /\ (c # read \/ c # offers[o].code)
    /\ offers' = [offers EXCEPT ![o].code = c]
    /\ carried' = [carried EXCEPT ![o] = @ \union {c}]
    /\ changing' = [changing EXCEPT ![o] = @ + IF c # read THEN 1 ELSE 0]
    /\ form' = [form EXCEPT ![o] = Changed]
    /\ UNCHANGED <<promoNow, codes, holds, redemptions, starts, begun>>
    /\ changes < MaxChanges /\ changes' = changes + 1

GiveBackReplaced(o) ==
    /\ changing[o] > 0
    /\ ReleaseHold(o)
    /\ changing' = [changing EXCEPT ![o] = @ - 1]
    /\ UNCHANGED <<promoNow, offers, redemptions, starts, carried, formVars, changes>>

MarkedIfFull(row) ==
    IF row.status = "ACTIVE" /\ row.redeemed >= Limit
    THEN [row EXCEPT !.status = "EXHAUSTED"] ELSE row

Converted(row) == [row EXCEPT !.redeemed = @ + 1, !.held = IF @ > 0 THEN @ - 1 ELSE 0]

Claimed(row) == [row EXCEPT !.redeemed = @ + 1]

\* The live hold is handed over, and the redemption turns it into its slot ...
RedeemHeld(o, c) ==
    /\ holds[o].code = c /\ holds[o].until > promoNow
    /\ codes' = [codes EXCEPT ![c] = MarkedIfFull(Converted(@))]
    /\ holds' = [holds EXCEPT ![o] = NoHold]

\* ... or it claims a free one, once the ended holds gave theirs back.
RedeemFree(o, c) ==
    /\ ~(holds[o].code = c /\ holds[o].until > promoNow)
    /\ HasFreeSlot(Expired(c)[c])
    /\ LET other == HoldOf(o) /\ holds[o].until > promoNow
       IN /\ codes' = [d \in PromoCodes |->
                          IF d = c THEN MarkedIfFull(Claimed(Expired(c)[c]))
                          ELSE IF other /\ d = holds[o].code THEN FreedOf(d, 1)[d]
                          ELSE codes[d]]
          /\ holds' = IF other THEN [WithoutDue(c) EXCEPT ![o] = NoHold] ELSE WithoutDue(c)

\* conclude, one transaction: the offer is consumed and its code redeemed, or
\* neither.  Without a code what it still holds is released.
Conclude(o) ==
    LET c == offers[o].code
    IN /\ offers[o].open
       /\ offers' = [offers EXCEPT ![o].open = FALSE]
       /\ IF c = NoCode
          THEN /\ IF holds[o].until > promoNow THEN ReleaseHold(o) ELSE UNCHANGED <<codes, holds>>
               /\ UNCHANGED redemptions
          ELSE /\ RedeemHeld(o, c) \/ RedeemFree(o, c)
               /\ redemptions' = [redemptions EXCEPT ![o] = [code |-> c, reversed |-> FALSE]]
       /\ UNCHANGED <<promoNow, starts, updateVars, formVars, changes>>

\* Mutant: a reversal gives the slot back again.
UnreversedAny(o) == redemptions[o].code # NoCode

Unreversed(o) == redemptions[o].code # NoCode /\ ~redemptions[o].reversed

\* reverse: the slot goes back once, and an exhausted code is active again.
Reverse(o) ==
    LET c == redemptions[o].code
    IN /\ Unreversed(o)
       /\ redemptions' = [redemptions EXCEPT ![o].reversed = TRUE]
       /\ codes' = [codes EXCEPT
                       ![c].redeemed = IF @ > 0 THEN @ - 1 ELSE 0,
                       ![c].status = IF @ = "EXHAUSTED" THEN "ACTIVE" ELSE @]
       /\ UNCHANGED <<promoNow, offers, holds, starts, updateVars, formVars, changes>>

-----------------------------------------------------------------------------
(* The codes *)

\* An operator pauses a code or activates it, exhausted or not.
SetStatus(c, status) ==
    /\ codes[c].status # status
    /\ codes' = [codes EXCEPT ![c].status = status]
    /\ changes < MaxChanges /\ changes' = changes + 1
    /\ UNCHANGED <<promoNow, offers, holds, redemptions, starts, updateVars, formVars>>

\* A preview, or the nightly sweep, ends the holds that have run out.
ExpireDue(c) ==
    /\ Due(c) # {}
    /\ codes' = Expired(c)
    /\ holds' = WithoutDue(c)
    /\ UNCHANGED <<promoNow, offers, redemptions, starts, updateVars, formVars, changes>>

TimePasses ==
    /\ promoNow < LastStart
    /\ promoNow' = promoNow + 1
    /\ UNCHANGED <<codes, offers, holds, redemptions, starts, updateVars, formVars, changes>>

PromoNext ==
    \/ \E s \in Starts :
        \/ \E o \in Started : BeginStart(s, o)
        \/ ReadOffer(s) \/ ReadCode(s) \/ Judge(s) \/ Extend(s) \/ ReleaseOther(s) \/ TakeSlot(s)
        \/ Verify(s) \/ Drop(s) \/ OpenForm(s) \/ GiveBackUnmoved(s)
    \/ \E o \in Started :
        \/ \E read, c \in PromoCodes \union {NoCode} : UpdateOffer(o, read, c)
        \/ GiveBackReplaced(o)
    \/ \E o \in Offers : Conclude(o) \/ Reverse(o)
    \/ \E c \in PromoCodes :
        \/ \E status \in {"ACTIVE", "PAUSED"} : SetStatus(c, status)
        \/ ExpireDue(c)
    \/ TimePasses

PromoSpec == PromoInit /\ [][PromoNext]_promoVars

-----------------------------------------------------------------------------
\* What a code counts as held and as redeemed is what its holds and redemptions
\* come to: a slot taken, moved, lapsed, converted, given back or reversed is
\* counted once, whoever else did the same (SC-PROMO-001, SC-PROMO-002).
SlotsAreCounted ==
    \A c \in PromoCodes :
        /\ codes[c].held = Cardinality({o \in Offers : holds[o].code = c})
        /\ codes[c].redeemed = Cardinality({o \in Offers : redemptions[o].code = c
                                                           /\ ~redemptions[o].reversed})

\* A code is never redeemed and held more often than its limit (SC-PROMO-002).
NeverOversold == \A c \in PromoCodes : codes[c].redeemed + codes[c].held <= Limit

\* The offer holds a slot of its code as long as its form can be confirmed.
HoldsToTheEnd(o) ==
    offers[o].open /\ offers[o].code # NoCode /\ promoNow < form[o] =>
        holds[o].code = offers[o].code /\ holds[o].until >= form[o]

\* A form that can still be confirmed keeps its slot until it no longer can,
\* whatever becomes of another start of its checkout, as the code says; unless the
\* offer's code was changed (pending-registration.service.ts:270; SC-PROMO-024).
FormKeepsItsSlot == \A o \in Offers : HoldsToTheEnd(o)

\* It keeps it unless a start began so shortly before the form's end that the slot,
\* held while another form opens, was not moved: that start gives it back when it
\* fails (pending-registration.service.ts:276-329; SC-PROMO-023, SC-PROMO-024).
KeptUnlessStartedLate ==
    \A o \in Offers : begun[o] + OpeningTime < form[o] => HoldsToTheEnd(o)
=============================================================================
