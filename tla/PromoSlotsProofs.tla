-------------------------- MODULE PromoSlotsProofs --------------------------
(***************************************************************************)
(* What holds of PromoSlots for any codes, offers, starts and limit: the    *)
(* counts whatever the times are, and that a form keeps its slot unless the *)
(* last start began in the form's last moments.                             *)
(***************************************************************************)
EXTENDS PromoSlots, FiniteSetTheorems, TLAPS

CodeRow == [redeemed : 0 .. Limit, held : 0 .. Limit, status : {"ACTIVE", "PAUSED", "EXHAUSTED"}]

HoldRow == [code : PromoCodes \union {NoCode}, until : Nat]

RedemptionRow == [code : PromoCodes \union {NoCode}, reversed : BOOLEAN]

StartRow == [place : StartPlaces, offer : Offers \union {NoOffer},
             code : PromoCodes \union {NoCode}, startedAt : Nat, opened : BOOLEAN,
             offerReads : 0 .. 2, holdReads : 0 .. 1]

HoldersOf(c, hs) == {o \in Offers : hs[o].code = c}

RedeemersOf(c, rs) == {o \in Offers : rs[o].code = c /\ ~rs[o].reversed}

\* The three tables of the slots agree, and no code is beyond its limit.
Sound(cs, hs, rs) ==
    /\ cs \in [PromoCodes -> CodeRow]
    /\ hs \in [Offers -> HoldRow]
    /\ rs \in [Offers -> RedemptionRow]
    /\ \A c \in PromoCodes :
        /\ cs[c].held = Cardinality(HoldersOf(c, hs))
        /\ cs[c].redeemed = Cardinality(RedeemersOf(c, rs))
        /\ cs[c].redeemed + cs[c].held <= Limit

\* An open offer has redeemed nothing yet: it is concluded once.
OpenUnredeemed == \A o \in Offers : offers[o].open => redemptions[o] = NoRedemption

\* A start asks for an offer, and what it holds or takes is of the code it read.
StartsKnow ==
    \A s \in Starts :
        /\ starts[s].place # "idle" => starts[s].offer \in Offers
        /\ starts[s].place \in {"looking", "judging", "extending", "releasing", "taking",
                                "verifying"} => starts[s].code \in PromoCodes

SlotInv == PromoTypeOK /\ Sound(codes, holds, redemptions) /\ OpenUnredeemed /\ StartsKnow

-----------------------------------------------------------------------------
(* The tables.                                                             *)

LEMMA Countable ==
    ASSUME NEW c, NEW hs, NEW rs
    PROVE  /\ IsFiniteSet(HoldersOf(c, hs)) /\ IsFiniteSet(RedeemersOf(c, rs))
           /\ Cardinality(HoldersOf(c, hs)) \in Nat /\ Cardinality(RedeemersOf(c, rs)) \in Nat
<1>1. HoldersOf(c, hs) \in SUBSET Offers /\ RedeemersOf(c, rs) \in SUBSET Offers
  BY DEF HoldersOf, RedeemersOf
<1>2. IsFiniteSet(HoldersOf(c, hs)) /\ IsFiniteSet(RedeemersOf(c, rs))
  BY <1>1, FS_Subset, PromoAssumption
<1> QED
  BY <1>2, FS_CardinalityType

\* Holds of a code end, and as many slots of it are free again.
LEMMA Freeing ==
    ASSUME NEW cs, NEW hs, NEW rs, Sound(cs, hs, rs),
           NEW c \in PromoCodes, NEW D \in SUBSET HoldersOf(c, hs)
    PROVE  Sound([cs EXCEPT ![c].held = IF @ > Cardinality(D) THEN @ - Cardinality(D) ELSE 0],
                 [o \in Offers |-> IF o \in D THEN NoHold ELSE hs[o]], rs)
<1> DEFINE n == Cardinality(D)
           row == [cs[c] EXCEPT !.held = IF cs[c].held > n THEN cs[c].held - n ELSE 0]
           cs2 == [cs EXCEPT ![c] = row]
           hs2 == [o \in Offers |-> IF o \in D THEN NoHold ELSE hs[o]]
<1>1. /\ IsFiniteSet(HoldersOf(c, hs)) /\ Cardinality(HoldersOf(c, hs)) \in Nat
  BY Countable
<1>2. n \in Nat /\ n <= Cardinality(HoldersOf(c, hs))
  BY <1>1, FS_Subset, FS_CardinalityType
<1>3. Cardinality(HoldersOf(c, hs) \ D) = Cardinality(HoldersOf(c, hs)) - n
  <2>1. HoldersOf(c, hs) \cap D = D
    OBVIOUS
  <2> QED
    BY <1>1, <2>1, FS_Difference
<1>4. hs2 \in [Offers -> HoldRow]
  <2>1. NoHold \in HoldRow
    BY DEF NoHold, HoldRow
  <2> QED
    BY <2>1 DEF Sound
<1>5. HoldersOf(c, hs2) = HoldersOf(c, hs) \ D
  BY PromoAssumption DEF HoldersOf, NoHold
<1>6. \A d \in PromoCodes : d # c => HoldersOf(d, hs2) = HoldersOf(d, hs)
  BY PromoAssumption DEF HoldersOf, NoHold
<1>7. /\ cs[c] \in CodeRow /\ cs[c].held = Cardinality(HoldersOf(c, hs))
      /\ cs[c].redeemed + cs[c].held <= Limit
  BY DEF Sound
<1>8. /\ cs[c].held \in Nat /\ n <= cs[c].held /\ row.held = cs[c].held - n
      /\ row.redeemed = cs[c].redeemed
  <2>1. cs[c].held \in Nat /\ n <= cs[c].held
    BY <1>1, <1>2, <1>7
  <2>2. row.held = (IF cs[c].held > n THEN cs[c].held - n ELSE 0) /\ row.redeemed = cs[c].redeemed
    BY <1>7 DEF CodeRow
  <2> HIDE DEF row, n
  <2> QED
    BY <1>2, <2>1, <2>2
<1>9. row \in CodeRow /\ row.redeemed + row.held <= Limit
  <2>1. row.held \in 0 .. Limit /\ row.redeemed + row.held <= Limit
    <3>1. cs[c].held \in 0 .. Limit /\ cs[c].redeemed \in 0 .. Limit
      BY <1>7 DEF CodeRow
    <3> HIDE DEF row, n
    <3> QED
      BY <1>2, <1>7, <1>8, <3>1, PromoAssumption
  <2> HIDE DEF n
  <2> QED
    BY <1>7, <2>1 DEF CodeRow
<1>10. cs2 \in [PromoCodes -> CodeRow]
  <2> HIDE DEF row
  <2> QED
    BY <1>9 DEF Sound
<1>11. \A d \in PromoCodes : cs2[d] = IF d = c THEN row ELSE cs[d]
  <2> HIDE DEF row
  <2> QED
    BY DEF Sound
<1>12. ASSUME NEW d \in PromoCodes
       PROVE  /\ cs2[d].held = Cardinality(HoldersOf(d, hs2))
              /\ cs2[d].redeemed = Cardinality(RedeemersOf(d, rs))
              /\ cs2[d].redeemed + cs2[d].held <= Limit
  <2>1. CASE d = c
    <3> HIDE DEF row, cs2, hs2, n
    <3> QED
      BY <1>3, <1>5, <1>7, <1>8, <1>9, <1>11, <2>1 DEF Sound
  <2>2. CASE d # c
    <3> HIDE DEF row, cs2, hs2
    <3> QED
      BY <1>6, <1>11, <2>2 DEF Sound
  <2> QED
    BY <2>1, <2>2
<1>13. rs \in [Offers -> RedemptionRow]
  BY DEF Sound
<1>14. Sound(cs2, hs2, rs)
  <2> HIDE DEF cs2, hs2
  <2> QED
    BY <1>4, <1>10, <1>12, <1>13 DEF Sound
<1> QED
  BY <1>14

\* An offer without a hold takes a free slot of a code.
LEMMA Taking ==
    ASSUME NEW cs, NEW hs, NEW rs, Sound(cs, hs, rs),
           NEW c \in PromoCodes, NEW o \in Offers, NEW until \in Nat,
           hs[o].code \notin PromoCodes, HasFreeSlot(cs[c])
    PROVE  Sound([cs EXCEPT ![c].held = @ + 1],
                 [hs EXCEPT ![o] = [code |-> c, until |-> until]], rs)
<1> DEFINE row == [cs[c] EXCEPT !.held = cs[c].held + 1]
           cs2 == [cs EXCEPT ![c] = row]
           hs2 == [hs EXCEPT ![o] = [code |-> c, until |-> until]]
<1>1. HoldersOf(c, hs2) = HoldersOf(c, hs) \union {o} /\ o \notin HoldersOf(c, hs)
  BY DEF HoldersOf, Sound
<1>2. Cardinality(HoldersOf(c, hs2)) = Cardinality(HoldersOf(c, hs)) + 1
  BY <1>1, Countable, FS_AddElement
<1>3. \A d \in PromoCodes : d # c => HoldersOf(d, hs2) = HoldersOf(d, hs)
  BY DEF HoldersOf, Sound
<1>4. hs2 \in [Offers -> HoldRow]
  BY DEF Sound, HoldRow
<1>5. /\ row \in CodeRow /\ row.redeemed + row.held <= Limit
      /\ row.held = cs[c].held + 1 /\ row.redeemed = cs[c].redeemed
  <2>1. /\ cs[c] \in CodeRow /\ cs[c].held \in 0 .. Limit /\ cs[c].redeemed \in 0 .. Limit
        /\ cs[c].redeemed + cs[c].held < Limit
    BY DEF Sound, CodeRow, HasFreeSlot
  <2>2. cs[c].held + 1 \in 0 .. Limit /\ cs[c].redeemed + (cs[c].held + 1) <= Limit
    BY <2>1, PromoAssumption
  <2> QED
    BY <2>1, <2>2 DEF CodeRow
<1>6. cs2 \in [PromoCodes -> CodeRow] /\ \A d \in PromoCodes : cs2[d] = IF d = c THEN row ELSE cs[d]
  <2> HIDE DEF row
  <2> QED
    BY <1>5 DEF Sound
<1>7. ASSUME NEW d \in PromoCodes
      PROVE  /\ cs2[d].held = Cardinality(HoldersOf(d, hs2))
             /\ cs2[d].redeemed = Cardinality(RedeemersOf(d, rs))
             /\ cs2[d].redeemed + cs2[d].held <= Limit
  <2> HIDE DEF row, cs2, hs2
  <2>1. CASE d = c
    BY <1>2, <1>5, <1>6, <2>1 DEF Sound
  <2>2. CASE d # c
    BY <1>3, <1>6, <2>2 DEF Sound
  <2> QED
    BY <2>1, <2>2
<1>8. Sound(cs2, hs2, rs)
  <2> HIDE DEF cs2, hs2
  <2> QED
    BY <1>4, <1>6, <1>7 DEF Sound
<1> QED
  BY <1>8

\* An offer that redeemed nothing redeems a free slot of a code.
LEMMA Claiming ==
    ASSUME NEW cs, NEW hs, NEW rs, Sound(cs, hs, rs),
           NEW c \in PromoCodes, NEW o \in Offers, rs[o] = NoRedemption,
           cs[c].redeemed + cs[c].held < Limit
    PROVE  Sound([cs EXCEPT ![c] = MarkedIfFull(Claimed(@))], hs,
                 [rs EXCEPT ![o] = [code |-> c, reversed |-> FALSE]])
<1> DEFINE row == MarkedIfFull(Claimed(cs[c]))
           cs2 == [cs EXCEPT ![c] = row]
           rs2 == [rs EXCEPT ![o] = [code |-> c, reversed |-> FALSE]]
<1>1. rs2 \in [Offers -> RedemptionRow] /\ rs2[o].code = c /\ rs2[o].reversed = FALSE
      /\ \A p \in Offers : p # o => rs2[p] = rs[p]
  <2> DEFINE redeemed == [code |-> c, reversed |-> FALSE]
  <2>1. redeemed \in RedemptionRow
    BY DEF RedemptionRow
  <2> HIDE DEF redeemed
  <2>2. rs2 \in [Offers -> RedemptionRow] /\ rs2[o] = redeemed
        /\ \A p \in Offers : p # o => rs2[p] = rs[p]
    BY <2>1 DEF Sound, redeemed
  <2> QED
    BY <2>2 DEF redeemed
<1>2. RedeemersOf(c, rs2) = RedeemersOf(c, rs) \union {o} /\ o \notin RedeemersOf(c, rs)
  <2> HIDE DEF rs2
  <2> QED
    BY <1>1, PromoAssumption DEF RedeemersOf, NoRedemption
<1>3. Cardinality(RedeemersOf(c, rs2)) = Cardinality(RedeemersOf(c, rs)) + 1
  BY <1>2, Countable, FS_AddElement
<1>4. \A d \in PromoCodes : d # c => RedeemersOf(d, rs2) = RedeemersOf(d, rs)
  <2> HIDE DEF rs2
  <2> QED
    BY <1>1, PromoAssumption DEF RedeemersOf, NoRedemption
<1>5. /\ row \in CodeRow /\ row.redeemed + row.held <= Limit
      /\ row.redeemed = cs[c].redeemed + 1 /\ row.held = cs[c].held
  <2>1. /\ cs[c] \in CodeRow /\ cs[c].held \in 0 .. Limit /\ cs[c].redeemed \in 0 .. Limit
    BY DEF Sound, CodeRow
  <2>2. cs[c].redeemed + 1 \in 0 .. Limit /\ (cs[c].redeemed + 1) + cs[c].held <= Limit
    BY <2>1, PromoAssumption
  <2>3. /\ Claimed(cs[c]) \in CodeRow /\ Claimed(cs[c]).redeemed = cs[c].redeemed + 1
        /\ Claimed(cs[c]).held = cs[c].held
    BY <2>1, <2>2 DEF Claimed, CodeRow
  <2> QED
    BY <2>2, <2>3 DEF MarkedIfFull, CodeRow
<1>6. cs2 \in [PromoCodes -> CodeRow] /\ \A d \in PromoCodes : cs2[d] = IF d = c THEN row ELSE cs[d]
  <2> HIDE DEF row
  <2> QED
    BY <1>5 DEF Sound
<1>7. ASSUME NEW d \in PromoCodes
      PROVE  /\ cs2[d].held = Cardinality(HoldersOf(d, hs))
             /\ cs2[d].redeemed = Cardinality(RedeemersOf(d, rs2))
             /\ cs2[d].redeemed + cs2[d].held <= Limit
  <2> HIDE DEF row, cs2, rs2
  <2>1. CASE d = c
    BY <1>3, <1>5, <1>6, <2>1 DEF Sound
  <2>2. CASE d # c
    BY <1>4, <1>6, <2>2 DEF Sound
  <2> QED
    BY <2>1, <2>2
<1>8. Sound(cs2, hs, rs2)
  <2> HIDE DEF cs2, rs2
  <2> QED
    BY <1>1, <1>6, <1>7 DEF Sound
<1> QED
  BY <1>8

\* A redemption that was not reversed is, and its slot is free again.
LEMMA Reversing ==
    ASSUME NEW cs, NEW hs, NEW rs, Sound(cs, hs, rs),
           NEW o \in Offers, rs[o].code # NoCode, ~rs[o].reversed
    PROVE  Sound([cs EXCEPT ![rs[o].code].redeemed = IF @ > 0 THEN @ - 1 ELSE 0,
                            ![rs[o].code].status = IF @ = "EXHAUSTED" THEN "ACTIVE" ELSE @],
                 hs, [rs EXCEPT ![o].reversed = TRUE])
<1> DEFINE c == rs[o].code
           row == [cs[c] EXCEPT !.redeemed = IF cs[c].redeemed > 0 THEN cs[c].redeemed - 1 ELSE 0,
                                !.status = IF cs[c].status = "EXHAUSTED" THEN "ACTIVE"
                                           ELSE cs[c].status]
           cs2 == [cs EXCEPT ![c] = row]
           rs2 == [rs EXCEPT ![o].reversed = TRUE]
<1>1. c \in PromoCodes /\ rs2 \in [Offers -> RedemptionRow]
      /\ rs2[o].code = c /\ rs2[o].reversed = TRUE
      /\ \A p \in Offers : p # o => rs2[p] = rs[p]
  BY DEF Sound, RedemptionRow
<1>2. RedeemersOf(c, rs2) = RedeemersOf(c, rs) \ {o} /\ o \in RedeemersOf(c, rs)
  <2> HIDE DEF rs2
  <2> QED
    BY <1>1 DEF RedeemersOf
<1>3. /\ Cardinality(RedeemersOf(c, rs2)) = Cardinality(RedeemersOf(c, rs)) - 1
      /\ Cardinality(RedeemersOf(c, rs)) \in Nat /\ Cardinality(RedeemersOf(c, rs2)) \in Nat
  <2>1. IsFiniteSet(RedeemersOf(c, rs)) /\ Cardinality(RedeemersOf(c, rs)) \in Nat
        /\ Cardinality(RedeemersOf(c, rs2)) \in Nat
    BY Countable
  <2> DEFINE before == RedeemersOf(c, rs)
             after == RedeemersOf(c, rs2)
  <2>2. after = before \ {o} /\ o \in before /\ IsFiniteSet(before)
    BY <1>2, <2>1
  <2> HIDE DEF before, after
  <2>3. Cardinality(after) = Cardinality(before) - 1
    BY ONLY <2>2, FS_RemoveElement
  <2> QED
    BY <2>1, <2>3 DEF before, after
<1>4. \A d \in PromoCodes : d # c => RedeemersOf(d, rs2) = RedeemersOf(d, rs)
  <2> HIDE DEF rs2
  <2> QED
    BY <1>1 DEF RedeemersOf
<1>5. /\ row \in CodeRow /\ row.redeemed + row.held <= Limit
      /\ row.redeemed = cs[c].redeemed - 1 /\ row.held = cs[c].held
  <2>1. /\ cs[c] \in CodeRow /\ cs[c].held \in 0 .. Limit /\ cs[c].redeemed \in 0 .. Limit
        /\ cs[c].redeemed + cs[c].held <= Limit
    BY <1>1 DEF Sound, CodeRow
  <2>2. cs[c].redeemed = Cardinality(RedeemersOf(c, rs))
    BY <1>1 DEF Sound
  <2>3. cs[c].redeemed > 0
    BY ONLY <1>3, <2>2
  <2>4. cs[c].redeemed - 1 \in 0 .. Limit /\ (cs[c].redeemed - 1) + cs[c].held <= Limit
    BY ONLY <2>1, <2>3, PromoAssumption
  <2> QED
    BY <2>1, <2>3, <2>4 DEF CodeRow
<1>6. cs2 \in [PromoCodes -> CodeRow] /\ \A d \in PromoCodes : cs2[d] = IF d = c THEN row ELSE cs[d]
  <2> HIDE DEF row, c
  <2> QED
    BY <1>1, <1>5 DEF Sound
<1>7. ASSUME NEW d \in PromoCodes
      PROVE  /\ cs2[d].held = Cardinality(HoldersOf(d, hs))
             /\ cs2[d].redeemed = Cardinality(RedeemersOf(d, rs2))
             /\ cs2[d].redeemed + cs2[d].held <= Limit
  <2> HIDE DEF row, cs2, rs2
  <2>1. CASE d = c
    BY <1>3, <1>5, <1>6, <2>1 DEF Sound
  <2>2. CASE d # c
    BY <1>4, <1>6, <2>2 DEF Sound
  <2> QED
    BY <2>1, <2>2
<1>8. Sound(cs2, hs, rs2)
  <2> HIDE DEF cs2, rs2
  <2> QED
    BY <1>1, <1>6, <1>7 DEF Sound
<1>9. cs2 = [cs EXCEPT ![c].redeemed = IF @ > 0 THEN @ - 1 ELSE 0,
                       ![c].status = IF @ = "EXHAUSTED" THEN "ACTIVE" ELSE @]
  BY <1>1 DEF Sound, CodeRow
<1> QED
  BY <1>8, <1>9

-----------------------------------------------------------------------------
(* What the steps do to the tables.                                        *)

\* The hold of an offer is released.
LEMMA Releasing ==
    ASSUME Sound(codes, holds, redemptions), NEW o \in Offers, ReleaseHold(o)
    PROVE  Sound(codes', holds', redemptions)
<1>1. CASE HoldOf(o)
  <2> DEFINE c == holds[o].code
  <2>1. c \in PromoCodes /\ {o} \in SUBSET HoldersOf(c, holds)
    BY <1>1 DEF HoldOf, Sound, HoldRow, HoldersOf
  <2>2. Cardinality({o}) = 1
    BY FS_Singleton
  <2>3. Sound([codes EXCEPT ![c].held = IF @ > 1 THEN @ - 1 ELSE 0],
              [p \in Offers |-> IF p \in {o} THEN NoHold ELSE holds[p]], redemptions)
    BY <2>1, <2>2, Freeing
  <2>4. holds' = [p \in Offers |-> IF p \in {o} THEN NoHold ELSE holds[p]]
    BY DEF ReleaseHold, Sound
  <2>5. codes' = [codes EXCEPT ![c].held = IF @ > 1 THEN @ - 1 ELSE 0]
    BY <1>1 DEF ReleaseHold, FreedOf
  <2> QED
    BY <2>3, <2>4, <2>5
<1>2. CASE ~HoldOf(o)
  <2>1. codes' = codes /\ holds' = [holds EXCEPT ![o] = NoHold]
    BY <1>2 DEF ReleaseHold
  <2>2. holds' \in [Offers -> HoldRow]
    BY <2>1 DEF Sound, HoldRow, NoHold
  <2>3. \A c \in PromoCodes : HoldersOf(c, holds') = HoldersOf(c, holds)
    BY <1>2, <2>1, PromoAssumption DEF Sound, HoldersOf, HoldOf, NoHold
  <2> QED
    BY <2>1, <2>2, <2>3 DEF Sound
<1> QED
  BY <1>1, <1>2

\* The holds of a code that have run out end.
LEMMA Expiring ==
    ASSUME Sound(codes, holds, redemptions), NEW c \in PromoCodes
    PROVE  Sound(Expired(c), WithoutDue(c), redemptions)
<1>1. Due(c) \in SUBSET HoldersOf(c, holds)
  BY DEF Due, HoldersOf
<1> QED
  BY <1>1, Freeing DEF Expired, FreedOf, WithoutDue

\* An offer's hold is still of its code, whenever it ends now.
LEMMA Extending ==
    ASSUME Sound(codes, holds, redemptions), NEW o \in Offers, NEW until \in Nat
    PROVE  Sound(codes, [holds EXCEPT ![o].until = until], redemptions)
<1> DEFINE hs2 == [holds EXCEPT ![o].until = until]
<1>1. hs2 \in [Offers -> HoldRow] /\ \A p \in Offers : hs2[p].code = holds[p].code
  BY DEF Sound, HoldRow
<1>2. \A c \in PromoCodes : HoldersOf(c, hs2) = HoldersOf(c, holds)
  BY <1>1 DEF HoldersOf
<1> HIDE DEF hs2
<1>3. Sound(codes, hs2, redemptions)
  BY <1>1, <1>2 DEF Sound
<1> QED
  BY <1>3 DEF hs2

\* A live hold is turned into a redemption.
LEMMA RedeemingHeld ==
    ASSUME Sound(codes, holds, redemptions), NEW o \in Offers, NEW c \in PromoCodes,
           redemptions[o] = NoRedemption, RedeemHeld(o, c)
    PROVE  Sound(codes', holds', [redemptions EXCEPT ![o] = [code |-> c, reversed |-> FALSE]])
<1> DEFINE freed == [codes EXCEPT ![c].held = IF @ > 1 THEN @ - 1 ELSE 0]
           without == [p \in Offers |-> IF p \in {o} THEN NoHold ELSE holds[p]]
<1>1. {o} \in SUBSET HoldersOf(c, holds) /\ Cardinality({o}) = 1
  BY FS_Singleton DEF RedeemHeld, HoldersOf
<1>2. Sound(freed, without, redemptions)
  BY <1>1, Freeing
<1>3. Cardinality(HoldersOf(c, holds)) \in Nat /\ 1 <= Cardinality(HoldersOf(c, holds))
  BY <1>1, Countable, FS_Subset
<1>4. /\ codes[c] \in CodeRow /\ codes[c].held \in 0 .. Limit /\ codes[c].redeemed \in 0 .. Limit
      /\ codes[c].redeemed + codes[c].held <= Limit
      /\ codes[c].held = Cardinality(HoldersOf(c, holds))
  BY DEF Sound, CodeRow
<1>5. freed[c] = [codes[c] EXCEPT !.held = codes[c].held - 1]
  <2>1. codes[c].held >= 1 /\ codes[c].held \in Nat
    BY ONLY <1>3, <1>4
  <2>2. (IF codes[c].held > 1 THEN codes[c].held - 1 ELSE 0) = codes[c].held - 1
    BY ONLY <2>1
  <2> QED
    BY <2>2 DEF Sound
<1>6. freed[c].redeemed + freed[c].held < Limit
  <2>1. freed[c].redeemed = codes[c].redeemed /\ freed[c].held = codes[c].held - 1
    BY <1>4, <1>5 DEF CodeRow
  <2> QED
    BY ONLY <1>4, <2>1, PromoAssumption
<1>7. Sound([freed EXCEPT ![c] = MarkedIfFull(Claimed(@))], without,
            [redemptions EXCEPT ![o] = [code |-> c, reversed |-> FALSE]])
  <2> HIDE DEF freed, without
  <2> QED
    BY <1>2, <1>6, Claiming
<1>8. holds' = without
  BY DEF RedeemHeld, Sound
<1>9. codes' = [freed EXCEPT ![c] = MarkedIfFull(Claimed(@))]
  <2>1. Converted(codes[c]) = Claimed(freed[c])
    <3>1. (IF codes[c].held > 0 THEN codes[c].held - 1 ELSE 0) = codes[c].held - 1
      BY ONLY <1>3, <1>4
    <3> HIDE DEF freed
    <3> QED
      BY <1>4, <1>5, <3>1 DEF Converted, Claimed, CodeRow
  <2>2. codes' = [codes EXCEPT ![c] = MarkedIfFull(Claimed(freed[c]))]
    BY <2>1 DEF RedeemHeld, Sound
  <2> QED
    BY <2>2 DEF Sound
<1> QED
  BY <1>7, <1>8, <1>9

\* A free slot is redeemed, once the holds that have run out gave theirs back, and a
\* live hold of another code ends.
LEMMA RedeemingFree ==
    ASSUME Sound(codes, holds, redemptions), NEW o \in Offers, NEW c \in PromoCodes,
           redemptions[o] = NoRedemption, RedeemFree(o, c)
    PROVE  Sound(codes', holds', [redemptions EXCEPT ![o] = [code |-> c, reversed |-> FALSE]])
<1> DEFINE cs == Expired(c)
           hs == WithoutDue(c)
           other == HoldOf(o) /\ holds[o].until > promoNow
           redeemed == [redemptions EXCEPT ![o] = [code |-> c, reversed |-> FALSE]]
<1>1. Sound(cs, hs, redemptions)
  BY Expiring
<1>2. cs[c].redeemed + cs[c].held < Limit
  BY DEF RedeemFree, HasFreeSlot
<1>3. \A d \in PromoCodes : d # c => cs[d] = codes[d]
  BY DEF Expired, FreedOf, Sound
<1>4. DOMAIN cs = PromoCodes /\ DOMAIN hs = Offers
  BY <1>1 DEF Sound
<1>5. CASE ~other
  <2>1. codes' = [cs EXCEPT ![c] = MarkedIfFull(Claimed(@))]
    <3> HIDE DEF cs
    <3>1. codes' = [d \in PromoCodes |-> IF d = c THEN MarkedIfFull(Claimed(cs[c])) ELSE codes[d]]
      BY <1>5 DEF RedeemFree, cs
    <3> QED
      BY <1>3, <1>4, <3>1, <1>1 DEF Sound
  <2>2. holds' = hs
    BY <1>5 DEF RedeemFree
  <2> HIDE DEF cs, hs
  <2> QED
    BY <1>1, <1>2, <2>1, <2>2, Claiming
<1>6. CASE other
  <2> DEFINE e == holds[o].code
             freed == [cs EXCEPT ![e].held = IF @ > 1 THEN @ - 1 ELSE 0]
             without == [p \in Offers |-> IF p \in {o} THEN NoHold ELSE hs[p]]
  <2>1. e \in PromoCodes /\ e # c
    BY <1>6 DEF RedeemFree, HoldOf, Sound, HoldRow
  <2>2. hs[o] = holds[o]
    BY <2>1 DEF WithoutDue, Due
  <2>3. {o} \in SUBSET HoldersOf(e, hs) /\ Cardinality({o}) = 1
    BY <2>2, FS_Singleton DEF HoldersOf
  <2>4. Sound(freed, without, redemptions)
    <3> HIDE DEF cs, hs, e
    <3> QED
      BY <1>1, <2>1, <2>3, Freeing
  <2>5. freed[c] = cs[c] /\ \A d \in PromoCodes : d # c /\ d # e => freed[d] = codes[d]
    <3> HIDE DEF cs, e
    <3> QED
      BY <1>1, <1>3, <2>1 DEF Sound
  <2>6. freed[e] = FreedOf(e, 1)[e]
    BY <1>3, <1>4, <2>1 DEF FreedOf, Sound
  <2>7. DOMAIN freed = PromoCodes
    BY <1>4
  <2>8. holds' = without
    <3>1. holds' = [hs EXCEPT ![o] = NoHold]
      BY <1>6 DEF RedeemFree
    <3> HIDE DEF hs
    <3> QED
      BY <1>1, <3>1 DEF Sound
  <2>9. codes' = [freed EXCEPT ![c] = MarkedIfFull(Claimed(@))]
    <3>1. codes' = [d \in PromoCodes |-> IF d = c THEN MarkedIfFull(Claimed(cs[c]))
                                          ELSE IF d = e THEN FreedOf(d, 1)[d] ELSE codes[d]]
      BY <1>6 DEF RedeemFree
    <3> HIDE DEF freed, cs, e
    <3>2. freed \in [PromoCodes -> CodeRow]
      BY <2>4 DEF Sound
    <3> QED
      BY <2>1, <2>5, <2>6, <3>1, <3>2
  <2>10. freed[c].redeemed + freed[c].held < Limit
    BY <1>2, <2>5
  <2> HIDE DEF freed, without
  <2> QED
    BY <2>4, <2>8, <2>9, <2>10, Claiming
<1> QED
  BY <1>5, <1>6

-----------------------------------------------------------------------------
(* The steps.                                                              *)

\* A start asks for an offer, and knows its code where it acts on one.
Knows(row) ==
    /\ row.place # "idle" => row.offer \in Offers
    /\ row.place \in {"looking", "judging", "extending", "releasing", "taking", "verifying"}
          => row.code \in PromoCodes

\* A start goes on, knowing what it has to.
LEMMA StartGoesOn ==
    ASSUME starts \in [Starts -> StartRow], StartsKnow, NEW s \in Starts,
           NEW row \in StartRow, Knows(row), starts' = [starts EXCEPT ![s] = row]
    PROVE  starts' \in [Starts -> StartRow] /\ StartsKnow'
<1>1. starts' \in [Starts -> StartRow]
  OBVIOUS
<1>2. \A r \in Starts : starts'[r] = IF r = s THEN row ELSE starts[r]
  OBVIOUS
<1>3. \A r \in Starts : Knows(starts'[r])
  BY <1>2 DEF StartsKnow, Knows
<1> QED
  BY <1>1, <1>3 DEF StartsKnow, Knows

LEMMA NoReads == 0 \in 0 .. 2 /\ 0 \in 0 .. 1
  OBVIOUS

LEMMA OneRead == 1 \in 0 .. 1
  OBVIOUS

LEMMA IdleKnows == NoStart \in StartRow /\ Knows(NoStart)
  BY DEF NoStart, StartRow, StartPlaces, Knows

\* The moves of a start.
LEMMA StartMoves ==
    ASSUME starts \in [Starts -> StartRow], StartsKnow, NEW s \in Starts,
           starts[s].place # "idle",
           \/ StartOver(s)
           \/ RefusedStart(s)
           \/ StartAsksFor(s, "opening")
           \/ StartGoes(s, "giving back")
           \/ starts[s].code \in PromoCodes /\ (StartHolds(s) \/ \E place \in
                  {"judging", "extending", "releasing", "taking", "dropping"} : StartGoes(s, place))
    PROVE  starts' \in [Starts -> StartRow] /\ StartsKnow'
<1> DEFINE row == starts[s]
<1>1. row \in StartRow /\ row.offer \in Offers
  BY DEF StartsKnow
<1>2. CASE StartOver(s)
  BY <1>2, IdleKnows, StartGoesOn DEF StartOver
<1>3. ASSUME NEW place \in {"opening", "giving back"}, StartAsksFor(s, place)
      PROVE  starts' \in [Starts -> StartRow] /\ StartsKnow'
  <2> DEFINE next == [row EXCEPT !.place = place, !.code = NoCode,
                                 !.offerReads = 0, !.holdReads = 0]
  <2>1. starts' = [starts EXCEPT ![s] = next]
    BY <1>3 DEF StartAsksFor
  <2>2. /\ next.place = place /\ next.offer \in Offers
        /\ next \in StartRow
    <3>1. place \in StartPlaces /\ NoCode \in PromoCodes \union {NoCode}
      BY DEF StartPlaces
    <3> QED
      BY <1>1, <3>1, NoReads DEF StartRow
  <2>3. Knows(next)
    BY <2>2 DEF Knows
  <2> HIDE DEF next
  <2> QED
    BY <2>1, <2>2, <2>3, StartGoesOn
<1>4. CASE RefusedStart(s)
  BY <1>2, <1>3, <1>4 DEF RefusedStart
<1>5. ASSUME NEW place \in {"giving back", "judging", "extending", "releasing", "taking", "dropping"},
             starts[s].code \in PromoCodes \/ place = "giving back", StartGoes(s, place)
      PROVE  starts' \in [Starts -> StartRow] /\ StartsKnow'
  <2> DEFINE next == [row EXCEPT !.place = place]
  <2>1. starts' = [starts EXCEPT ![s] = next]
    BY <1>5 DEF StartGoes
  <2>2. next \in StartRow /\ Knows(next)
    BY <1>1, <1>5 DEF StartRow, StartPlaces, Knows
  <2> HIDE DEF next
  <2> QED
    BY <2>1, <2>2, StartGoesOn
<1>6. CASE starts[s].code \in PromoCodes /\ StartHolds(s)
  <2> DEFINE next == [row EXCEPT !.place = "verifying", !.holdReads = 0]
  <2>1. starts' = [starts EXCEPT ![s] = next]
    BY <1>6 DEF StartHolds
  <2>2. /\ next.place = "verifying" /\ next.offer \in Offers /\ next.code \in PromoCodes
        /\ next \in StartRow
    <3>1. "verifying" \in StartPlaces
      BY DEF StartPlaces
    <3> QED
      BY <1>1, <1>6, <3>1, NoReads DEF StartRow
  <2>3. Knows(next)
    BY <2>2 DEF Knows
  <2> HIDE DEF next
  <2> QED
    BY <2>1, <2>2, <2>3, StartGoesOn
<1> QED
  BY <1>2, <1>3, <1>4, <1>5, <1>6

\* The other variables are of their types.
OthersTyped ==
    /\ promoNow \in 0 .. LastStart
    /\ offers \in [Offers -> [code : PromoCodes \union {NoCode}, open : BOOLEAN]]
    /\ carried \in [Offers -> SUBSET (PromoCodes \union {NoCode})]
    /\ changing \in [Offers -> Nat]
    /\ form \in [Offers -> Nat \union {Changed}]
    /\ begun \in [Offers -> Nat]
    /\ changes \in 0 .. MaxChanges

StartsFit == starts \in [Starts -> StartRow] /\ StartsKnow

LEMMA PartsOfSlotInv ==
    SlotInv <=> Sound(codes, holds, redemptions) /\ OpenUnredeemed /\ StartsFit /\ OthersTyped
  BY DEF SlotInv, PromoTypeOK, Sound, StartsFit, OthersTyped, CodeRow, HoldRow, RedemptionRow,
         StartRow

LEMMA PartsAfter ==
    Sound(codes', holds', redemptions') /\ OpenUnredeemed' /\ StartsFit' /\ OthersTyped' => SlotInv'
  BY DEF SlotInv, PromoTypeOK, Sound, StartsFit, OthersTyped, CodeRow, HoldRow, RedemptionRow,
         StartRow

\* When a hold ends, however late the start that holds it began.
LEMMA UntilIsAMoment ==
    ASSUME StartsFit, NEW s \in Starts
    PROVE  Until(starts[s]) \in Nat
<1>1. starts[s].startedAt \in Nat /\ starts[s].opened \in BOOLEAN
  BY DEF StartsFit, StartRow
<1>2. OpeningTime \in Nat /\ FormTime \in Nat
  BY PromoAssumption
<1> QED
  BY <1>1, <1>2 DEF Until

\* A form is promised its slot until a moment.
LEMMA HeldTyped ==
    ASSUME StartsFit, OthersTyped, NEW s \in Starts, starts[s].place # "idle", Held(s)
    PROVE  StartsFit' /\ form' \in [Offers -> Nat \union {Changed}]
<1>1. Until(starts[s]) \in Nat
  BY UntilIsAMoment
<1>2. CASE ~starts[s].opened
  BY <1>2, StartMoves DEF Held, StartsFit, OthersTyped
<1>3. CASE starts[s].opened
  <2>1. StartOver(s)
    BY <1>3 DEF Held
  <2>2. StartsFit'
    BY <2>1, StartMoves DEF StartsFit
  <2>3. form' = form \/ form' = [form EXCEPT ![starts[s].offer] = Later(@, Until(starts[s]))]
    BY <1>3 DEF Held
  <2>4. \A until \in Nat \union {Changed} : Later(until, Until(starts[s])) \in Nat \union {Changed}
    BY <1>1 DEF Later
  <2>5. starts[s].offer \in Offers /\ form \in [Offers -> Nat \union {Changed}]
    BY DEF StartsFit, StartsKnow, OthersTyped
  <2>6. form' \in [Offers -> Nat \union {Changed}]
    BY ONLY <2>3, <2>4, <2>5
  <2> QED
    BY <2>2, <2>6
<1> QED
  BY <1>2, <1>3

\* A start reads, judges and refuses, and touches no slot.
LEMMA ReadingStep ==
    ASSUME SlotInv, NEW s \in Starts,
           \/ \E o \in Started : BeginStart(s, o)
           \/ ReadOffer(s) \/ Judge(s) \/ OpenForm(s)
    PROVE  SlotInv'
<1> DEFINE row == starts[s]
<1>1. Sound(codes, holds, redemptions) /\ OpenUnredeemed /\ StartsFit /\ OthersTyped
  BY PartsOfSlotInv
<1>2. /\ UNCHANGED <<promoNow, codes, offers, holds, redemptions, updateVars, form, changes>>
      /\ begun' \in [Offers -> Nat]
  <2>1. promoNow \in Nat /\ begun \in [Offers -> Nat]
    BY <1>1, PromoAssumption DEF OthersTyped
  <2>2. begun' = begun \/ \E o \in Started : begun' = [begun EXCEPT ![o] = promoNow]
    BY DEF BeginStart, ReadOffer, Judge, OpenForm, formVars
  <2> QED
    BY <2>1, <2>2 DEF BeginStart, ReadOffer, Judge, OpenForm, formVars
<1>3. row \in StartRow
  BY <1>1 DEF StartsFit
<1>4. ASSUME NEW o \in Started, BeginStart(s, o) PROVE StartsFit'
  <2> DEFINE next == [NoStart EXCEPT !.place = "reading", !.offer = o, !.startedAt = promoNow]
  <2>1. starts' = [starts EXCEPT ![s] = next]
    BY <1>4 DEF BeginStart
  <2>2. promoNow \in Nat /\ o \in Offers /\ "reading" \in StartPlaces
    BY <1>1, PromoAssumption DEF OthersTyped, StartPlaces
  <2>3. next.place = "reading" /\ next.offer = o /\ next \in StartRow
    BY <2>2, IdleKnows DEF StartRow
  <2>4. Knows(next)
    BY <2>2, <2>3 DEF Knows
  <2> HIDE DEF next
  <2> QED
    BY <1>1, <2>1, <2>3, <2>4, StartGoesOn DEF StartsFit
<1>5. ASSUME ReadOffer(s) PROVE StartsFit'
  <2>1. row.offer \in Offers
    BY <1>1, <1>5 DEF ReadOffer, StartsFit, StartsKnow
  <2> DEFINE offer == offers[row.offer]
             place == IF offer.code = NoCode THEN "dropping" ELSE "looking"
             next == [row EXCEPT !.code = offer.code, !.place = place]
  <2>2. offer.code \in PromoCodes \union {NoCode}
    BY <1>1, <2>1 DEF OthersTyped
  <2>3. place \in StartPlaces /\ place # "reading"
    BY DEF StartPlaces
  <2>4. next.place = place /\ next.offer = row.offer /\ next.code = offer.code /\ next \in StartRow
    <3> HIDE DEF place
    <3> QED
      BY <1>3, <2>2, <2>3 DEF StartRow
  <2>5. Knows(next)
    <3> HIDE DEF next, offer
    <3> QED
      BY <2>1, <2>2, <2>4 DEF Knows, place
  <2>6. RefusedStart(s) \/ starts' = [starts EXCEPT ![s] = next]
    BY <1>5 DEF ReadOffer
  <2>7. row.place # "idle"
    BY <1>5 DEF ReadOffer
  <2> HIDE DEF next
  <2> QED
    BY <1>1, <2>4, <2>5, <2>6, <2>7, StartMoves, StartGoesOn DEF StartsFit
<1>6. ASSUME Judge(s) PROVE StartsFit'
  <2>1. starts[s].place = "judging" /\ starts[s].code \in PromoCodes
    BY <1>1, <1>6 DEF Judge, StartsFit, StartsKnow
  <2>2. RefusedStart(s) \/ \E place \in {"extending", "taking", "releasing"} : StartGoes(s, place)
    BY <1>6 DEF Judge
  <2> QED
    BY <1>1, <2>1, <2>2, StartMoves DEF StartsFit
<1>7. ASSUME OpenForm(s) PROVE StartsFit'
  <2> DEFINE next == [row EXCEPT !.place = "reading", !.opened = TRUE]
  <2>1. row.place = "opening" /\ row.offer \in Offers
    BY <1>1, <1>7 DEF OpenForm, StartsFit, StartsKnow
  <2>2. StartGoes(s, "giving back") \/ starts' = [starts EXCEPT ![s] = next]
    BY <1>7 DEF OpenForm
  <2>3. "reading" \in StartPlaces /\ TRUE \in BOOLEAN
    BY DEF StartPlaces
  <2>4. next.place = "reading" /\ next.offer = row.offer /\ next \in StartRow
    BY <1>3, <2>3 DEF StartRow
  <2>5. Knows(next)
    BY <2>1, <2>4 DEF Knows
  <2> HIDE DEF next
  <2> QED
    BY <1>1, <2>1, <2>2, <2>4, <2>5, StartMoves, StartGoesOn DEF StartsFit
<1>8. StartsFit'
  BY <1>4, <1>5, <1>6, <1>7
<1>9. Sound(codes', holds', redemptions') /\ OpenUnredeemed' /\ OthersTyped'
  BY <1>1, <1>2 DEF OpenUnredeemed, OthersTyped, updateVars
<1> QED
  BY <1>8, <1>9, PartsAfter

\* A start ends holds that ran out, moves its hold, takes a slot or gives it back.
LEMMA HoldingStep ==
    ASSUME SlotInv, NEW s \in Starts,
           \/ ReadCode(s) \/ Extend(s) \/ ReleaseOther(s) \/ TakeSlot(s) \/ GiveBackUnmoved(s)
    PROVE  SlotInv'
<1> DEFINE row == starts[s]
           o == row.offer
           c == row.code
<1>1. Sound(codes, holds, redemptions) /\ OpenUnredeemed /\ StartsFit /\ OthersTyped
  BY PartsOfSlotInv
<1>2. UNCHANGED <<promoNow, offers, redemptions, carried, changing, form, begun, changes>>
  BY DEF ReadCode, Extend, ReleaseOther, TakeSlot, GiveBackUnmoved, updateVars, formVars
<1>3. row.place # "idle" /\ o \in Offers
      /\ (row.place # "giving back" => c \in PromoCodes)
  BY <1>1 DEF StartsFit, StartsKnow, ReadCode, Extend, ReleaseOther, TakeSlot, GiveBackUnmoved
<1>4. Until(row) \in Nat
  BY <1>1, UntilIsAMoment
<1>5. ASSUME ReadCode(s) PROVE StartsFit' /\ Sound(codes', holds', redemptions')
  <2>1. c \in PromoCodes /\ codes' = Expired(c) /\ holds' = WithoutDue(c) /\ StartGoes(s, "judging")
    BY <1>3, <1>5 DEF ReadCode, StartGoes
  <2>2. Sound(codes', holds', redemptions')
    BY <1>1, <1>2, <2>1, Expiring
  <2>3. StartsFit'
    BY <1>1, <1>3, <2>1, StartMoves DEF StartsFit
  <2> QED
    BY <2>2, <2>3
<1>6. ASSUME Extend(s) PROVE StartsFit' /\ Sound(codes', holds', redemptions')
  <2>1. c \in PromoCodes /\ codes' = codes /\ (StartHolds(s) \/ StartGoes(s, "taking"))
    BY <1>3, <1>6 DEF Extend
  <2>2. holds' = holds \/ holds' = [holds EXCEPT ![o].until = Later(@, Until(row))]
    BY <1>6 DEF Extend
  <2>3. Later(holds[o].until, Until(row)) \in Nat
    BY <1>1, <1>3, <1>4 DEF Later, Sound, HoldRow
  <2>4. Sound(codes', holds', redemptions')
    BY <1>1, <1>2, <1>3, <2>1, <2>2, <2>3, Extending
  <2>5. StartsFit'
    BY <1>1, <1>3, <2>1, StartMoves DEF StartsFit
  <2> QED
    BY <2>4, <2>5
<1>7. ASSUME ReleaseOther(s) PROVE StartsFit' /\ Sound(codes', holds', redemptions')
  <2>1. c \in PromoCodes /\ ReleaseHold(o) /\ StartGoes(s, "taking")
    BY <1>3, <1>7 DEF ReleaseOther
  <2>2. Sound(codes', holds', redemptions')
    BY <1>1, <1>2, <1>3, <2>1, Releasing
  <2>3. StartsFit'
    BY <1>1, <1>3, <2>1, StartMoves DEF StartsFit
  <2> QED
    BY <2>2, <2>3
<1>8. ASSUME TakeSlot(s) PROVE StartsFit' /\ Sound(codes', holds', redemptions')
  <2>1. c \in PromoCodes /\ row.place = "taking"
    BY <1>3, <1>8 DEF TakeSlot
  <2>2. CASE UNCHANGED <<codes, holds>> /\ RefusedStart(s)
    BY <1>1, <1>2, <1>3, <2>2, StartMoves DEF StartsFit
  <2>3. CASE /\ UNCHANGED <<codes, holds>>
             /\ starts' = [starts EXCEPT ![s].place = "judging", ![s].holdReads = 1]
    <3> DEFINE next == [row EXCEPT !.place = "judging", !.holdReads = 1]
    <3>1. "judging" \in StartPlaces
      BY DEF StartPlaces
    <3>2. row \in StartRow /\ starts' = [starts EXCEPT ![s] = next]
      BY <1>1, <2>3 DEF StartsFit
    <3>3. next \in StartRow /\ next.place = "judging" /\ next.offer = o /\ next.code = c
      BY <3>1, <3>2, OneRead DEF StartRow
    <3>4. Knows(next)
      BY <1>3, <2>1, <3>3 DEF Knows
    <3> HIDE DEF next
    <3>5. StartsFit'
      BY <1>1, <3>2, <3>3, <3>4, StartGoesOn DEF StartsFit
    <3> QED
      BY <1>1, <1>2, <2>3, <3>5
  <2>4. CASE /\ ~HoldOf(o) /\ HasFreeSlot(codes[c]) /\ StartHolds(s)
             /\ codes' = [codes EXCEPT ![c].held = @ + 1]
             /\ holds' = [holds EXCEPT ![o] = [code |-> c, until |-> Until(row)]]
    <3>1. holds[o].code \notin PromoCodes
      BY <2>4, PromoAssumption DEF HoldOf
    <3>2. Sound(codes', holds', redemptions')
      BY <1>1, <1>2, <1>3, <1>4, <2>1, <2>4, <3>1, Taking
    <3>3. StartsFit'
      BY <1>1, <1>3, <2>1, <2>4, StartMoves DEF StartsFit
    <3> QED
      BY <3>2, <3>3
  <2> QED
    BY <1>8, <2>2, <2>3, <2>4 DEF TakeSlot
<1>9. ASSUME GiveBackUnmoved(s) PROVE StartsFit' /\ Sound(codes', holds', redemptions')
  <2>1. StartOver(s) /\ (ReleaseHold(o) \/ UNCHANGED <<codes, holds>>)
    BY <1>9 DEF GiveBackUnmoved
  <2>2. Sound(codes', holds', redemptions')
    BY <1>1, <1>2, <1>3, <2>1, Releasing
  <2>3. StartsFit'
    BY <1>1, <1>3, <2>1, StartMoves DEF StartsFit
  <2> QED
    BY <2>2, <2>3
<1>10. StartsFit' /\ Sound(codes', holds', redemptions')
  BY <1>5, <1>6, <1>7, <1>8, <1>9
<1>11. OpenUnredeemed' /\ OthersTyped'
  BY <1>1, <1>2 DEF OpenUnredeemed, OthersTyped
<1> QED
  BY <1>10, <1>11, PartsAfter

\* A start reads its offer again, or drops what it holds.
LEMMA VerifyingStep ==
    ASSUME SlotInv, NEW s \in Starts, Verify(s) \/ Drop(s)
    PROVE  SlotInv'
<1> DEFINE row == starts[s]
<1>1. Sound(codes, holds, redemptions) /\ OpenUnredeemed /\ StartsFit /\ OthersTyped
  BY PartsOfSlotInv
<1>2. UNCHANGED <<promoNow, offers, redemptions, carried, changing, begun, changes>>
  BY DEF Verify, Drop, updateVars
<1>3. row \in StartRow /\ row.place # "idle" /\ row.offer \in Offers
  BY <1>1 DEF StartsFit, StartsKnow, Verify, Drop
<1>4. ASSUME Verify(s)
      PROVE  StartsFit' /\ form' \in [Offers -> Nat \union {Changed}]
             /\ Sound(codes', holds', redemptions')
  <2>1. Sound(codes', holds', redemptions') /\ row.code \in PromoCodes
    BY <1>1, <1>2, <1>4 DEF Verify, StartsFit, StartsKnow
  <2>2. CASE Held(s)
    BY <1>1, <1>3, <2>1, <2>2, HeldTyped
  <2>3. CASE UNCHANGED form /\ StartGoes(s, "dropping")
    BY <1>1, <1>3, <2>1, <2>3, StartMoves DEF StartsFit, OthersTyped
  <2>4. CASE /\ UNCHANGED form /\ row.offerReads # 2
             /\ starts' = [starts EXCEPT ![s].place = "reading", ![s].offerReads = @ + 1]
    <3> DEFINE next == [row EXCEPT !.place = "reading", !.offerReads = row.offerReads + 1]
    <3>1. "reading" \in StartPlaces
      BY DEF StartPlaces
    <3>2. row.offerReads \in 0 .. 2
      BY <1>3 DEF StartRow
    <3>3. row.offerReads + 1 \in 0 .. 2
      BY ONLY <2>4, <3>2
    <3>4. starts' = [starts EXCEPT ![s] = next]
      BY <1>1, <2>4 DEF StartsFit
    <3>5. next \in StartRow /\ next.place = "reading" /\ next.offer = row.offer
      BY <1>3, <3>1, <3>3 DEF StartRow
    <3>6. Knows(next)
      BY <1>3, <3>5 DEF Knows
    <3> HIDE DEF next
    <3>7. StartsFit'
      BY <1>1, <3>4, <3>5, <3>6, StartGoesOn DEF StartsFit
    <3> QED
      BY <1>1, <2>1, <2>4, <3>7 DEF OthersTyped
  <2> QED
    BY <1>4, <2>2, <2>3, <2>4 DEF Verify, StartGoes
<1>5. ASSUME Drop(s)
      PROVE  StartsFit' /\ form' \in [Offers -> Nat \union {Changed}]
             /\ Sound(codes', holds', redemptions')
  <2>1. Sound(codes', holds', redemptions')
    BY <1>1, <1>2, <1>3, <1>5, Releasing DEF Drop
  <2>2. CASE Held(s)
    BY <1>1, <1>3, <2>1, <2>2, HeldTyped
  <2>3. CASE UNCHANGED form /\ RefusedStart(s)
    BY <1>1, <1>3, <2>1, <2>3, StartMoves DEF StartsFit, OthersTyped
  <2> QED
    BY <1>5, <2>2, <2>3 DEF Drop
<1>6. OpenUnredeemed'
  BY <1>1, <1>2 DEF OpenUnredeemed
<1>7. OthersTyped'
  BY <1>1, <1>2, <1>4, <1>5 DEF OthersTyped
<1> QED
  BY <1>4, <1>5, <1>6, <1>7, PartsAfter

\* An offer is changed, and gives its slot back, or is concluded.
LEMMA OfferStep ==
    ASSUME SlotInv, NEW o \in Offers,
           \/ \E read, c \in PromoCodes \union {NoCode} : UpdateOffer(o, read, c)
           \/ GiveBackReplaced(o) \/ Conclude(o) \/ Reverse(o)
    PROVE  SlotInv'
<1>1. Sound(codes, holds, redemptions) /\ OpenUnredeemed /\ StartsFit /\ OthersTyped
  BY PartsOfSlotInv
<1>2. StartsFit'
  BY <1>1 DEF UpdateOffer, GiveBackReplaced, Conclude, Reverse, StartsFit, StartsKnow
<1>3. ASSUME NEW read \in PromoCodes \union {NoCode}, NEW c \in PromoCodes \union {NoCode},
             UpdateOffer(o, read, c)
      PROVE  SlotInv'
  <2>1. /\ UNCHANGED <<promoNow, codes, holds, redemptions, begun>>
        /\ offers' = [offers EXCEPT ![o].code = c]
        /\ carried' = [carried EXCEPT ![o] = @ \union {c}]
        /\ changing' = [changing EXCEPT ![o] = @ + IF c # read THEN 1 ELSE 0]
        /\ form' = [form EXCEPT ![o] = Changed] /\ changes < MaxChanges /\ changes' = changes + 1
    BY <1>3 DEF UpdateOffer
  <2>2. /\ offers' \in [Offers -> [code : PromoCodes \union {NoCode}, open : BOOLEAN]]
        /\ \A p \in Offers : offers'[p].open = offers[p].open
    BY <1>1, <2>1 DEF OthersTyped
  <2>3. changes' \in 0 .. MaxChanges
    <3>1. changes \in 0 .. MaxChanges /\ MaxChanges \in Nat
      BY <1>1, PromoAssumption DEF OthersTyped
    <3> QED
      BY ONLY <2>1, <3>1
  <2>4. OthersTyped'
    <3>1. form' \in [Offers -> Nat \union {Changed}] /\ changing' \in [Offers -> Nat]
      BY <1>1, <2>1 DEF OthersTyped
    <3>2. carried' \in [Offers -> SUBSET (PromoCodes \union {NoCode})]
      BY <1>1, <2>1 DEF OthersTyped
    <3> QED
      BY <1>1, <2>1, <2>2, <2>3, <3>1, <3>2 DEF OthersTyped
  <2>5. OpenUnredeemed' /\ Sound(codes', holds', redemptions')
    BY <1>1, <2>1, <2>2 DEF OpenUnredeemed
  <2> QED
    BY <1>2, <2>4, <2>5, PartsAfter
<1>4. ASSUME GiveBackReplaced(o) PROVE SlotInv'
  <2>1. Sound(codes', holds', redemptions')
    BY <1>1, <1>4, Releasing DEF GiveBackReplaced
  <2>2. changing' \in [Offers -> Nat]
    <3>1. /\ changing \in [Offers -> Nat] /\ changing[o] > 0
          /\ changing' = [changing EXCEPT ![o] = @ - 1]
      BY <1>1, <1>4 DEF GiveBackReplaced, OthersTyped
    <3> QED
      BY ONLY <3>1
  <2>3. OpenUnredeemed' /\ OthersTyped'
    BY <1>1, <1>4, <2>2 DEF GiveBackReplaced, OpenUnredeemed, OthersTyped, formVars
  <2> QED
    BY <1>2, <2>1, <2>3, PartsAfter
<1>5. ASSUME Conclude(o) PROVE SlotInv'
  <2> DEFINE c == offers[o].code
  <2>1. /\ offers[o].open /\ offers' = [offers EXCEPT ![o].open = FALSE]
        /\ UNCHANGED <<promoNow, carried, changing, form, begun, changes>>
    BY <1>5 DEF Conclude, updateVars, formVars
  <2>2. /\ offers' \in [Offers -> [code : PromoCodes \union {NoCode}, open : BOOLEAN]]
        /\ offers'[o].open = FALSE /\ \A p \in Offers : p # o => offers'[p] = offers[p]
    BY <1>1, <2>1 DEF OthersTyped
  <2>3. redemptions[o] = NoRedemption /\ c \in PromoCodes \union {NoCode}
    BY <1>1, <2>1 DEF OpenUnredeemed, OthersTyped
  <2>4. CASE c = NoCode
    <3>1. redemptions' = redemptions /\ (ReleaseHold(o) \/ UNCHANGED <<codes, holds>>)
      BY <1>5, <2>4 DEF Conclude
    <3>2. Sound(codes', holds', redemptions')
      BY <1>1, <3>1, Releasing
    <3>3. OpenUnredeemed'
      BY <1>1, <2>2, <3>1 DEF OpenUnredeemed
    <3>4. OthersTyped'
      BY <1>1, <2>1, <2>2 DEF OthersTyped
    <3> QED
      BY <1>2, <3>2, <3>3, <3>4, PartsAfter
  <2>5. CASE c # NoCode
    <3>1. /\ RedeemHeld(o, c) \/ RedeemFree(o, c)
          /\ redemptions' = [redemptions EXCEPT ![o] = [code |-> c, reversed |-> FALSE]]
      BY <1>5, <2>5 DEF Conclude
    <3>2. Sound(codes', holds', redemptions')
      BY <1>1, <2>3, <2>5, <3>1, RedeemingHeld, RedeemingFree
    <3>3. \A p \in Offers : p # o => redemptions'[p] = redemptions[p]
      BY <3>1
    <3>4. OpenUnredeemed'
      BY <1>1, <2>2, <3>3 DEF OpenUnredeemed
    <3>5. OthersTyped'
      BY <1>1, <2>1, <2>2 DEF OthersTyped
    <3> QED
      BY <1>2, <3>2, <3>4, <3>5, PartsAfter
  <2> QED
    BY <2>4, <2>5
<1>6. ASSUME Reverse(o) PROVE SlotInv'
  <2>1. /\ redemptions[o].code # NoCode /\ ~redemptions[o].reversed
        /\ redemptions' = [redemptions EXCEPT ![o].reversed = TRUE]
        /\ UNCHANGED <<promoNow, offers, holds, carried, changing, form, begun, changes>>
    BY <1>6 DEF Reverse, Unreversed, updateVars, formVars
  <2> DEFINE c == redemptions[o].code
             freed == [codes EXCEPT ![c].redeemed = IF @ > 0 THEN @ - 1 ELSE 0,
                                    ![c].status = IF @ = "EXHAUSTED" THEN "ACTIVE" ELSE @]
             reversed == [redemptions EXCEPT ![o].reversed = TRUE]
  <2>2. Sound(codes', holds', redemptions')
    <3>1. Sound(freed, holds, reversed)
      BY <1>1, <2>1, Reversing
    <3>2. codes' = freed
      BY <1>6 DEF Reverse
    <3>3. holds' = holds /\ redemptions' = reversed
      BY <2>1
    <3> HIDE DEF freed, reversed
    <3> QED
      BY <3>1, <3>2, <3>3
  <2>3. OpenUnredeemed'
    <3>1. ~offers[o].open
      BY <1>1, <2>1 DEF OpenUnredeemed, NoRedemption
    <3> QED
      BY <1>1, <2>1, <3>1 DEF OpenUnredeemed
  <2>4. OthersTyped'
    BY <1>1, <2>1 DEF OthersTyped
  <2> QED
    BY <1>2, <2>2, <2>3, <2>4, PartsAfter
<1> QED
  BY <1>3, <1>4, <1>5, <1>6

\* A code is paused or activated, its ended holds are swept, or time passes.
LEMMA CodeStep ==
    ASSUME SlotInv,
           \/ \E c \in PromoCodes :
                  ExpireDue(c) \/ \E status \in {"ACTIVE", "PAUSED"} : SetStatus(c, status)
           \/ TimePasses
    PROVE  SlotInv'
<1>1. Sound(codes, holds, redemptions) /\ OpenUnredeemed /\ StartsFit /\ OthersTyped
  BY PartsOfSlotInv
<1>2. UNCHANGED <<offers, redemptions, starts, carried, changing, form, begun>>
  BY DEF ExpireDue, SetStatus, TimePasses, updateVars, formVars
<1>3. StartsFit' /\ OpenUnredeemed'
  BY <1>1, <1>2 DEF StartsFit, StartsKnow, OpenUnredeemed
<1>4. ASSUME NEW c \in PromoCodes, ExpireDue(c)
      PROVE  Sound(codes', holds', redemptions') /\ OthersTyped'
  BY <1>1, <1>2, <1>4, Expiring DEF ExpireDue, OthersTyped
<1>5. ASSUME NEW c \in PromoCodes, NEW status \in {"ACTIVE", "PAUSED"}, SetStatus(c, status)
      PROVE  Sound(codes', holds', redemptions') /\ OthersTyped'
  <2>1. /\ codes' = [codes EXCEPT ![c].status = status] /\ UNCHANGED <<promoNow, holds>>
        /\ changes < MaxChanges /\ changes' = changes + 1
    BY <1>5 DEF SetStatus
  <2>2. /\ codes' \in [PromoCodes -> CodeRow]
        /\ \A d \in PromoCodes : codes'[d].held = codes[d].held
                                 /\ codes'[d].redeemed = codes[d].redeemed
    BY <1>1, <2>1 DEF Sound, CodeRow
  <2>3. Sound(codes', holds', redemptions')
    BY <1>1, <1>2, <2>1, <2>2 DEF Sound
  <2>4. changes' \in 0 .. MaxChanges
    <3>1. changes \in 0 .. MaxChanges /\ MaxChanges \in Nat
      BY <1>1, PromoAssumption DEF OthersTyped
    <3> QED
      BY ONLY <2>1, <3>1
  <2> QED
    BY <1>1, <1>2, <2>1, <2>3, <2>4 DEF OthersTyped
<1>6. ASSUME TimePasses PROVE Sound(codes', holds', redemptions') /\ OthersTyped'
  <2>1. promoNow < LastStart /\ promoNow' = promoNow + 1 /\ UNCHANGED <<codes, holds, changes>>
    BY <1>6 DEF TimePasses
  <2>2. promoNow' \in 0 .. LastStart
    <3>1. promoNow \in 0 .. LastStart /\ LastStart \in Nat
      BY <1>1, PromoAssumption DEF OthersTyped
    <3> QED
      BY ONLY <2>1, <3>1
  <2> QED
    BY <1>1, <1>2, <2>1, <2>2 DEF OthersTyped
<1> QED
  BY <1>3, <1>4, <1>5, <1>6, PartsAfter

-----------------------------------------------------------------------------
\* The strengthening is inductive.
LEMMA SlotInduction == PromoSpec => []SlotInv
<1>1. PromoInit => SlotInv
  <2> SUFFICES ASSUME PromoInit PROVE SlotInv
    OBVIOUS
  <2>1. ASSUME NEW c \in PromoCodes
        PROVE  HoldersOf(c, holds) = {} /\ RedeemersOf(c, redemptions) = {}
    BY PromoAssumption DEF PromoInit, HoldersOf, RedeemersOf, NoHold, NoRedemption
  <2>2. Cardinality({}) = 0
    BY FS_EmptySet
  <2>3. Sound(codes, holds, redemptions)
    <3>1. codes \in [PromoCodes -> CodeRow]
      BY PromoAssumption DEF PromoInit, CodeRow
    <3>2. holds \in [Offers -> HoldRow] /\ redemptions \in [Offers -> RedemptionRow]
      BY DEF PromoInit, HoldRow, RedemptionRow, NoHold, NoRedemption
    <3>3. \A c \in PromoCodes : codes[c].held = 0 /\ codes[c].redeemed = 0
      BY DEF PromoInit
    <3>4. 0 + 0 <= Limit
      BY PromoAssumption
    <3> QED
      BY <2>1, <2>2, <3>1, <3>2, <3>3, <3>4 DEF Sound
  <2>4. StartsFit
    <3>1. \A s \in Starts : starts[s] = NoStart
      BY DEF PromoInit
    <3>2. starts \in [Starts -> StartRow]
      BY IdleKnows DEF PromoInit
    <3> QED
      BY <3>1, <3>2, IdleKnows DEF StartsFit, StartsKnow, Knows
  <2>5. OpenUnredeemed
    BY DEF PromoInit, OpenUnredeemed
  <2>6. OthersTyped
    <3>1. 0 \in 0 .. LastStart /\ 0 \in 0 .. MaxChanges
      BY PromoAssumption
    <3>2. offers \in [Offers -> [code : PromoCodes \union {NoCode}, open : BOOLEAN]]
      BY DEF PromoInit
    <3> QED
      BY <3>1, <3>2 DEF PromoInit, OthersTyped
  <2> QED
    BY <2>3, <2>4, <2>5, <2>6, PartsOfSlotInv
<1>2. SlotInv /\ [PromoNext]_promoVars => SlotInv'
  <2> SUFFICES ASSUME SlotInv, [PromoNext]_promoVars PROVE SlotInv'
    OBVIOUS
  <2>1. CASE UNCHANGED promoVars
    BY <2>1, PartsOfSlotInv, PartsAfter
       DEF promoVars, OpenUnredeemed, StartsFit, StartsKnow, OthersTyped
  <2>2. CASE PromoNext
    BY <2>2, ReadingStep, HoldingStep, VerifyingStep, OfferStep, CodeStep, PromoAssumption
       DEF PromoNext
  <2> QED
    BY <2>1, <2>2
<1> QED
  BY <1>1, <1>2, PTL DEF PromoSpec

\* The counters of a code stay within its limit, and the rows and starts are of their
\* kinds, whatever the starts, changes and conclusions do to each other.
THEOREM PromoTypes == PromoSpec => []PromoTypeOK
<1>1. SlotInv => PromoTypeOK
  BY DEF SlotInv
<1> QED
  BY <1>1, SlotInduction, PTL

\* Each hold and each redemption is counted once, however many starts, updates, sweeps
\* and conclusions take, move, give back or convert a slot at the same time
\* (promo.service.ts; SC-PROMO-001, SC-PROMO-002).
THEOREM CountsAreRight == PromoSpec => []SlotsAreCounted
<1>1. SlotInv => SlotsAreCounted
  BY DEF SlotInv, Sound, SlotsAreCounted, HoldersOf, RedeemersOf
<1> QED
  BY <1>1, SlotInduction, PTL

\* No code is redeemed and held beyond its limit, for any number of buyers
\* (SC-PROMO-002).
THEOREM NoneOversold == PromoSpec => []NeverOversold
<1>1. SlotInv => NeverOversold
  BY DEF SlotInv, Sound, NeverOversold
<1> QED
  BY <1>1, SlotInduction, PTL

-----------------------------------------------------------------------------
(* A form keeps its slot unless the last start began in its last moments.   *)

\* The open offer holds a slot of its code until the moment, if that is to come, and no
\* start of it has begun that holds a slot past the moment while its form opens.
KeptFor(o, moment) ==
    offers[o].open /\ promoNow < moment /\ begun[o] + OpeningTime < moment =>
        holds[o].code = offers[o].code /\ holds[o].until >= moment

\* An offer whose code was never changed holds no slot of another code, and what a form
\* was promised.
OfferFits(o) ==
    /\ offers[o].code \in PromoCodes /\ changing[o] = 0
    /\ holds[o].code \in {NoCode, offers[o].code}
    /\ KeptFor(o, form[o])

\* A start of such an offer acts on its code, and once it took the slot for its form,
\* nobody gives that back before it says so.
StartFits(s) ==
    starts[s].place # "idle" =>
        /\ starts[s].startedAt <= begun[starts[s].offer]
        /\ form[starts[s].offer] # Changed =>
            /\ starts[s].place \notin {"releasing", "dropping"}
            /\ starts[s].place \in {"looking", "judging", "extending", "taking", "verifying"}
                  => starts[s].code = offers[starts[s].offer].code
            /\ starts[s].place = "verifying" /\ starts[s].opened
                  => KeptFor(starts[s].offer, starts[s].startedAt + FormTime)

OffersFit == \A o \in Offers : form[o] # Changed => OfferFits(o)

BegunBefore == \A o \in Offers : begun[o] <= promoNow

KeepInv == SlotInv /\ OffersFit /\ BegunBefore /\ \A s \in Starts : StartFits(s)

\* What a step makes of the hold of an offer whose code was never changed.
HoldBecomes(o) ==
    \/ holds'[o] = holds[o]
    \/ holds'[o] = NoHold /\ (holds[o].until <= promoNow \/ ~offers[o].open')
    \/ \E s \in Starts :
        /\ starts[s].offer = o
        /\ \/ /\ starts[s].place = "giving back" /\ IsUnmoved(starts[s])
              /\ holds'[o] = NoHold
           \/ /\ starts[s].place = "extending"
              /\ holds'[o] = [holds[o] EXCEPT !.until = Later(@, Until(starts[s]))]
           \/ /\ starts[s].place = "taking" /\ ~HoldOf(o)
              /\ holds'[o] = [code |-> starts[s].code, until |-> Until(starts[s])]

\* What every lemma below has of the types.
LEMMA SlotTypes ==
    ASSUME SlotInv
    PROVE  /\ holds \in [Offers -> HoldRow] /\ starts \in [Starts -> StartRow]
           /\ form \in [Offers -> Nat \union {Changed}] /\ promoNow \in Nat
           /\ begun \in [Offers -> Nat] /\ changing \in [Offers -> Nat]
           /\ offers \in [Offers -> [code : PromoCodes \union {NoCode}, open : BOOLEAN]]
           /\ \A s \in Starts : starts[s].place # "idle" => starts[s].offer \in Offers
<1>1. Sound(codes, holds, redemptions) /\ StartsFit /\ OthersTyped
  BY PartsOfSlotInv
<1> QED
  BY <1>1, PromoAssumption DEF Sound, StartsFit, OthersTyped, StartsKnow

\* A start touches the hold of its own offer, and holds that ran out.
LEMMA StartsHold ==
    ASSUME SlotInv, NEW s \in Starts, StartFits(s), NEW o \in Offers, form[o] # Changed,
           \/ \E p \in Started : BeginStart(s, p)
           \/ ReadOffer(s) \/ ReadCode(s) \/ Judge(s) \/ Extend(s) \/ ReleaseOther(s) \/ TakeSlot(s)
           \/ Verify(s) \/ Drop(s) \/ OpenForm(s) \/ GiveBackUnmoved(s)
    PROVE  HoldBecomes(o)
<1>1. /\ holds \in [Offers -> HoldRow] /\ starts \in [Starts -> StartRow]
      /\ starts[s].place # "idle" => starts[s].offer \in Offers
  BY SlotTypes
<1>2. CASE (\E p \in Started : BeginStart(s, p)) \/ ReadOffer(s) \/ Judge(s) \/ Verify(s) \/ OpenForm(s)
  BY <1>2 DEF BeginStart, ReadOffer, Judge, Verify, OpenForm, HoldBecomes
<1>3. CASE ReadCode(s)
  BY <1>3 DEF ReadCode, WithoutDue, Due, HoldBecomes
<1>4. CASE Extend(s)
  <2>1. CASE holds' = holds
    BY <2>1 DEF HoldBecomes
  <2>2. CASE holds' = [holds EXCEPT ![starts[s].offer].until = Later(@, Until(starts[s]))]
    <3>1. starts[s].place = "extending" /\ starts[s].offer \in Offers
      BY <1>1, <1>4 DEF Extend
    <3>2. CASE o = starts[s].offer
      <4>1. holds'[o] = [holds[o] EXCEPT !.until = Later(@, Until(starts[s]))]
        BY <1>1, <2>2, <3>2
      <4> QED
        BY <3>1, <3>2, <4>1 DEF HoldBecomes
    <3>3. CASE o # starts[s].offer
      BY <1>1, <2>2, <3>3 DEF HoldBecomes
    <3> QED
      BY <3>2, <3>3
  <2> QED
    BY <1>4, <2>1, <2>2 DEF Extend
<1>5. CASE ReleaseOther(s) \/ Drop(s)
  <2>1. starts[s].place \in {"releasing", "dropping"} /\ starts[s].offer \in Offers
        /\ holds' = [holds EXCEPT ![starts[s].offer] = NoHold]
    BY <1>1, <1>5 DEF ReleaseOther, Drop, ReleaseHold
  <2>2. starts[s].offer # o
    BY <2>1 DEF StartFits
  <2> QED
    BY <1>1, <2>1, <2>2 DEF HoldBecomes
<1>6. CASE TakeSlot(s)
  <2>1. CASE holds' = holds
    BY <2>1 DEF HoldBecomes
  <2>2. CASE /\ ~HoldOf(starts[s].offer)
             /\ holds' = [holds EXCEPT ![starts[s].offer] =
                             [code |-> starts[s].code, until |-> Until(starts[s])]]
    <3>1. starts[s].place = "taking" /\ starts[s].offer \in Offers
      BY <1>1, <1>6 DEF TakeSlot
    <3>2. CASE o = starts[s].offer
      <4>1. holds'[o] = [code |-> starts[s].code, until |-> Until(starts[s])]
        BY <1>1, <2>2, <3>2
      <4> QED
        BY <2>2, <3>1, <3>2, <4>1 DEF HoldBecomes
    <3>3. CASE o # starts[s].offer
      BY <1>1, <2>2, <3>3 DEF HoldBecomes
    <3> QED
      BY <3>2, <3>3
  <2> QED
    BY <1>6, <2>1, <2>2 DEF TakeSlot
<1>7. CASE GiveBackUnmoved(s)
  <2>1. CASE holds' = holds
    BY <2>1 DEF HoldBecomes
  <2>2. CASE IsUnmoved(starts[s]) /\ holds' = [holds EXCEPT ![starts[s].offer] = NoHold]
    <3>1. starts[s].place = "giving back"
      BY <1>7 DEF GiveBackUnmoved
    <3> QED
      BY <1>1, <2>2, <3>1 DEF HoldBecomes
  <2> QED
    BY <1>7, <2>1, <2>2 DEF GiveBackUnmoved, ReleaseHold
<1> QED
  BY <1>2, <1>3, <1>4, <1>5, <1>6, <1>7

\* Others touch the hold of an offer that was not changed when they conclude it, or once
\* it has run out.
LEMMA OthersHold ==
    ASSUME SlotInv, OffersFit, NEW o \in Offers, form[o] # Changed,
           \/ \E p \in Started :
               (\E read, c \in PromoCodes \union {NoCode} : UpdateOffer(p, read, c)) \/ GiveBackReplaced(p)
           \/ \E p \in Offers : Conclude(p) \/ Reverse(p)
           \/ \E c \in PromoCodes :
               (\E status \in {"ACTIVE", "PAUSED"} : SetStatus(c, status)) \/ ExpireDue(c)
           \/ TimePasses
    PROVE  HoldBecomes(o)
<1>1. /\ holds \in [Offers -> HoldRow]
      /\ offers \in [Offers -> [code : PromoCodes \union {NoCode}, open : BOOLEAN]]
  BY SlotTypes
<1>2. CASE \/ \E p \in Started, read, c \in PromoCodes \union {NoCode} : UpdateOffer(p, read, c)
           \/ \E p \in Offers : Reverse(p)
           \/ \E c \in PromoCodes, status \in {"ACTIVE", "PAUSED"} : SetStatus(c, status)
           \/ TimePasses
  BY <1>2 DEF UpdateOffer, Reverse, SetStatus, TimePasses, HoldBecomes
<1>3. ASSUME NEW p \in Started, GiveBackReplaced(p) PROVE HoldBecomes(o)
  <2>1. p # o
    <3>1. changing[p] > 0 /\ changing[o] = 0
      BY <1>3 DEF GiveBackReplaced, OffersFit, OfferFits
    <3> QED
      BY <3>1
  <2> QED
    BY <1>1, <1>3, <2>1 DEF GiveBackReplaced, ReleaseHold, HoldBecomes
<1>4. ASSUME NEW p \in Offers, Conclude(p) PROVE HoldBecomes(o)
  <2> DEFINE c == offers[p].code
  <2>1. offers' = [offers EXCEPT ![p].open = FALSE]
    BY <1>4 DEF Conclude
  <2>2. \/ holds' = holds \/ holds' = [holds EXCEPT ![p] = NoHold]
        \/ holds' = WithoutDue(c) \/ holds' = [WithoutDue(c) EXCEPT ![p] = NoHold]
    BY <1>4 DEF Conclude, ReleaseHold, RedeemHeld, RedeemFree
  <2>3. \/ WithoutDue(c)[o] = holds[o]
        \/ WithoutDue(c)[o] = NoHold /\ holds[o].until <= promoNow
    BY DEF WithoutDue, Due
  <2>4. holds'[o] \in {holds[o], NoHold, WithoutDue(c)[o]}
    BY <1>1, <2>2 DEF WithoutDue
  <2>5. p = o => ~offers'[o].open
    BY <1>1, <2>1
  <2>6. p # o => holds'[o] \in {holds[o], WithoutDue(c)[o]}
    BY <1>1, <2>2 DEF WithoutDue
  <2> QED
    BY <2>3, <2>4, <2>5, <2>6 DEF HoldBecomes
<1>5. ASSUME NEW c \in PromoCodes, ExpireDue(c) PROVE HoldBecomes(o)
  BY <1>5 DEF ExpireDue, WithoutDue, Due, HoldBecomes
<1> QED
  BY <1>2, <1>3, <1>4, <1>5

\* What a step makes of a start.
StartBecomes(r) ==
    LET row == starts[r]
        next == starts'[r]
    IN \/ next = row \/ next.place = "idle"
       \/ /\ next.place = "reading" /\ next.startedAt = promoNow
          /\ begun'[next.offer] = promoNow
       \/ /\ row.place # "idle" /\ next.offer = row.offer /\ next.startedAt = row.startedAt
          /\ \/ next.place \in {"reading", "opening", "giving back"}
             \/ next.place = "looking" /\ next.code = offers[row.offer].code
             \/ next.place = "dropping" /\ row.place = "reading" /\ offers[row.offer].code = NoCode
             \/ /\ next.place = "dropping" /\ row.place = "verifying"
                /\ offers[row.offer].code # row.code
             \/ /\ next.place = "releasing" /\ row.place = "judging"
                /\ holds[row.offer].code \notin {row.code, NoCode}
             \/ /\ next.place \in {"judging", "extending", "taking"} /\ next.code = row.code
                /\ row.place \in {"looking", "judging", "extending", "releasing", "taking"}
             \/ /\ next.place = "verifying" /\ row.place \in {"extending", "taking"}
                /\ next.code = row.code /\ next.opened = row.opened
                /\ holds'[row.offer].code = row.code /\ holds'[row.offer].until >= Until(row)

\* A refused start is over, or gives back.
LEMMA Refusing ==
    ASSUME starts \in [Starts -> StartRow], NEW s \in Starts, starts[s].place # "idle",
           RefusedStart(s)
    PROVE  StartBecomes(s)
<1>1. CASE StartOver(s)
  BY <1>1 DEF StartOver, StartBecomes, NoStart
<1>2. CASE StartAsksFor(s, "giving back")
  <2> DEFINE next == [starts[s] EXCEPT !.place = "giving back", !.code = NoCode,
                                       !.offerReads = 0, !.holdReads = 0]
  <2>1. starts'[s] = next
    BY <1>2 DEF StartAsksFor
  <2>2. next.place = "giving back" /\ next.offer = starts[s].offer
        /\ next.startedAt = starts[s].startedAt
    BY DEF StartRow
  <2> QED
    BY <2>1, <2>2 DEF StartBecomes
<1> QED
  BY <1>1, <1>2 DEF RefusedStart

\* What is not named of a row that goes to a place stays.
LEMMA Going ==
    ASSUME starts \in [Starts -> StartRow], NEW s \in Starts, NEW place, StartGoes(s, place)
    PROVE  /\ starts'[s].place = place /\ starts'[s].offer = starts[s].offer
           /\ starts'[s].startedAt = starts[s].startedAt /\ starts'[s].code = starts[s].code
           /\ starts'[s].opened = starts[s].opened
  BY DEF StartGoes, StartRow

LEMMA Holding ==
    ASSUME starts \in [Starts -> StartRow], NEW s \in Starts, StartHolds(s)
    PROVE  /\ starts'[s].place = "verifying" /\ starts'[s].offer = starts[s].offer
           /\ starts'[s].startedAt = starts[s].startedAt /\ starts'[s].code = starts[s].code
           /\ starts'[s].opened = starts[s].opened
  BY DEF StartHolds, StartRow

\* A start begins, reads and judges.
LEMMA ReadsAndGoesOn ==
    ASSUME SlotInv, NEW s \in Starts,
           \/ \E o \in Started : BeginStart(s, o)
           \/ ReadOffer(s) \/ ReadCode(s) \/ Judge(s) \/ OpenForm(s)
    PROVE  StartBecomes(s)
<1>1. starts \in [Starts -> StartRow] /\ begun \in [Offers -> Nat]
  BY SlotTypes
<1>2. ASSUME NEW o \in Started, BeginStart(s, o) PROVE StartBecomes(s)
  <2> DEFINE next == [NoStart EXCEPT !.place = "reading", !.offer = o, !.startedAt = promoNow]
  <2>1. starts'[s] = next
    BY <1>1, <1>2 DEF BeginStart
  <2>2. next.place = "reading" /\ next.startedAt = promoNow /\ next.offer = o
    BY DEF NoStart
  <2>3. begun'[o] = promoNow
    BY <1>1, <1>2, PromoAssumption DEF BeginStart
  <2> QED
    BY <2>1, <2>2, <2>3 DEF StartBecomes
<1>3. CASE ReadOffer(s)
  <2>1. CASE RefusedStart(s)
    BY <1>1, <1>3, <2>1, Refusing DEF ReadOffer
  <2>2. CASE starts' = [starts EXCEPT ![s].code = offers[starts[s].offer].code,
                 ![s].place = IF offers[starts[s].offer].code = NoCode THEN "dropping" ELSE "looking"]
    <3>1. /\ starts'[s].offer = starts[s].offer /\ starts'[s].startedAt = starts[s].startedAt
          /\ starts'[s].code = offers[starts[s].offer].code
          /\ starts'[s].place =
                 IF offers[starts[s].offer].code = NoCode THEN "dropping" ELSE "looking"
      BY <1>1, <2>2 DEF StartRow
    <3>2. starts[s].place = "reading"
      BY <1>3 DEF ReadOffer
    <3> QED
      BY <3>1, <3>2 DEF StartBecomes
  <2> QED
    BY <1>3, <2>1, <2>2 DEF ReadOffer
<1>4. CASE ReadCode(s)
  <2>1. starts[s].place = "looking" /\ StartGoes(s, "judging")
    BY <1>4 DEF ReadCode, StartGoes
  <2> QED
    BY <1>1, <2>1, Going DEF StartBecomes
<1>5. CASE Judge(s)
  <2> DEFINE hold == holds[starts[s].offer]
  <2>1. /\ starts[s].place = "judging"
        /\ \/ RefusedStart(s) \/ StartGoes(s, "extending") \/ StartGoes(s, "taking")
           \/ StartGoes(s, "releasing") /\ hold.code \notin {starts[s].code, NoCode}
    BY <1>5 DEF Judge
  <2>2. CASE RefusedStart(s)
    BY <1>1, <2>1, <2>2, Refusing
  <2>3. CASE StartGoes(s, "extending") \/ StartGoes(s, "taking")
    BY <1>1, <2>1, <2>3, Going DEF StartBecomes
  <2>4. CASE StartGoes(s, "releasing") /\ hold.code \notin {starts[s].code, NoCode}
    BY <1>1, <2>1, <2>4, Going DEF StartBecomes
  <2> QED
    BY <2>1, <2>2, <2>3, <2>4
<1>6. CASE OpenForm(s)
  <2>1. CASE StartGoes(s, "giving back")
    BY <1>1, <1>6, <2>1, Going DEF OpenForm, StartBecomes
  <2>2. CASE starts' = [starts EXCEPT ![s].place = "reading", ![s].opened = TRUE]
    <3>1. /\ starts'[s].place = "reading" /\ starts'[s].offer = starts[s].offer
          /\ starts'[s].startedAt = starts[s].startedAt
      BY <1>1, <2>2 DEF StartRow
    <3> QED
      BY <1>6, <3>1 DEF OpenForm, StartBecomes
  <2> QED
    BY <1>6, <2>1, <2>2 DEF OpenForm
<1> QED
  BY <1>2, <1>3, <1>4, <1>5, <1>6

\* A start holds its slot, reads its offer again, or gives up.
LEMMA HoldsAndGoesOn ==
    ASSUME SlotInv, NEW s \in Starts,
           \/ Extend(s) \/ ReleaseOther(s) \/ TakeSlot(s) \/ Verify(s) \/ Drop(s)
           \/ GiveBackUnmoved(s)
    PROVE  StartBecomes(s)
<1> DEFINE row == starts[s]
           o == row.offer
<1>1. /\ starts \in [Starts -> StartRow] /\ holds \in [Offers -> HoldRow]
      /\ row.place # "idle" /\ o \in Offers /\ Until(row) \in Nat
  BY SlotTypes, PartsOfSlotInv, UntilIsAMoment
     DEF Extend, ReleaseOther, TakeSlot, Verify, Drop, GiveBackUnmoved
<1>2. CASE Extend(s)
  <2>1. CASE StartGoes(s, "taking")
    BY <1>1, <1>2, <2>1, Going DEF Extend, StartBecomes
  <2>2. CASE /\ StartHolds(s) /\ holds[o].code = row.code
             /\ holds' = [holds EXCEPT ![o].until = Later(@, Until(row))]
    <3>1. holds'[o].code = row.code /\ holds'[o].until = Later(holds[o].until, Until(row))
      BY <1>1, <2>2 DEF HoldRow
    <3>2. holds[o].until \in Nat
      BY <1>1 DEF HoldRow
    <3>3. Later(holds[o].until, Until(row)) >= Until(row)
      BY <1>1, <3>2 DEF Later
    <3> QED
      BY <1>1, <1>2, <2>2, <3>1, <3>3, Holding DEF Extend, StartBecomes
  <2> QED
    BY <1>2, <2>1, <2>2 DEF Extend
<1>3. CASE ReleaseOther(s)
  BY <1>1, <1>3, Going DEF ReleaseOther, StartBecomes
<1>4. CASE TakeSlot(s)
  <2>1. CASE RefusedStart(s)
    BY <1>1, <2>1, Refusing
  <2>2. CASE starts' = [starts EXCEPT ![s].place = "judging", ![s].holdReads = 1]
    <3>1. /\ starts'[s].place = "judging" /\ starts'[s].offer = o
          /\ starts'[s].startedAt = row.startedAt /\ starts'[s].code = row.code
      BY <1>1, <2>2 DEF StartRow
    <3> QED
      BY <1>4, <3>1 DEF TakeSlot, StartBecomes
  <2>3. CASE StartHolds(s) /\ holds' = [holds EXCEPT ![o] =
                                           [code |-> row.code, until |-> Until(row)]]
    <3>1. holds'[o].code = row.code /\ holds'[o].until >= Until(row)
      BY <1>1, <2>3
    <3> QED
      BY <1>1, <1>4, <2>3, <3>1, Holding DEF TakeSlot, StartBecomes
  <2> QED
    BY <1>4, <2>1, <2>2, <2>3 DEF TakeSlot
<1>5. ASSUME Held(s) PROVE StartBecomes(s)
  <2>1. CASE StartOver(s)
    BY <1>1, <2>1 DEF StartOver, StartBecomes, NoStart
  <2>2. CASE StartAsksFor(s, "opening")
    <3> DEFINE next == [row EXCEPT !.place = "opening", !.code = NoCode,
                                   !.offerReads = 0, !.holdReads = 0]
    <3>1. starts'[s] = next
      BY <1>1, <2>2 DEF StartAsksFor
    <3>2. next.place = "opening" /\ next.offer = o /\ next.startedAt = row.startedAt
      BY <1>1 DEF StartRow
    <3> QED
      BY <1>1, <3>1, <3>2 DEF StartBecomes
  <2> QED
    BY <1>5, <2>1, <2>2 DEF Held
<1>6. CASE Verify(s)
  <2>1. CASE Held(s)
    BY <1>5, <2>1
  <2>2. CASE StartGoes(s, "dropping") /\ offers[o].code # row.code
    BY <1>1, <1>6, <2>2, Going DEF Verify, StartBecomes
  <2>3. CASE starts' = [starts EXCEPT ![s].place = "reading", ![s].offerReads = @ + 1]
    <3>1. /\ starts'[s].place = "reading" /\ starts'[s].offer = o
          /\ starts'[s].startedAt = row.startedAt
      BY <1>1, <2>3 DEF StartRow
    <3> QED
      BY <1>1, <3>1 DEF StartBecomes
  <2> QED
    BY <1>6, <2>1, <2>2, <2>3 DEF Verify, StartGoes
<1>7. CASE Drop(s)
  BY <1>1, <1>5, <1>7, Refusing DEF Drop
<1>8. CASE GiveBackUnmoved(s)
  BY <1>1, <1>8 DEF GiveBackUnmoved, StartOver, StartBecomes, NoStart
<1> QED
  BY <1>2, <1>3, <1>4, <1>6, <1>7, <1>8

StartSteps(s) ==
    \/ \E o \in Started : BeginStart(s, o)
    \/ ReadOffer(s) \/ ReadCode(s) \/ Judge(s) \/ Extend(s) \/ ReleaseOther(s) \/ TakeSlot(s)
    \/ Verify(s) \/ Drop(s) \/ OpenForm(s) \/ GiveBackUnmoved(s)

\* The steps of everybody else.
OtherSteps ==
    \/ \E p \in Started :
        (\E read, c \in PromoCodes \union {NoCode} : UpdateOffer(p, read, c)) \/ GiveBackReplaced(p)
    \/ \E p \in Offers : Conclude(p) \/ Reverse(p)
    \/ \E c \in PromoCodes :
        (\E status \in {"ACTIVE", "PAUSED"} : SetStatus(c, status)) \/ ExpireDue(c)
    \/ TimePasses

LEMMA EitherSteps ==
    ASSUME PromoNext
    PROVE  (\E s \in Starts : StartSteps(s)) \/ OtherSteps
  BY DEF PromoNext, StartSteps, OtherSteps

\* Every step makes of a start what was said.
LEMMA EachStartBecomes ==
    ASSUME SlotInv, PromoNext
    PROVE  \A r \in Starts : StartBecomes(r)
<1>1. ASSUME NEW s \in Starts, StartSteps(s)
      PROVE  \A r \in Starts : StartBecomes(r)
  <2>1. \A r \in Starts : r # s => starts'[r] = starts[r]
    BY <1>1, SlotTypes
       DEF StartSteps, BeginStart, ReadOffer, ReadCode, Judge, Extend, ReleaseOther, TakeSlot,
           Verify, Drop, OpenForm, GiveBackUnmoved, StartGoes, StartOver, StartAsksFor, StartHolds,
           RefusedStart, Held
  <2>2. StartBecomes(s)
    BY <1>1, ReadsAndGoesOn, HoldsAndGoesOn DEF StartSteps
  <2>3. ASSUME NEW r \in Starts PROVE StartBecomes(r)
    <3>1. CASE r = s
      BY <2>2, <3>1
    <3>2. CASE r # s
      BY <2>1, <3>2 DEF StartBecomes
    <3> QED
      BY <3>1, <3>2
  <2> QED
    BY <2>3
<1>2. CASE OtherSteps
  <2>1. starts' = starts
    BY <1>2 DEF OtherSteps, UpdateOffer, GiveBackReplaced, Conclude, Reverse, SetStatus, ExpireDue,
                TimePasses
  <2> QED
    BY <2>1 DEF StartBecomes
<1> QED
  BY <1>1, <1>2, EitherSteps

\* Every step makes of a hold what was said.
LEMMA EachHoldBecomes ==
    ASSUME KeepInv, PromoNext, NEW o \in Offers, form[o] # Changed
    PROVE  HoldBecomes(o)
<1>1. SlotInv /\ OffersFit /\ \A s \in Starts : StartFits(s)
  BY DEF KeepInv
<1>2. ASSUME NEW s \in Starts, StartSteps(s) PROVE HoldBecomes(o)
  <2>1. StartFits(s)
    BY <1>1
  <2> QED
    BY <1>1, <1>2, <2>1, StartsHold DEF StartSteps
<1>3. ASSUME OtherSteps PROVE HoldBecomes(o)
  BY <1>1, <1>3, OthersHold DEF OtherSteps
<1> QED
  BY <1>2, <1>3, EitherSteps

\* The last start of an offer began now, or when it began before.
LEMMA BegunBecomes ==
    ASSUME SlotInv, BegunBefore, PromoNext, NEW o \in Offers
    PROVE  /\ begun[o] \in Nat /\ begun'[o] \in Nat /\ begun'[o] >= begun[o]
           /\ begun'[o] <= promoNow'
<1>1. /\ begun \in [Offers -> Nat] /\ promoNow \in Nat /\ begun[o] <= promoNow
  BY SlotTypes DEF BegunBefore
<1>2. /\ begun' = begun \/ \E p \in Offers : begun' = [begun EXCEPT ![p] = promoNow]
      /\ promoNow' = promoNow \/ promoNow' = promoNow + 1
  BY PromoAssumption
     DEF PromoNext, BeginStart, ReadOffer, ReadCode, Judge, Extend, ReleaseOther, TakeSlot,
         Verify, Drop, OpenForm, GiveBackUnmoved, UpdateOffer, GiveBackReplaced, Conclude,
         Reverse, SetStatus, ExpireDue, TimePasses, formVars
<1>3. begun'[o] \in {begun[o], promoNow}
  BY <1>1, <1>2
<1> QED
  BY <1>1, <1>2, <1>3

\* An offer whose code is not changed by a step was not changed before, and if it is open
\* it was; time does not go back.
LEMMA OfferStays ==
    ASSUME SlotInv, PromoNext, NEW o \in Offers, form'[o] # Changed
    PROVE  /\ form[o] # Changed /\ offers'[o].code = offers[o].code
           /\ offers'[o].open => offers[o].open
           /\ changing[o] = 0 => changing'[o] = 0
           /\ promoNow \in Nat /\ promoNow' \in Nat /\ promoNow' >= promoNow
<1>1. /\ form \in [Offers -> Nat \union {Changed}] /\ promoNow \in Nat
      /\ changing \in [Offers -> Nat]
      /\ offers \in [Offers -> [code : PromoCodes \union {NoCode}, open : BOOLEAN]]
  BY SlotTypes
<1>2. CASE \E s \in Starts : StartSteps(s)
  <2>1. UNCHANGED <<promoNow, offers, changing>>
    BY <1>2 DEF StartSteps, BeginStart, ReadOffer, ReadCode, Judge, Extend, ReleaseOther, TakeSlot,
                Verify, Drop, OpenForm, GiveBackUnmoved, updateVars
  <2>2. PICK s \in Starts :
            \/ form' = form
            \/ /\ form[starts[s].offer] # Changed
               /\ form' = [form EXCEPT ![starts[s].offer] = Later(@, Until(starts[s]))]
    BY <1>2 DEF StartSteps, BeginStart, ReadOffer, ReadCode, Judge, Extend, ReleaseOther, TakeSlot,
                Verify, Drop, OpenForm, GiveBackUnmoved, Held, formVars
  <2>3. form[o] # Changed
    BY <1>1, <2>2
  <2> QED
    BY <1>1, <2>1, <2>3
<1>3. ASSUME NEW p \in Started, NEW read, NEW c, UpdateOffer(p, read, c)
      PROVE  /\ form[o] # Changed /\ offers'[o] = offers[o] /\ promoNow' = promoNow
             /\ changing[o] = 0 => changing'[o] = 0
  <2>1. p # o
    BY <1>1, <1>3, PromoAssumption DEF UpdateOffer
  <2> QED
    BY <1>1, <1>3, <2>1 DEF UpdateOffer
<1>4. ASSUME NEW p \in Offers, GiveBackReplaced(p) \/ Conclude(p) \/ Reverse(p)
      PROVE  /\ form' = form /\ offers'[o].code = offers[o].code /\ promoNow' = promoNow
             /\ offers'[o].open => offers[o].open
             /\ changing[o] = 0 => changing'[o] = 0
  <2>1. /\ offers' = offers \/ offers' = [offers EXCEPT ![p].open = FALSE]
        /\ UNCHANGED <<promoNow, form>>
        /\ \/ changing' = changing
           \/ changing[p] > 0 /\ changing' = [changing EXCEPT ![p] = @ - 1]
    BY <1>4 DEF GiveBackReplaced, Conclude, Reverse, formVars, updateVars
  <2> QED
    BY <1>1, <2>1
<1>5. CASE \/ \E c \in PromoCodes :
               (\E status \in {"ACTIVE", "PAUSED"} : SetStatus(c, status)) \/ ExpireDue(c)
           \/ TimePasses
  BY <1>1, <1>5 DEF SetStatus, ExpireDue, TimePasses, formVars, updateVars
<1> QED
  BY <1>1, <1>2, <1>3, <1>4, <1>5, PromoAssumption DEF PromoNext, StartSteps

\* The slot a form holds until its end is given back by no start that fails.
LEMMA KeptStays ==
    ASSUME KeepInv, PromoNext, NEW o \in Offers, form'[o] # Changed, NEW m \in Nat, KeptFor(o, m)
    PROVE  KeptFor(o, m)'
<1>1. /\ form[o] # Changed /\ offers'[o].code = offers[o].code
      /\ offers'[o].open => offers[o].open
      /\ promoNow \in Nat /\ promoNow' \in Nat /\ promoNow' >= promoNow
      /\ HoldBecomes(o) /\ offers[o].code \in PromoCodes
      /\ holds \in [Offers -> HoldRow] /\ StartsFit
  BY OfferStays, EachHoldBecomes, SlotTypes, PartsOfSlotInv DEF KeepInv, OffersFit, OfferFits
<1>2. begun[o] \in Nat /\ begun'[o] \in Nat /\ begun'[o] >= begun[o]
  BY BegunBecomes DEF KeepInv
<1>3. OpeningTime \in Nat
  BY PromoAssumption
<1>4. holds[o].until \in Nat
  BY <1>1 DEF HoldRow
<1> SUFFICES ASSUME offers'[o].open, promoNow' < m, begun'[o] + OpeningTime < m
             PROVE  holds'[o].code = offers'[o].code /\ holds'[o].until >= m
  BY DEF KeptFor
<1>5. promoNow < m /\ begun[o] + OpeningTime < m
  <2>1. promoNow < m
    BY <1>1
  <2> QED
    BY <1>2, <1>3, <2>1
<1>6. holds[o].code = offers[o].code /\ holds[o].until >= m
  BY <1>1, <1>5 DEF KeptFor
<1>7. CASE holds'[o] = holds[o]
  BY <1>1, <1>6, <1>7
<1>8. CASE holds'[o] = NoHold /\ (holds[o].until <= promoNow \/ ~offers'[o].open)
  BY <1>1, <1>3, <1>4, <1>5, <1>6, <1>8
<1>9. ASSUME NEW s \in Starts, starts[s].offer = o, starts[s].place = "giving back",
             IsUnmoved(starts[s])
      PROVE  FALSE
  <2>1. starts[s].startedAt <= begun[o] /\ holds[o].until = starts[s].startedAt + OpeningTime
    BY <1>9 DEF KeepInv, StartFits, IsUnmoved
  <2>2. starts[s].startedAt \in Nat
    BY <1>1 DEF StartsFit, StartRow
  <2>3. holds[o].until < m
    BY ONLY <1>2, <1>3, <1>5, <2>1, <2>2
  <2> QED
    BY <1>4, <1>6, <2>3
<1>10. ASSUME NEW s \in Starts,
              holds'[o] = [holds[o] EXCEPT !.until = Later(@, Until(starts[s]))]
       PROVE  holds'[o].code = offers'[o].code /\ holds'[o].until >= m
  <2>1. Until(starts[s]) \in Nat
    BY <1>1, UntilIsAMoment
  <2>2. Later(holds[o].until, Until(starts[s])) >= m
    BY <1>3, <1>4, <1>6, <2>1 DEF Later
  <2>3. holds'[o].code = holds[o].code /\ holds'[o].until = Later(holds[o].until, Until(starts[s]))
    BY <1>1, <1>10 DEF HoldRow
  <2> QED
    BY <1>1, <1>6, <2>2, <2>3
<1>11. ASSUME ~HoldOf(o) PROVE FALSE
  BY <1>1, <1>6, <1>11, PromoAssumption DEF HoldOf
<1> QED
  BY <1>1, <1>7, <1>8, <1>9, <1>10, <1>11 DEF HoldBecomes

\* What a step promises a form beside what was promised before.
LEMMA FormBecomes ==
    ASSUME KeepInv, PromoNext, NEW o \in Offers, form'[o] # Changed
    PROVE  \/ form'[o] = form[o]
           \/ \E s \in Starts :
                /\ starts[s].place = "verifying" /\ starts[s].offer = o /\ starts[s].opened
                /\ form'[o] = starts[s].startedAt + FormTime
<1>1. /\ form[o] # Changed /\ form \in [Offers -> Nat \union {Changed}]
      /\ \A s \in Starts : StartFits(s) /\ (starts[s].place # "idle" => starts[s].offer \in Offers)
  BY OfferStays, SlotTypes DEF KeepInv
<1>2. ASSUME NEW s \in Starts, Verify(s) \/ Drop(s), Held(s), form'[o] # form[o]
      PROVE  /\ starts[s].place = "verifying" /\ starts[s].offer = o /\ starts[s].opened
             /\ form'[o] = starts[s].startedAt + FormTime
  <2>1. /\ starts[s].opened
        /\ form' = [form EXCEPT ![starts[s].offer] = Later(@, Until(starts[s]))]
    BY <1>2 DEF Held
  <2>2. starts[s].place \in {"verifying", "dropping"} /\ starts[s].offer \in Offers
    BY <1>1, <1>2 DEF Verify, Drop
  <2>3. starts[s].offer = o /\ form'[o] = Later(form[o], Until(starts[s]))
    BY <1>1, <1>2, <2>1, <2>2
  <2>4. form'[o] = Until(starts[s]) /\ Until(starts[s]) = starts[s].startedAt + FormTime
    BY <1>2, <2>1, <2>3 DEF Later, Until
  <2>5. starts[s].place # "dropping"
    BY <1>1, <2>2, <2>3 DEF StartFits
  <2> QED
    BY <2>1, <2>2, <2>3, <2>4, <2>5
<1>3. ASSUME NEW p \in Started, NEW read, NEW c, UpdateOffer(p, read, c)
      PROVE  form'[o] = form[o]
  <2>1. form' = [form EXCEPT ![p] = Changed]
    BY <1>3 DEF UpdateOffer
  <2> QED
    BY <1>1, <2>1
<1>4. \/ form' = form
      \/ \E s \in Starts : (Verify(s) \/ Drop(s)) /\ Held(s)
      \/ \E p \in Started, read, c \in PromoCodes \union {NoCode} : UpdateOffer(p, read, c)
  BY DEF PromoNext, BeginStart, ReadOffer, ReadCode, Judge, Extend, ReleaseOther, TakeSlot, Verify,
         Drop, OpenForm, GiveBackUnmoved, GiveBackReplaced, Conclude, Reverse, SetStatus, ExpireDue,
         TimePasses, formVars
<1> QED
  BY <1>2, <1>3, <1>4

LEMMA FormEndIsAMoment ==
    ASSUME SlotInv, NEW s \in Starts
    PROVE  starts[s].startedAt \in Nat /\ starts[s].startedAt + FormTime \in Nat
<1>1. starts[s].startedAt \in Nat
  BY SlotTypes DEF StartRow
<1> QED
  BY <1>1, PromoAssumption

\* Offers fit after a step.
LEMMA OffersFitStep ==
    ASSUME KeepInv, PromoNext
    PROVE  OffersFit'
<1> SUFFICES ASSUME NEW o \in Offers, form'[o] # Changed PROVE OfferFits(o)'
  BY DEF OffersFit
<1>1. /\ form[o] # Changed /\ offers'[o].code = offers[o].code
      /\ changing[o] = 0 => changing'[o] = 0
      /\ promoNow' \in Nat /\ form[o] \in Nat
      /\ OfferFits(o) /\ HoldBecomes(o)
      /\ \A s \in Starts : StartFits(s)
      /\ holds \in [Offers -> HoldRow]
  BY OfferStays, EachHoldBecomes, SlotTypes DEF KeepInv, OffersFit
<1>2. holds'[o].code \in {NoCode, offers[o].code}
  <2>1. ASSUME NEW s \in Starts, starts[s].offer = o, starts[s].place = "taking"
        PROVE  starts[s].code = offers[o].code
    BY <1>1, <2>1 DEF StartFits
  <2>2. ASSUME NEW s \in Starts,
               holds'[o] = [holds[o] EXCEPT !.until = Later(@, Until(starts[s]))]
        PROVE  holds'[o].code = holds[o].code
    BY <1>1, <2>2 DEF HoldRow
  <2>3. holds[o].code \in {NoCode, offers[o].code}
    BY <1>1 DEF OfferFits
  <2>4. CASE holds'[o] = holds[o] \/ holds'[o] = NoHold
    BY <2>3, <2>4 DEF NoHold
  <2>5. ASSUME NEW s \in Starts, starts[s].offer = o, starts[s].place = "taking",
               holds'[o] = [code |-> starts[s].code, until |-> Until(starts[s])]
        PROVE  holds'[o].code = offers[o].code
    BY <2>1, <2>5
  <2> QED
    BY <1>1, <2>2, <2>3, <2>4, <2>5 DEF HoldBecomes
<1>3. KeptFor(o, form[o])'
  <2>1. CASE form'[o] = form[o]
    <3>1. PICK m \in Nat : m = form[o]
      BY <1>1
    <3>2. KeptFor(o, m)
      BY <1>1, <3>1 DEF OfferFits
    <3>3. KeptFor(o, m)'
      BY <3>2, KeptStays
    <3> QED
      BY <2>1, <3>1, <3>3 DEF KeptFor
  <2>2. CASE \E s \in Starts :
                /\ starts[s].place = "verifying" /\ starts[s].offer = o /\ starts[s].opened
                /\ form'[o] = starts[s].startedAt + FormTime
    <3>1. PICK s \in Starts :
                /\ starts[s].place = "verifying" /\ starts[s].offer = o /\ starts[s].opened
                /\ form'[o] = starts[s].startedAt + FormTime
      BY <2>2
    <3>2. PICK m \in Nat : m = starts[s].startedAt + FormTime
      BY FormEndIsAMoment DEF KeepInv
    <3>3. KeptFor(o, m)
      BY <1>1, <3>1, <3>2 DEF StartFits
    <3>4. KeptFor(o, m)'
      BY <3>3, KeptStays
    <3> QED
      BY <3>1, <3>2, <3>4 DEF KeptFor
  <2> QED
    BY <2>1, <2>2, FormBecomes
<1> QED
  BY <1>1, <1>2, <1>3 DEF OfferFits

\* Starts fit after a step.
LEMMA StartsFitStep ==
    ASSUME KeepInv, PromoNext, SlotInv', NEW r \in Starts
    PROVE  StartFits(r)'
<1> DEFINE row == starts[r]
           next == starts'[r]
           o == next.offer
           KeptAfter(m) == offers'[o].open /\ promoNow' < m /\ begun'[o] + OpeningTime < m =>
                               holds'[o].code = offers'[o].code /\ holds'[o].until >= m
<1> SUFFICES ASSUME next.place # "idle" PROVE StartFits(r)'
  BY DEF StartFits
<1>1. StartBecomes(r) /\ StartFits(r) /\ promoNow \in Nat /\ promoNow' \in Nat
      /\ promoNow' >= promoNow /\ StartsFit /\ StartsFit' /\ SlotInv
  <2>1. promoNow \in Nat /\ promoNow' \in Nat /\ (promoNow' = promoNow \/ promoNow' = promoNow + 1)
    <3>1. promoNow \in Nat
      BY SlotTypes DEF KeepInv
    <3>2. promoNow' = promoNow \/ promoNow' = promoNow + 1
      BY DEF PromoNext, BeginStart, ReadOffer, ReadCode, Judge, Extend, ReleaseOther, TakeSlot,
             Verify, Drop, OpenForm, GiveBackUnmoved, UpdateOffer, GiveBackReplaced, Conclude,
             Reverse, SetStatus, ExpireDue, TimePasses
    <3> QED
      BY <3>1, <3>2
  <2>2. StartsFit'
    BY DEF SlotInv, PromoTypeOK, StartsFit, StartRow
  <2> QED
    BY <2>1, <2>2, EachStartBecomes, PartsOfSlotInv DEF KeepInv
<1>2. o \in Offers /\ row.startedAt \in Nat /\ row.opened \in BOOLEAN
  BY <1>1 DEF StartsFit, StartsKnow, StartRow
<1>3. next.startedAt <= begun'[o]
  <2>1. begun[o] \in Nat /\ begun'[o] \in Nat /\ begun'[o] >= begun[o]
    BY <1>2, BegunBecomes DEF KeepInv
  <2>2. CASE next.startedAt = promoNow /\ begun'[o] = promoNow
    BY <1>1, <2>2
  <2>3. CASE row.place # "idle" /\ next.startedAt = row.startedAt /\ o = row.offer
    <3>1. row.startedAt <= begun[o]
      BY <1>1, <2>3 DEF StartFits
    <3> QED
      BY <1>2, <2>1, <2>3, <3>1
  <2> QED
    BY <1>1, <2>2, <2>3 DEF StartBecomes
<1>4. ASSUME form'[o] # Changed
      PROVE  /\ next.place \notin {"releasing", "dropping"}
             /\ next.place \in {"looking", "judging", "extending", "taking", "verifying"}
                  => next.code = offers'[o].code
             /\ next.place = "verifying" /\ next.opened => KeptAfter(next.startedAt + FormTime)
  <2>1. /\ form[o] # Changed /\ offers'[o].code = offers[o].code /\ OfferFits(o)
    BY <1>2, <1>4, OfferStays DEF KeepInv, OffersFit
  <2>2. CASE next = row
    <3>1. /\ next.place \notin {"releasing", "dropping"}
          /\ next.place \in {"looking", "judging", "extending", "taking", "verifying"}
                  => next.code = offers'[o].code
          /\ next.place = "verifying" /\ next.opened => KeptFor(o, next.startedAt + FormTime)
      BY <1>1, <2>1, <2>2 DEF StartFits
    <3>2. ASSUME next.place = "verifying", next.opened
          PROVE  KeptAfter(next.startedAt + FormTime)
      <4>1. row.startedAt + FormTime \in Nat
        BY <1>1, FormEndIsAMoment
      <4>2. PICK m \in Nat : m = row.startedAt + FormTime
        BY <4>1
      <4>3. PICK p \in Offers : p = o
        BY <1>2
      <4>4. KeptFor(p, m)
        BY <2>2, <3>1, <3>2, <4>2, <4>3
      <4>5. KeptFor(p, m)'
        BY <1>4, <4>3, <4>4, KeptStays
      <4>6. KeptAfter(m)
        BY <4>3, <4>5 DEF KeptFor
      <4> QED
        BY <2>2, <4>2, <4>6
    <3> QED
      BY <3>1, <3>2
  <2>3. CASE next.place = "reading" \/ next.place \in {"opening", "giving back"}
    BY <2>3
  <2>4. CASE row.place # "idle" /\ o = row.offer /\ next.startedAt = row.startedAt
    <3>1. /\ row.place \notin {"releasing", "dropping"}
          /\ row.place \in {"looking", "judging", "extending", "taking", "verifying"}
                  => row.code = offers[o].code
      BY <1>1, <2>1, <2>4 DEF StartFits
    <3>2. CASE next.place = "looking" /\ next.code = offers[row.offer].code
      BY <2>1, <2>4, <3>2
    <3>3. ASSUME \/ offers[o].code = NoCode
                 \/ row.place = "verifying" /\ offers[o].code # row.code
                 \/ row.place = "judging" /\ holds[o].code \notin {row.code, NoCode}
          PROVE  FALSE
      BY <2>1, <3>1, <3>3, PromoAssumption DEF OfferFits
    <3>4. CASE /\ next.place \in {"judging", "extending", "taking"} /\ next.code = row.code
               /\ row.place \in {"looking", "judging", "extending", "releasing", "taking"}
      BY <2>1, <3>1, <3>4
    <3>5. CASE /\ next.place = "verifying" /\ row.place \in {"extending", "taking"}
               /\ next.code = row.code /\ next.opened = row.opened
               /\ holds'[row.offer].code = row.code /\ holds'[row.offer].until >= Until(row)
      <4>1. next.code = offers'[o].code
        BY <2>1, <3>1, <3>5
      <4>2. next.opened => Until(row) = next.startedAt + FormTime
        BY <2>4, <3>5 DEF Until
      <4>3. next.opened => KeptAfter(next.startedAt + FormTime)
        BY <2>4, <3>5, <4>1, <4>2 DEF KeptFor
      <4> QED
        BY <3>5, <4>1, <4>3
    <3> QED
      BY <1>1, <2>2, <2>3, <2>4, <3>2, <3>3, <3>4, <3>5 DEF StartBecomes
  <2> QED
    BY <1>1, <2>2, <2>3, <2>4 DEF StartBecomes
<1> QED
  BY <1>3, <1>4 DEF StartFits, KeptFor

\* A form that can still be confirmed keeps its slot, whatever other starts of its
\* sign-up do, unless the last of them began in the form's last moments, whose slot for
\* an opening form is the longer one (pending-registration.service.ts:265; SC-PROMO-023,
\* SC-PROMO-024).
THEOREM FormsKeepTheirSlots == PromoSpec => []KeptUnlessStartedLate
<1>1. PromoInit /\ SlotInv => KeepInv
  <2> SUFFICES ASSUME PromoInit, SlotInv PROVE KeepInv
    OBVIOUS
  <2>1. ASSUME NEW o \in Offers PROVE OfferFits(o) /\ begun[o] <= promoNow
    <3>1. offers[o].code \in PromoCodes /\ holds[o] = NoHold /\ changing[o] = 0
          /\ form[o] = 0 /\ promoNow = 0 /\ begun[o] = 0
      BY DEF PromoInit
    <3> QED
      BY <3>1 DEF OfferFits, KeptFor, NoHold
  <2>2. ASSUME NEW s \in Starts PROVE StartFits(s)
    BY DEF PromoInit, StartFits, NoStart
  <2> QED
    BY <2>1, <2>2 DEF KeepInv, OffersFit, BegunBefore
<1>2. KeepInv /\ SlotInv' /\ [PromoNext]_promoVars => KeepInv'
  <2> SUFFICES ASSUME KeepInv, SlotInv', [PromoNext]_promoVars PROVE KeepInv'
    OBVIOUS
  <2>1. CASE UNCHANGED promoVars
    BY <2>1 DEF promoVars, KeepInv, OffersFit, OfferFits, StartFits, KeptFor, BegunBefore
  <2>2. CASE PromoNext
    <3>1. BegunBefore'
      BY <2>2, BegunBecomes DEF KeepInv, BegunBefore
    <3> QED
      BY <2>2, <3>1, OffersFitStep, StartsFitStep DEF KeepInv
  <2> QED
    BY <2>1, <2>2
<1>3. KeepInv => KeptUnlessStartedLate
  <2> SUFFICES ASSUME KeepInv, NEW o \in Offers, begun[o] + OpeningTime < form[o]
               PROVE  HoldsToTheEnd(o)
    BY DEF KeptUnlessStartedLate
  <2>1. form[o] # Changed
    <3>1. begun[o] \in Nat /\ OpeningTime \in Nat
      BY SlotTypes, PromoAssumption DEF KeepInv
    <3> QED
      BY <3>1 DEF Changed
  <2> QED
    BY <2>1 DEF KeepInv, OffersFit, OfferFits, KeptFor, HoldsToTheEnd
<1> QED
  BY <1>1, <1>2, <1>3, SlotInduction, PTL DEF PromoSpec
=============================================================================
