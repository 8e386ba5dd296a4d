---------------------------- MODULE MCComponents ----------------------------
(***************************************************************************)
(* Components that share no state, checked side by side: one of them moves, *)
(* and the others stay as they were at first.  What it does is what it does *)
(* alone, so the states are those of each component, added up.              *)
(***************************************************************************)
EXTENDS NoticeSender, SubscriptionContracts, PromoSlots, EntitlementCache, MaintenanceWindow,
        ArchivedFile, TLC

CONSTANTS t1, t2, t3, c1, c2, p1, p2, o1, o2, n1, n2, m1, m2, f1, f2, f3

VARIABLE moving     \* the component that moves

allVars == <<moving, noticeVars, contractVars, promoVars, entitlementVars, maintenanceVars,
             fileVars>>

ThreeTells == {t1, t2, t3}
TwoCallers == {c1, c2}
TwoCodes == {p1, p2}
OneOffer == {o1}
TwoOffers == {o1, o2}
TwoTenants == {n1, n2}
OneProcess == {m1}
OneOperator == {m2}
ThreeFiles == {f1, f2, f3}
OneFile == {f3}

\* The callers of the contracts stand for the starts of the checkouts, the askers
\* and the workers too.
Symmetry == Permutations(TwoCallers) \union Permutations(TwoTenants)

\* Where a component does not move, one of its first states stands for them all.
\* The codes are alike: both offers carry the first, and carried the other.
Init ==
    /\ moving \in {"notices", "contracts", "slots", "entitlements", "maintenance",
                  "files"}
    /\ NoticeInit /\ (moving # "notices" => retriesNobody)
    /\ ContractsInit /\ (moving # "contracts" => Len(contracts) = 1)
    /\ PromoInit /\ offers[o1].code = p1 /\ offers[o2].code = p1
    /\ carried = [o \in TwoOffers |-> TwoCodes]
    /\ EntitlementInit
    /\ MaintenanceInit
    /\ FilesInit

Next ==
    \/ /\ moving = "notices" /\ NoticeNext
       /\ UNCHANGED <<moving, contractVars, promoVars, entitlementVars, maintenanceVars, fileVars>>
    \/ /\ moving = "contracts" /\ ContractsNext
       /\ UNCHANGED <<moving, noticeVars, promoVars, entitlementVars, maintenanceVars, fileVars>>
    \/ /\ moving = "slots" /\ PromoNext
       /\ UNCHANGED <<moving, noticeVars, contractVars, entitlementVars, maintenanceVars, fileVars>>
    \/ /\ moving = "entitlements" /\ EntitlementNext
       /\ UNCHANGED <<moving, noticeVars, contractVars, promoVars, maintenanceVars, fileVars>>
    \/ /\ moving = "maintenance" /\ MaintenanceNext
       /\ UNCHANGED <<moving, noticeVars, contractVars, promoVars, entitlementVars, fileVars>>
    \/ /\ moving = "files" /\ FilesNext
       /\ UNCHANGED <<moving, noticeVars, contractVars, promoVars, entitlementVars, maintenanceVars>>

Spec == Init /\ [][Next]_allVars
=============================================================================
