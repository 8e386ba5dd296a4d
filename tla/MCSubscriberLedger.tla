------------------------- MODULE MCSubscriberLedger -------------------------
(***************************************************************************)
(* The totals the checked invoices are of: a cent or two, and one that is   *)
(* owed to the subscriber.                                                  *)
(***************************************************************************)
EXTENDS SubscriberLedger

SmallTotals == {-1, 1, 2}
=============================================================================
