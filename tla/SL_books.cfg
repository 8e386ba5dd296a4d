CONSTANTS
    Collected = {2}
    Returned = {1, 2}
    Totals <- SmallTotals
    MaxInvoices = 2
    MaxRows = 5
    MaxPaidOut = 1
SPECIFICATION Spec
CHECK_DEADLOCK FALSE
INVARIANTS TypeOK PartsComeToTheAmount NothingBeyond EndAlike
PROPERTIES KeepsTheAccount CoveredFirst
