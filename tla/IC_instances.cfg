\* Two instances on one chain, and either the gateway's reports, in any order, or
\* cancellations of the invoice, with and without a replacement.
CONSTANTS
    r1 = r1
    r2 = r2
    Runs <- TwoRuns
    Invoices = {1, 2}
    Numbers = {1, 2}
    Methods = {1, 2}
    DirectDebits = {}
    MaxReversals = 0
    Environment = {"reports", "arrives late", "replaces invoice", "cancels", "replaces method"}

SPECIFICATION Spec
ACTION_CONSTRAINT OneCourse
SYMMETRY Symmetry

CHECK_DEADLOCK FALSE  \* a chain that is paid is left alone

INVARIANTS
    TypeOK
    OneOpenPerChain
    BookedAsCollected
    NoSecondRequestInDoubt

PROPERTIES
    SettledStays
