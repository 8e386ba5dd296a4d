\* Requests are lost and the payment method is replaced; four attempts is all that are made.
CONSTANTS
    r1 = r1
    r2 = r2
    Runs <- OneRun
    Invoices = {1}
    Numbers = {1, 2, 3, 4}
    Methods = {1, 2}
    DirectDebits = {}
    MaxReversals = 0
    Environment = {"loses", "replaces method"}

SPECIFICATION FairSpec

CHECK_DEADLOCK FALSE  \* a chain that is paid is left alone

PROPERTIES
    PaidOrAwaited
