\* A late success and its reversal while the failure is followed up.
CONSTANTS
    r1 = r1
    r2 = r2
    Runs <- OneRun
    Invoices = {1}
    Numbers = {1, 2}
    Methods = {1}
    DirectDebits = {}
    MaxReversals = 1
    Environment = {"arrives late", "reports"}

SPECIFICATION Spec

CHECK_DEADLOCK FALSE  \* a chain that is paid is left alone

PROPERTIES
    NotOnReversed
