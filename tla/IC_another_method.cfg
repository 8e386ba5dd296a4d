\* A replacement fully paid when it was issued, and then reversed.
CONSTANTS
    r1 = r1
    r2 = r2
    Runs <- OneRun
    Invoices = {1, 2}
    Numbers = {1}
    Methods = {1, 2}
    DirectDebits = {}
    MaxReversals = 1
    Environment = {"replaces invoice", "replaces method"}

SPECIFICATION Spec

CHECK_DEADLOCK FALSE  \* a chain that is paid is left alone

INVARIANTS
    CollectedWithAnother
