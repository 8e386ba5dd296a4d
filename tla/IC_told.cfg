\* An instance that may stop anywhere; failures, reversals and what is told of them.
CONSTANTS
    r1 = r1
    r2 = r2
    Runs <- OneRun
    Invoices = {1}
    Numbers = {1, 2, 3}
    Methods = {1, 2}
    DirectDebits = {2}
    MaxReversals = 1
    Environment = {"replaces method", "arrives late", "gives back", "stops"}

SPECIFICATION Spec

CHECK_DEADLOCK FALSE  \* a chain that is paid is left alone

INVARIANTS
    ToldReplaceIsReplaced
    FailureIsTold
    AnnouncedAfterTold
    
