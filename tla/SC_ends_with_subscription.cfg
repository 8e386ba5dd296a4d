\* A change of the plan is under way while the cancellation ends the contract.
CONSTANTS
    c1 = c1
    c2 = c2
    Callers <- TwoCallers
    BeginsUnder = {1}
    MaxContracts = 3
    LastMoment = 3

SPECIFICATION ContractsSpec

CHECK_DEADLOCK FALSE  \* every call is over

INVARIANTS
    EndsWithSubscription
