\* Requests are lost; payments arrive late, are reversed, and given back or not.
CONSTANTS
    r1 = r1
    r2 = r2
    Runs <- OneRun
    Invoices = {1}
    Numbers = {1, 2}
    Methods = {1}
    DirectDebits = {}
    MaxReversals = 1
    Environment = {"loses", "reports", "arrives late", "gives back"}

SPECIFICATION FairSpec

CHECK_DEADLOCK FALSE  \* a chain that is paid is left alone

PROPERTIES
    OutcomeIsKnown
    FollowedUpAndTold
