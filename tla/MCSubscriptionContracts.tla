---------------------- MODULE MCSubscriptionContracts ----------------------
EXTENDS SubscriptionContracts

CONSTANTS c1, c2

TwoCallers == {c1, c2}
=============================================================================
