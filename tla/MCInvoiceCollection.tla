------------------------ MODULE MCInvoiceCollection ------------------------
EXTENDS InvoiceCollection, TLC

CONSTANTS r1, r2

OneRun == {r1}
TwoRuns == {r1, r2}
Symmetry == Permutations(TwoRuns)
=============================================================================
