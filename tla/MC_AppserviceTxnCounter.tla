----------------------- MODULE MC_AppserviceTxnCounter -----------------------
EXTENDS AppserviceTxnCounter

CONSTANTS a, b

MCWorkers2 == {a, b}

=============================================================================
