--------------------------- MODULE MCBrowserLease ---------------------------
EXTENDS BrowserLeaseProps, TLC
Symmetry == Permutations(Webs)
=============================================================================
