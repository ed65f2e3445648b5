----------------------------- MODULE MCQuickShare -----------------------------
\* QuickShare on small instances (bounds: README, "QuickShare").
EXTENDS QuickShare, TLC

Symmetry == Permutations(Shares)
=============================================================================
