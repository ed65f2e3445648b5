------------------------------- MODULE MCDrift -------------------------------
\* Drift on a small instance (bounds: README, "Drift").
EXTENDS Drift, TLC

CONSTANTS a, b, app, k1, k2, o1

OneProcess == [t \in Tasks |-> app]
Symmetry == Permutations(Tasks)
=============================================================================
