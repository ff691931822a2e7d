----------------------------- MODULE MCSessions -----------------------------
EXTENDS Sessions, TLC

\* Connections can be exchanged for one another.
Symmetry == Permutations(Session)
=============================================================================
