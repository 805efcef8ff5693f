------------------------------- MODULE MCMemory -------------------------------
\* Memory with a widget and its settings page.
EXTENDS Memory, TLC
CONSTANTS w, p, a, b, m1, m2, m3
Two == {w, p}
Alike == Permutations({a, b}) \cup Permutations(Ids)
=============================================================================
