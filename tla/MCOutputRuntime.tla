--------------------------- MODULE MCOutputRuntime ---------------------------
EXTENDS OutputRuntime, TLC
CONSTANTS e1, e2, m1, s1, s2, w1, w2, w3, x1, x2
Symmetric == Permutations(Publishers) \cup Permutations(Sinks)
               \cup Permutations(Events) \cup Permutations(Controllers)
=============================================================================
