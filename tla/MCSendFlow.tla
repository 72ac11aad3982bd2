------------------------------ MODULE MCSendFlow ------------------------------
EXTENDS SendFlow, TLC

CONSTANTS w1, w2, p1, r1, r2, pay1, pay2

Symmetry == Permutations({w1, w2}) \cup Permutations({r1, r2})
              \cup Permutations({pay1, pay2})
===============================================================================
