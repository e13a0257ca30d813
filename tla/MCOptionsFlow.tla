--------------------------- MODULE MCOptionsFlow ---------------------------
\* Options flows on two slaves, a dimmer and an R410, for TLC.
EXTENDS OptionsFlow, TLC
CONSTANTS f1, f2, c1, c2, i1, i2
MCKind == [s \in Slave |-> IF s = 1 THEN {"p210"} ELSE {"r410"}]
MCLayout == {{1, 2}, {3, 4}, {2, 3, 4}}
Symmetric == Permutations(CoverId) \cup Permutations(Interval)
=============================================================================
