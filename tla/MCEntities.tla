----------------------------- MODULE MCEntities -----------------------------
\* Entities with a two-register Light, a Switch-like output and a Cover, for TLC.
EXTENDS Entities
CONSTANTS e1, e2, r1, r2, r3, k1
MCOwner == [r \in Register |-> IF r = r3 THEN e2 ELSE e1]
MCMain == [e \in Output |-> IF e = e1 THEN r1 ELSE r3]
=============================================================================
