----------------------------- MODULE MCTransport -----------------------------
(***************************************************************************)
(* Small instances of Transport for TLC.                                   *)
(***************************************************************************)
EXTENDS Transport

CONSTANTS s1, s2, s3, k1, k2

\* s1 and s2 write the same register, s3 another one.
MCKeyOf == [r \in Stateful |-> IF r = s3 THEN k2 ELSE k1]

\* Actions are interchangeable, and so are s1 and s2 (not s3, whose key is
\* another); only safety runs use this.
CallSymmetry == {f @@ g : f \in Permutations(Action), g \in Permutations(Stateful)}
=============================================================================
