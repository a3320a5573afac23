--------------------------- MODULE MCSignedRecords ---------------------------
EXTENDS SignedRecords

CONSTANTS w1, w2, g1, g2

\* One witness has a chain and may agree with the other or not; the other has a
\* single record.
MCInstants == 1..2
At(t) == [lower |-> t, upper |-> t]
MCClaims == [w \in Witness |-> IF w = w1 THEN {At(1), At(2)} ELSE {At(1)}]
MCMaxRecords == [w \in Witness |-> IF w = w1 THEN 2 ELSE 1]
===============================================================================
