--------------------------- MODULE MCLsuFlooding ----------------------------
\* A ring of three routers, and one outside it that is killed.
EXTENDS LsuFlooding

CONSTANTS a, b, c, d

MCLinks == {{a, b}, {b, c}, {c, d}, {d, b}}
MCLastNumber == [r \in Routers |-> IF r = a THEN 1 ELSE 0]

ASSUME Rings
=============================================================================
