------------------------- MODULE MCIdempotencyRedis -------------------------
(* Three requests with one key, one of them with another body. *)
EXTENDS IdempotencyRedis

CONSTANTS r1, r2, r3, h1, h2, i1, i2

MCBodyHash == [r \in Requests |-> IF r = r3 THEN h2 ELSE h1]
MCAt == [r \in Requests |-> IF r = r1 THEN i1 ELSE i2]
=============================================================================
