------------------------ MODULE MCIdempotencyMemory ------------------------
(* Four requests with one key, one of them with another body. *)
EXTENDS IdempotencyMemory

CONSTANTS r1, r2, r3, r4, h1, h2

MCBodyHash == [r \in Requests |-> IF r = r4 THEN h2 ELSE h1]
=============================================================================
