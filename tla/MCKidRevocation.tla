-------------------------- MODULE MCKidRevocation --------------------------
(* An overlay that can overflow, a kid the listener ignores, and operators who *)
(* may forget to take a revoked kid from the list it is in.                    *)
EXTENDS KidRevocation

CONSTANTS k1, k2, k3, k4

\* The kids of R are revoked and the lists follow, the next kid is promoted.
Tidy(R) ==
    LET active == IF k1 \notin R THEN k1 ELSE IF k2 \notin R THEN k2 ELSE k4
    IN  [active |-> active, next |-> {k2} \ (R \cup {active}), retired |-> {k3} \ R,
         revoked |-> R, keys |-> {k1, k2, k3, k4}]

\* The lists are as they were.
Untidy(R) ==
    [active |-> k1, next |-> {k2}, retired |-> {k3}, revoked |-> R, keys |-> {k1, k2, k3}]

MCKeysets == {Tidy(R) : R \in SUBSET {k1, k2, k3}} \cup {Untidy(R) : R \in SUBSET {k1, k2, k3} \ {{}}}
=============================================================================
