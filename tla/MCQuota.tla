------------------------------ MODULE MCQuota ------------------------------
(* Two tenants, one of them with overrides, at two ticks to the second. *)
EXTENDS Quota, TLC

CONSTANTS acme, globex

Limit(r, c, s) == [rate |-> r, capacity |-> c, cost |-> s, backoff |-> 1]
MCGlobal == [system |-> Limit(1, 4, 2), breaker |-> Limit(1, 4, 2),
             budget |-> Limit(2, 6, 4), api |-> Limit(1, 3, 1)]
NoOverride == [l \in Layer |-> Unset]
MCOverride == (acme :> [NoOverride EXCEPT !["budget"] = Limit(1, 0, 1)])
    @@ (globex :> [NoOverride EXCEPT !["budget"] = Limit(1, 4, 4), !["api"] = Limit(2, 2, 2)])
MCSingles == {<<acme, "breaker">>}
MCOffsets == {0}
SkewedOffsets == {-1, 0}
=============================================================================
