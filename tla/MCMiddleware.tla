---------------------------- MODULE MCMiddleware ----------------------------
(***************************************************************************)
(* The middleware in front of the write handlers, in two parts that share  *)
(* nothing: the idempotency layer with its in-memory store, and the quota. *)
(***************************************************************************)
EXTENDS MCIdempotencyMemory, MCQuota

VARIABLE part

mcVars == <<memoryVars, quotaVars, part>>

MCInit == MemoryInit /\ QuotaInit /\ part \in {"idempotency", "quota"}

MCNext ==
    /\ \/ part = "idempotency" /\ MemoryNext /\ UNCHANGED quotaVars
       \/ part = "quota" /\ QuotaNext /\ UNCHANGED memoryVars
    /\ UNCHANGED part

MCSpec == MCInit /\ [][MCNext]_mcVars /\ MemoryFairness
=============================================================================
