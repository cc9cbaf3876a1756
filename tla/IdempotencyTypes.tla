-------------------------- MODULE IdempotencyTypes --------------------------
(***************************************************************************)
(* The requests with one idempotency key, the entries a store keeps under  *)
(* it and the answers of the middleware (kernel-api/src/middleware.rs).    *)
(***************************************************************************)
CONSTANTS
    Requests,     \* the HTTP requests sent with the key
    Hashes,       \* body hashes
    BodyHash,     \* the body hash of each request
    None

ASSUME HashAssumption == BodyHash \in [Requests -> Hashes]

InFlight(r) == [st |-> "InFlight", owner |-> r, hash |-> BodyHash[r]]
Completed(r) == [st |-> "Completed", owner |-> r, hash |-> BodyHash[r]]
Entry == [st : {"InFlight", "Completed"}, owner : Requests, hash : Hashes]
IsCompleted(e) == e # None /\ e.st = "Completed"

\* A response: the request's own, the stored one of another request, 409, 503.
Answer == [kind : {"own", "replay", "conflict", "unavailable"}, of : Requests]
Own(r) == [kind |-> "own", of |-> r]
Replay(q) == [kind |-> "replay", of |-> q]
Conflict(r) == [kind |-> "conflict", of |-> r]
Unavailable(r) == [kind |-> "unavailable", of |-> r]

ASSUME NoneAssumption == None \notin Entry /\ None \notin Answer
=============================================================================
