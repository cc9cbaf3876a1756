------------------------ MODULE IdempotencyContract ------------------------
(***************************************************************************)
(* What the idempotency layer of kernel-api promises for ONE scope key     *)
(* (tenant, method, canonical target, Idempotency-Key), whatever store is  *)
(* behind the IdempotencyStore trait: the key is a lease that one request  *)
(* holds at a time, that its holder turns into a stored response or gives  *)
(* back, and that everybody else only reads.  IdempotencyRedis and, as     *)
(* long as no lease lapses, IdempotencyMemory implement it.                *)
(***************************************************************************)
EXTENDS IdempotencyTypes

VARIABLES
    entry,        \* the IdempotencyEntry stored under the key, or None
    executing,    \* requests that run the handler
    answer,       \* what each request was answered, or None
    owners,       \* requests that ever held the lease
    lapsed        \* requests whose lease ran into its time to live

contractVars == <<entry, executing, answer, owners, lapsed>>

-----------------------------------------------------------------------------
ContractInit ==
    /\ entry = None
    /\ executing = {}
    /\ answer = [r \in Requests |-> None]
    /\ owners = {}
    /\ lapsed = {}

Take(r) ==
    /\ entry = None
    /\ r \notin owners
    /\ entry' = InFlight(r)
    /\ owners' = owners \cup {r}

\* The request gets the lease and starts the handler.
Acquire(r) ==
    /\ Take(r)
    /\ executing' = executing \cup {r}
    /\ UNCHANGED <<answer, lapsed>>

\* The store took the lease but could not say so: nobody runs the handler.
Orphan(r) ==
    /\ Take(r)
    /\ answer[r] = None
    /\ answer' = [answer EXCEPT ![r] = Unavailable(r)]
    /\ UNCHANGED <<executing, lapsed>>

\* The handler returned, or the request was cancelled while it ran.
Stop(r) ==
    /\ r \in executing
    /\ executing' = executing \ {r}
    /\ UNCHANGED <<entry, answer, owners, lapsed>>

\* The holder stores its response or gives the lease back; with or without
\* that it may answer with its own response.
Settle(r) ==
    /\ r \in owners \ executing
    /\ answer[r] = None
    /\ entry' \in IF entry = InFlight(r) THEN {entry, Completed(r), None} ELSE {entry}
    /\ answer' \in {answer, [answer EXCEPT ![r] = Own(r)]}
    /\ UNCHANGED <<executing, owners, lapsed>>

\* A request that does not get the lease.
Turn(r) ==
    /\ r \notin owners
    /\ answer[r] = None
    /\ \/ answer' = [answer EXCEPT ![r] = Unavailable(r)]
       \/ /\ \E q \in owners : BodyHash[q] # BodyHash[r]
          /\ answer' = [answer EXCEPT ![r] = Conflict(r)]
       \/ /\ IsCompleted(entry)
          /\ entry.hash = BodyHash[r]
          /\ answer' = [answer EXCEPT ![r] = Replay(entry.owner)]
    /\ UNCHANGED <<entry, executing, owners, lapsed>>

\* The time to live of the entry passes.
Lapse ==
    /\ entry # None
    /\ entry' = None
    /\ lapsed' = IF entry.st = "InFlight" THEN lapsed \cup {entry.owner} ELSE lapsed
    /\ UNCHANGED <<executing, answer, owners>>

ContractNext ==
    \/ \E r \in Requests : Acquire(r) \/ Orphan(r) \/ Stop(r) \/ Settle(r) \/ Turn(r)
    \/ Lapse

ContractSpec == ContractInit /\ [][ContractNext]_contractVars

-----------------------------------------------------------------------------
\* The types of the contract's variables.
ContractTypeOK ==
    /\ entry \in Entry \cup {None}
    /\ executing \subseteq Requests
    /\ answer \in [Requests -> Answer \cup {None}]
    /\ owners \subseteq Requests
    /\ lapsed \subseteq Requests

(***************************************************************************)
(* A request runs the handler only while it holds the lease of the key, or *)
(* after the lease ran into its time to live (the owner token compared by  *)
(* complete and release_inflight, the NX of try_acquire).                  *)
(***************************************************************************)
LeaseHeld == \A r \in executing : entry = InFlight(r) \/ r \in lapsed

(***************************************************************************)
(* A replayed response comes from another request with the same body that  *)
(* held the lease, and 409 means that the key was used with another body   *)
(* (the body_hash comparisons of idempotency_middleware).                  *)
(***************************************************************************)
AnswersGenuine ==
    \A r \in Requests : answer[r] # None =>
        /\ answer[r].kind = "replay" =>
              /\ answer[r].of \in owners \ {r}
              /\ BodyHash[answer[r].of] = BodyHash[r]
        /\ answer[r].kind = "conflict" =>
              \E q \in owners : BodyHash[q] # BodyHash[r]

\* The entry was written by a request that held the lease, with its hash.
EntryFromOwner ==
    entry # None => entry.owner \in owners /\ entry.hash = BodyHash[entry.owner]

\* Only holders of the lease run the handler or see their lease lapse.
HoldersAreOwners == executing \cup lapsed \subseteq owners

\* The inductive invariant of the contract.
ContractInv ==
    /\ ContractTypeOK
    /\ LeaseHeld
    /\ AnswersGenuine
    /\ EntryFromOwner
    /\ HoldersAreOwners
=============================================================================
