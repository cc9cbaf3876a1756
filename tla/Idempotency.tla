---------------------------- MODULE Idempotency ----------------------------
(***************************************************************************)
(* idempotency_middleware of kernel-api/src/middleware.rs for one scope    *)
(* key, without the store: the state of the requests, the steps that do    *)
(* not touch the store, and the properties both stores are checked for.    *)
(* IdempotencyRedis and IdempotencyMemory add try_acquire, complete,       *)
(* release_inflight and the notification of the waiters.                   *)
(***************************************************************************)
EXTENDS Naturals, IdempotencyTypes

CONSTANTS
    MaxAttempts,  \* MAX_ATTEMPTS
    MaxLapses     \* bound: times the time to live of an entry passes

VARIABLES
    entry,        \* the IdempotencyEntry stored under the key, or None
    pc,           \* where each request is in the middleware
    attempts,     \* try_acquire calls each request has made
    answer,       \* what each request was answered, or None
    owners,       \* history: requests that ever held the lease
    lapsed,       \* history: requests whose lease ran into its time to live
    lapses        \* lapses so far

requestVars == <<pc, attempts, answer>>
historyVars == <<owners, lapsed, lapses>>

ASSUME AttemptsAssumption == MaxAttempts \in Nat \ {0}
ASSUME LapsesAssumption == MaxLapses \in Nat

\* The requests that run the handler.
Executing == {r \in Requests : pc[r] = "handler"}

Contract == INSTANCE IdempotencyContract WITH executing <- Executing

IdempotencyInit ==
    /\ entry = None
    /\ pc = [r \in Requests |-> "acquire"]
    /\ attempts = [r \in Requests |-> 0]
    /\ answer = [r \in Requests |-> None]
    /\ owners = {}
    /\ lapsed = {}
    /\ lapses = 0

Goto(r, l) == pc' = [pc EXCEPT ![r] = l]

Return(r, a) ==
    /\ Goto(r, "done")
    /\ answer' = [answer EXCEPT ![r] = a]

\* The store hands the lease of the key to r, which runs the handler next.
TakeLease(r) ==
    /\ entry' = InFlight(r)
    /\ owners' = owners \cup {r}
    /\ Goto(r, "handler")
    /\ UNCHANGED <<answer, lapsed, lapses>>

\* Mutant: the record is replayed whatever the body is.
AnswerFromRecord_AnyBody(r) ==
    /\ IsCompleted(entry)
    /\ Return(r, Replay(entry.owner))

\* try_acquire returned Existing(Completed): replay, or 409 on another body.
AnswerFromRecord(r) ==
    /\ IsCompleted(entry)
    /\ Return(r, IF entry.hash = BodyHash[r] THEN Replay(entry.owner)
                                             ELSE Conflict(r))

\* Exceeded max attempts.
GiveUp(r) ==
    /\ pc[r] = "acquire"
    /\ attempts[r] = MaxAttempts
    /\ Return(r, Unavailable(r))
    /\ UNCHANGED <<entry, attempts, historyVars>>

BeginAttempt(r) ==
    /\ pc[r] = "acquire"
    /\ attempts[r] < MaxAttempts
    /\ attempts' = [attempts EXCEPT ![r] = @ + 1]

\* Mutant: the wait has no deadline.
WaitTimeout_Never(r) ==
    /\ pc[r] = "wait"
    /\ FALSE
    /\ UNCHANGED <<entry, requestVars, historyVars>>

\* The wait for the holder of the lease times out.
WaitTimeout(r) ==
    /\ pc[r] = "wait"
    /\ Return(r, Unavailable(r))
    /\ UNCHANGED <<entry, attempts, historyVars>>

\* next.run(req) returns: a success that can be stored goes to complete; an
\* error status, a body that is too large or cannot be read, to release.
HandlerReturns(r) ==
    /\ pc[r] = "handler"
    /\ Goto(r, "complete") \/ Goto(r, "release")
    /\ UNCHANGED <<entry, attempts, answer, historyVars>>

\* The client disconnects and the future is dropped at one of its awaits.
Cancelled(r) ==
    /\ pc[r] \notin {"done", "gone"}
    /\ Goto(r, "gone")

\* The entry is no longer there for anybody: its time to live has passed.
LapseEntry ==
    /\ entry # None
    /\ lapses < MaxLapses
    /\ lapses' = lapses + 1
    /\ lapsed' = IF entry.st = "InFlight" THEN lapsed \cup {entry.owner} ELSE lapsed

-----------------------------------------------------------------------------
(***************************************************************************)
(* A request runs the handler only while it holds the lease of the key, or *)
(* after the lease ran into its time to live: two requests with one key    *)
(* never run the handler at the same time otherwise.                       *)
(***************************************************************************)
RunningHoldsLease == Contract!LeaseHeld

(***************************************************************************)
(* A replayed response comes from another request with the same body that  *)
(* held the lease, and 409 means that the key was used with another body,  *)
(* leases that lapsed included.                                            *)
(***************************************************************************)
AnswersGenuine == Contract!AnswersGenuine

(***************************************************************************)
(* The store implements the contract of the idempotency layer: only the    *)
(* holder of the lease changes the entry, a stored response stays until    *)
(* its time to live passes, and every answer is one the contract allows.   *)
(***************************************************************************)
ImplementsContract == Contract!ContractSpec

(***************************************************************************)
(* Every request is answered (or its client has gone): neither a crashed   *)
(* holder nor a lost notification blocks it for ever.                      *)
(***************************************************************************)
EveryRequestAnswered ==
    \A r \in Requests : <>(pc[r] \in {"done", "gone"})
=============================================================================
