------------------------- MODULE IdempotencyMemory -------------------------
(***************************************************************************)
(* InMemoryIdempotencyStore under idempotency_middleware: the tasks of one *)
(* process share a map behind a Mutex.  What happens under the lock is one *)
(* step; every unlock is a point where the tasks interleave.  The handler  *)
(* is write_test, which keeps an ActionRecord in the InMemoryActionStore.  *)
(***************************************************************************)
EXTENDS Idempotency

VARIABLES
    expired,      \* TRUE iff the expires_at of the entry has passed
    holds,        \* the owner of the entry whose Notify each request holds
    cleanup,      \* the same for the cleanup task, between its unlock and notify
    actions       \* the requests whose handler has kept its ActionRecord

memoryVars == <<entry, requestVars, historyVars, expired, holds, cleanup, actions>>

\* notify_waiters, called without the lock: it wakes the requests that wait
\* on the Notify of q at this moment.
Woken(q) ==
    [r \in Requests |-> IF pc[r] = "wait" /\ holds[r] = q THEN "acquire" ELSE pc[r]]

(***************************************************************************)
(* try_acquire                                                             *)
(***************************************************************************)
Insert(r) == TakeLease(r) /\ expired' = FALSE

\* Mutant: the lease is inserted over whatever is stored.
AcquireFree_Unchecked(r) ==
    /\ BeginAttempt(r)
    /\ Insert(r)
    /\ UNCHANGED <<holds, cleanup, actions>>

\* Nothing is stored, or a record that has expired.
AcquireFree(r) ==
    /\ BeginAttempt(r)
    /\ entry = None \/ (expired /\ IsCompleted(entry))
    /\ Insert(r)
    /\ UNCHANGED <<holds, cleanup, actions>>

\* An expired InFlight entry is removed and the lock dropped; then its waiters
\* are notified (NotifyExpired) and the lock is taken again (Relock).
AcquireExpired(r) ==
    /\ BeginAttempt(r)
    /\ entry # None /\ ~IsCompleted(entry) /\ expired
    /\ entry' = None
    /\ expired' = FALSE
    /\ holds' = [holds EXCEPT ![r] = entry.owner]
    /\ Goto(r, "notify")
    /\ UNCHANGED <<answer, historyVars, cleanup, actions>>

NotifyExpired(r) ==
    /\ pc[r] = "notify"
    /\ pc' = [Woken(holds[r]) EXCEPT ![r] = "relock"]
    /\ UNCHANGED <<entry, attempts, answer, historyVars, expired, holds, cleanup, actions>>

\* The lock is held again: the lease is inserted over whatever is there.
Relock(r) ==
    /\ pc[r] = "relock"
    /\ Insert(r)
    /\ UNCHANGED <<attempts, holds, cleanup, actions>>

\* Existing(entry): replay, 409, or the Notify of the holder to wait on.
AcquireExisting(r) ==
    /\ BeginAttempt(r)
    /\ entry # None /\ ~expired
    /\ \/ AnswerFromRecord(r) /\ UNCHANGED holds
       \/ /\ ~IsCompleted(entry)
          /\ \/ /\ entry.hash # BodyHash[r]
                /\ Return(r, Conflict(r))
                /\ UNCHANGED holds
             \/ /\ entry.hash = BodyHash[r]
                /\ Goto(r, "enable")
                /\ holds' = [holds EXCEPT ![r] = entry.owner]
                /\ UNCHANGED answer
    /\ UNCHANGED <<entry, historyVars, expired, cleanup, actions>>

Enable(r) ==
    /\ pc[r] = "enable"
    /\ Goto(r, "wait")
    /\ UNCHANGED <<entry, attempts, answer, historyVars, expired, holds, cleanup, actions>>

(***************************************************************************)
(* The handler, write_test: its record in the InMemoryActionStore is the   *)
(* effect that a retry must not repeat.                                    *)
(***************************************************************************)
\* record_action under a new action_id.
RecordAction(r) ==
    /\ pc[r] = "handler" /\ r \notin actions
    /\ actions' = actions \cup {r}
    /\ UNCHANGED <<entry, requestVars, historyVars, expired, holds, cleanup>>

\* write_test cannot fail, and answers 201 with a small body, after it recorded
\* its action; a layer in front of it may answer an error before.
ReturnAction(r) ==
    /\ HandlerReturns(r)
    /\ pc'[r] = "complete" <=> r \in actions
    /\ UNCHANGED <<expired, holds, cleanup, actions>>

(***************************************************************************)
(* complete and release_inflight                                           *)
(***************************************************************************)
HoldsLease(r) == entry = InFlight(r)

Complete(r) ==
    /\ pc[r] = "complete"
    /\ \/ /\ HoldsLease(r)
          /\ entry' = Completed(r)
          /\ expired' = FALSE
          /\ Goto(r, "settled")
       \/ /\ ~HoldsLease(r)
          /\ Goto(r, "release")
          /\ UNCHANGED <<entry, expired>>
    /\ UNCHANGED <<attempts, answer, historyVars, holds, cleanup, actions>>

Release(r) ==
    /\ pc[r] = "release"
    /\ \/ /\ HoldsLease(r)
          /\ entry' = None
          /\ expired' = FALSE
          /\ Goto(r, "settled")
          /\ UNCHANGED answer
       \/ /\ ~HoldsLease(r)
          /\ Return(r, Own(r))
          /\ UNCHANGED <<entry, expired>>
    /\ UNCHANGED <<attempts, historyVars, holds, cleanup, actions>>

\* After the unlock: notify the waiters, return the response.
NotifyOwn(r) ==
    /\ pc[r] = "settled"
    /\ pc' = [Woken(r) EXCEPT ![r] = "done"]
    /\ answer' = [answer EXCEPT ![r] = Own(r)]
    /\ UNCHANGED <<entry, attempts, historyVars, expired, holds, cleanup, actions>>

\* Mutant: a request that is dropped before its response is stored gives the
\* lease back.
Cancel_Releases(r) ==
    /\ Cancelled(r)
    /\ pc[r] \notin {"notify", "settled"}
    /\ entry' = IF pc[r] = "complete" /\ HoldsLease(r) THEN None ELSE entry
    /\ UNCHANGED <<attempts, answer, historyVars, expired, holds, cleanup, actions>>

\* No await lies between an unlock and the notification that follows it.
Cancel(r) ==
    /\ Cancelled(r)
    /\ pc[r] \notin {"notify", "settled"}
    /\ UNCHANGED <<entry, attempts, answer, historyVars, expired, holds, cleanup, actions>>

(***************************************************************************)
(* Time: expires_at passes; the cleanup task removes what has expired.     *)
(***************************************************************************)
Expire ==
    /\ ~expired
    /\ LapseEntry
    /\ expired' = TRUE
    /\ UNCHANGED <<entry, requestVars, owners, holds, cleanup, actions>>

Cleanup ==
    /\ cleanup = None
    /\ entry # None /\ expired
    /\ entry' = None
    /\ expired' = FALSE
    /\ cleanup' = IF IsCompleted(entry) THEN None ELSE entry.owner
    /\ UNCHANGED <<requestVars, historyVars, holds, actions>>

CleanupNotify ==
    /\ cleanup # None
    /\ pc' = Woken(cleanup)
    /\ cleanup' = None
    /\ UNCHANGED <<entry, attempts, answer, historyVars, expired, holds, actions>>

-----------------------------------------------------------------------------
MemoryInit ==
    /\ IdempotencyInit
    /\ expired = FALSE
    /\ holds = [r \in Requests |-> None]
    /\ cleanup = None
    /\ actions = {}

Progress(r) ==
    \/ AcquireFree(r) \/ AcquireExpired(r) \/ AcquireExisting(r) \/ Relock(r)
    \/ NotifyExpired(r) \/ Enable(r) \/ Complete(r) \/ Release(r) \/ NotifyOwn(r)
    \/ RecordAction(r) \/ ReturnAction(r)
    \/ /\ GiveUp(r) \/ WaitTimeout(r)
       /\ UNCHANGED <<expired, holds, cleanup, actions>>

MemoryNext ==
    \/ \E r \in Requests : Progress(r) \/ Cancel(r)
    \/ Expire
    \/ Cleanup
    \/ CleanupNotify

MemorySpec == MemoryInit /\ [][MemoryNext]_memoryVars

\* Tasks are scheduled, handlers return and timers fire.
MemoryFairness == \A r \in Requests : WF_memoryVars(Progress(r))
FairMemorySpec == MemorySpec /\ MemoryFairness

-----------------------------------------------------------------------------
\* The types of the store's variables; a request waits only for a holder with
\* its own body.
MemoryTypeOK ==
    /\ Contract!ContractTypeOK
    /\ pc \in [Requests -> {"acquire", "notify", "relock", "enable", "wait", "handler",
                            "complete", "release", "settled", "done", "gone"}]
    /\ attempts \in [Requests -> 0..MaxAttempts]
    /\ lapses \in 0..MaxLapses
    /\ expired \in BOOLEAN
    /\ holds \in [Requests -> Requests \cup {None}]
    /\ \A r \in Requests : pc[r] = "wait" => BodyHash[holds[r]] = BodyHash[r]
    /\ cleanup \in Requests \cup {None}
    /\ actions \subseteq Requests

(***************************************************************************)
(* The requests with one key have one effect, as long as no time to live   *)
(* has passed: a retry does not repeat what a request did that completed,  *)
(* that is about to, or whose client went away with its future before its  *)
(* response was stored.  The contract does not say this: it lets a holder  *)
(* give the lease back whatever its handler did.                           *)
(***************************************************************************)
EffectOnceUntilLapse == lapses = 0 => \A q, r \in actions : q = r

(***************************************************************************)
(* As long as no time to live has passed, every step of the store is a     *)
(* step of the contract of the idempotency layer (or changes nothing that  *)
(* the contract speaks about).  After a lapse try_acquire drops its lock   *)
(* between removing the entry and inserting its own: see RunningHoldsLease.*)
(***************************************************************************)
ContractUntilLapse ==
    /\ Contract!ContractInit
    /\ [][lapses' = 0 => Contract!ContractNext]_(Contract!contractVars)
=============================================================================
