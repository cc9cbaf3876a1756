-------------------------- MODULE IdempotencyRedis --------------------------
(***************************************************************************)
(* RedisIdempotencyStore under idempotency_middleware: several instances   *)
(* of kernel-api share the key in Redis, every await is a point where they *)
(* interleave, and a waiter is woken through a pub/sub channel that each   *)
(* instance listens to only while it has waiters.                          *)
(*                                                                         *)
(* The Lua scripts and SET NX are atomic in Redis.  A command that returns *)
(* an error may or may not have taken effect.                              *)
(***************************************************************************)
EXTENDS Idempotency, FiniteSets

CONSTANTS
    Instances,    \* the kernel-api processes
    At            \* the instance that serves each request

VARIABLES
    seen_hash,    \* the body hash of the InFlight value each request read
    permit,       \* requests whose Notify holds a permit (notify_one)
    waiters,      \* per instance: ChannelSubscriptionState.waiters
    spawner,      \* per instance: the request that is about to spawn, or None
    listener      \* per instance: the state of the channel listener

subVars == <<waiters, spawner, listener>>
waitVars == <<seen_hash, permit, subVars>>
redisVars == <<entry, requestVars, historyVars, waitVars>>

ASSUME AtAssumption == At \in [Requests -> Instances]

\* "spawning": running is TRUE, the task is not spawned yet; "message": a
\* message of the channel has arrived and is not processed yet.
Listener == {"off", "spawning", "starting", "on", "message", "stopping"}

\* Publish on the channel: every subscribed listener gets the message.
Publish ==
    listener' = [i \in Instances |-> IF listener[i] = "on" THEN "message" ELSE listener[i]]

\* The Weak pointer can be upgraded: the request still holds its Notify.
Alive(i) == {r \in waiters[i] : pc[r] \in {"recheck", "enable", "wait"}}

-----------------------------------------------------------------------------
(***************************************************************************)
(* try_acquire: SET NX EX, then get.                                       *)
(***************************************************************************)
SetNX(r) ==
    /\ BeginAttempt(r)
    /\ \/ entry = None /\ TakeLease(r)
       \/ entry # None /\ Goto(r, "get") /\ UNCHANGED <<entry, answer, historyVars>>
    /\ UNCHANGED waitVars

\* SET returned an error: 503, although the key may have been set.
SetFails(r) ==
    /\ BeginAttempt(r)
    /\ Return(r, Unavailable(r))
    /\ \/ UNCHANGED <<entry, owners>>
       \/ /\ entry = None
          /\ entry' = InFlight(r)
          /\ owners' = owners \cup {r}
    /\ UNCHANGED <<lapsed, lapses, waitVars>>

\* GET: Retry when the key is gone, a record, or an InFlight value to wait on.
Get(r) ==
    /\ pc[r] = "get"
    /\ \/ entry = None /\ Goto(r, "acquire") /\ UNCHANGED <<answer, seen_hash>>
       \/ AnswerFromRecord(r) /\ UNCHANGED seen_hash
       \/ /\ entry # None /\ ~IsCompleted(entry)
          /\ Goto(r, "register")
          /\ seen_hash' = [seen_hash EXCEPT ![r] = entry.hash]
          /\ UNCHANGED answer
    /\ UNCHANGED <<entry, attempts, historyVars, permit, subVars>>

GetFails(r) ==
    /\ pc[r] = "get"
    /\ Return(r, Unavailable(r))
    /\ UNCHANGED <<entry, attempts, historyVars, waitVars>>

(***************************************************************************)
(* register_waiter: register under the lock, read the key again, spawn the *)
(* listener if this waiter is the first.                                   *)
(***************************************************************************)
Register(r) ==
    LET i == At[r]
    IN  /\ pc[r] = "register"
        /\ Goto(r, "recheck")
        /\ waiters' = [waiters EXCEPT ![i] = @ \cup {r}]
        /\ permit' = permit \ {r}
        /\ \/ /\ listener[i] = "off"
              /\ listener' = [listener EXCEPT ![i] = "spawning"]
              /\ spawner' = [spawner EXCEPT ![i] = r]
           \/ /\ listener[i] # "off"
              /\ UNCHANGED <<listener, spawner>>
        /\ UNCHANGED <<entry, attempts, answer, historyVars, seen_hash>>

Recheck(r) ==
    LET i == At[r]
    IN  /\ pc[r] = "recheck"
        /\ Goto(r, "enable")
        /\ \/ /\ entry = None \/ IsCompleted(entry)
              /\ permit' = permit \cup {r}
           \/ UNCHANGED permit    \* still InFlight, or GET failed
        /\ \/ /\ spawner[i] = r
              /\ listener' = [listener EXCEPT ![i] = "starting"]
              /\ spawner' = [spawner EXCEPT ![i] = None]
           \/ /\ spawner[i] # r
              /\ UNCHANGED <<listener, spawner>>
        /\ UNCHANGED <<entry, attempts, answer, historyVars, seen_hash, waiters>>

\* Existing(InFlight): 409 on another body, otherwise notified().enable(); a
\* stored permit wakes the request at once.
Enable(r) ==
    /\ pc[r] = "enable"
    /\ \/ /\ seen_hash[r] # BodyHash[r]
          /\ Return(r, Conflict(r))
       \/ /\ seen_hash[r] = BodyHash[r]
          /\ Goto(r, IF r \in permit THEN "acquire" ELSE "wait")
          /\ UNCHANGED answer
    /\ UNCHANGED <<entry, attempts, historyVars, waitVars>>

(***************************************************************************)
(* complete and release_inflight: compare-and-set on the owner token.      *)
(***************************************************************************)
\* Mutant: the script looks for any InFlight value.
HoldsLease_AnyOwner(r) == entry # None /\ entry.st = "InFlight"

HoldsLease(r) == entry = InFlight(r)

StoreResponse(r) == HoldsLease(r) /\ entry' = Completed(r) /\ Publish
FreeKey(r) == HoldsLease(r) /\ entry' = None /\ Publish

Complete(r) ==
    /\ pc[r] = "complete"
    /\ \/ StoreResponse(r) /\ Return(r, Own(r))
       \/ /\ ~HoldsLease(r) /\ Goto(r, "release")
          /\ UNCHANGED <<entry, listener, answer>>
    /\ UNCHANGED <<attempts, historyVars, seen_hash, permit, waiters, spawner>>

\* The script failed, or its reply was lost: release_inflight is tried next.
CompleteFails(r) ==
    /\ pc[r] = "complete"
    /\ Goto(r, "release")
    /\ StoreResponse(r) \/ UNCHANGED <<entry, listener>>
    /\ UNCHANGED <<attempts, answer, historyVars, seen_hash, permit, waiters, spawner>>

\* The result of release_inflight is ignored: not the owner, or an error.
Release(r) ==
    /\ pc[r] = "release"
    /\ Return(r, Own(r))
    /\ \/ FreeKey(r)
       \/ UNCHANGED <<entry, listener>>
    /\ UNCHANGED <<attempts, historyVars, seen_hash, permit, waiters, spawner>>

\* A script that was sent before the client disconnected still takes effect.
Cancel(r) ==
    /\ Cancelled(r)
    /\ \/ pc[r] = "complete" /\ StoreResponse(r)
       \/ pc[r] = "release" /\ FreeKey(r)
       \/ UNCHANGED <<entry, listener>>
    /\ UNCHANGED <<attempts, answer, historyVars, seen_hash, permit, waiters, spawner>>

(***************************************************************************)
(* The listener task of an instance.                                       *)
(***************************************************************************)
\* notify_waiters wakes the requests that wait; it leaves no permit behind.
NotifyWaiters(i) ==
    /\ pc' = [r \in Requests |-> IF r \in waiters[i] /\ pc[r] = "wait"
                                 THEN "acquire" ELSE pc[r]]
    /\ waiters' = [waiters EXCEPT ![i] = Alive(i)]

Subscribe(i) ==
    /\ listener[i] = "starting"
    /\ listener' = [listener EXCEPT ![i] = "on"]
    /\ UNCHANGED <<entry, requestVars, historyVars, seen_hash, permit, waiters, spawner>>

SubscribeFails(i) ==
    /\ listener[i] = "starting"
    /\ listener' = [listener EXCEPT ![i] = "off"]
    /\ NotifyWaiters(i)
    /\ UNCHANGED <<entry, attempts, answer, historyVars, seen_hash, permit, spawner>>

Message(i) ==
    /\ listener[i] = "message"
    /\ NotifyWaiters(i)
    /\ listener' = [listener EXCEPT ![i] = IF Alive(i) = {} THEN "stopping" ELSE "on"]
    /\ UNCHANGED <<entry, attempts, answer, historyVars, seen_hash, permit, spawner>>

\* The poll finds no waiter, or the connection is lost.
LeaveLoop(i) ==
    /\ listener[i] \in {"on", "message"}
    /\ listener' = [listener EXCEPT ![i] = "stopping"]
    /\ UNCHANGED <<entry, requestVars, historyVars, seen_hash, permit, waiters, spawner>>

\* Unsubscribed: respawn for waiters that registered meanwhile.
StopListener(i) ==
    /\ listener[i] = "stopping"
    /\ waiters' = [waiters EXCEPT ![i] = Alive(i)]
    /\ listener' = [listener EXCEPT ![i] = IF Alive(i) = {} THEN "off" ELSE "starting"]
    /\ UNCHANGED <<entry, requestVars, historyVars, seen_hash, permit, spawner>>

\* Redis expires the key; nothing is published.
Expire ==
    /\ LapseEntry
    /\ entry' = None
    /\ UNCHANGED <<requestVars, owners, waitVars>>

-----------------------------------------------------------------------------
RedisInit ==
    /\ IdempotencyInit
    /\ seen_hash = [r \in Requests |-> None]
    /\ permit = {}
    /\ waiters = [i \in Instances |-> {}]
    /\ spawner = [i \in Instances |-> None]
    /\ listener = [i \in Instances |-> "off"]

Progress(r) ==
    \/ SetNX(r) \/ SetFails(r)
    \/ Get(r) \/ GetFails(r)
    \/ Register(r) \/ Recheck(r) \/ Enable(r)
    \/ Complete(r) \/ CompleteFails(r) \/ Release(r)
    \/ (GiveUp(r) \/ WaitTimeout(r) \/ HandlerReturns(r)) /\ UNCHANGED waitVars

RedisNext ==
    \/ \E r \in Requests : Progress(r) \/ Cancel(r)
    \/ \E i \in Instances :
          \/ Subscribe(i) \/ SubscribeFails(i) \/ Message(i)
          \/ LeaveLoop(i) \/ StopListener(i)
    \/ Expire

RedisSpec == RedisInit /\ [][RedisNext]_redisVars

(***************************************************************************)
(* Requests are scheduled, handlers return and timers fire; nothing is     *)
(* assumed of Redis, the listeners or the clients.                         *)
(***************************************************************************)
FairRedisSpec == RedisSpec /\ \A r \in Requests : WF_redisVars(Progress(r))

-----------------------------------------------------------------------------
\* The types of the store's variables.
RedisTypeOK ==
    /\ Contract!ContractTypeOK
    /\ pc \in [Requests -> {"acquire", "get", "register", "recheck", "enable", "wait",
                            "handler", "complete", "release", "done", "gone"}]
    /\ attempts \in [Requests -> 0..MaxAttempts]
    /\ lapses \in 0..MaxLapses
    /\ seen_hash \in [Requests -> Hashes \cup {None}]
    /\ permit \subseteq Requests
    /\ waiters \in [Instances -> SUBSET Requests]
    /\ spawner \in [Instances -> Requests \cup {None}]
    /\ listener \in [Instances -> Listener]
=============================================================================
