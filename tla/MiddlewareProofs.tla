-------------------------- MODULE MiddlewareProofs --------------------------
(***************************************************************************)
(* The middleware in front of the write handlers, for every number of      *)
(* requests, tenants, attempts and lapses: the answers of the in-memory    *)
(* idempotency store are genuine, until a lease lapses it keeps the        *)
(* contract and a key has one effect; the quota charges all its layers     *)
(* together or none, no bucket gives more than its limit over any          *)
(* interval, and waiting for Retry-After is enough.                        *)
(***************************************************************************)
EXTENDS IdempotencyMemory, Quota, TLAPS

-----------------------------------------------------------------------------
(***************************************************************************)
(* The inductive invariant of the in-memory store: where a request is      *)
(* tells whether it ever held the lease and whether it was answered.       *)
(***************************************************************************)
Seeking == {"acquire", "notify", "relock", "enable", "wait"}
Holding == {"handler", "complete", "release", "settled"}
Places == Seeking \cup Holding \cup {"done", "gone"}

PcFits(r) ==
    /\ pc[r] \in Seeking => r \notin owners
    /\ pc[r] \in Holding => r \in owners
    /\ pc[r] # "done" => answer[r] = None

MemoryTypes ==
    /\ entry \in Entry \cup {None}
    /\ pc \in [Requests -> Places]
    /\ answer \in [Requests -> Answer \cup {None}]
    /\ owners \subseteq Requests
    /\ lapses \in Nat
    /\ actions \subseteq Requests

\* Only a lapse lets try_acquire or the cleanup task remove an entry.
NothingLapsed ==
    lapses = 0 => ~expired /\ \A r \in Requests : pc[r] \notin {"notify", "relock"}

\* Until a lapse, a request that runs holds the lease, and one that has had its
\* effect holds it or has stored its response: it cannot give the lease back.
EffectHeld ==
    lapses = 0 =>
        /\ \A r \in Requests : pc[r] = "handler" => HoldsLease(r)
        /\ \A r \in actions :
              \/ HoldsLease(r) /\ pc[r] \in {"handler", "complete", "gone"}
              \/ entry = Completed(r)

EntryOwned == entry # None => entry.owner \in owners /\ entry.hash = BodyHash[entry.owner]

MemoryInv ==
    /\ MemoryTypes
    /\ \A r \in Requests : PcFits(r)
    /\ EntryOwned
    /\ AnswersGenuine
    /\ NothingLapsed
    /\ EffectHeld

-----------------------------------------------------------------------------
\* What the entries and answers contain.
LEMMA Fields ==
    ASSUME NEW r \in Requests, NEW q \in Requests
    PROVE  /\ InFlight(r) \in Entry /\ Completed(r) \in Entry
           /\ ~IsCompleted(InFlight(r))
           /\ Completed(r).owner = r /\ Completed(r).hash = BodyHash[r]
           /\ InFlight(r).owner = r /\ InFlight(r).hash = BodyHash[r]
           /\ {Own(r), Replay(q), Conflict(r), Unavailable(r)} \subseteq Answer
           /\ None \notin {InFlight(r), Completed(r)}
           /\ None \notin {Own(r), Replay(q), Conflict(r), Unavailable(r)}
<1>1. InFlight(r) \in Entry /\ Completed(r) \in Entry
  BY HashAssumption DEF InFlight, Completed, Entry
<1>2. {Own(r), Replay(q), Conflict(r), Unavailable(r)} \subseteq Answer
  BY DEF Answer, Own, Replay, Conflict, Unavailable
<1>3. /\ ~IsCompleted(InFlight(r))
      /\ Completed(r).owner = r /\ Completed(r).hash = BodyHash[r]
      /\ InFlight(r).owner = r /\ InFlight(r).hash = BodyHash[r]
  BY DEF InFlight, Completed, IsCompleted
<1> QED
  BY <1>1, <1>2, <1>3, NoneAssumption

LEMMA MemoryInitInv == MemoryInit => MemoryInv
<1> SUFFICES ASSUME MemoryInit PROVE MemoryInv
  OBVIOUS
<1>1. MemoryTypes
  BY DEF MemoryInit, IdempotencyInit, MemoryTypes, Places, Seeking
<1>2. AnswersGenuine
  BY DEF MemoryInit, IdempotencyInit, AnswersGenuine, Contract!AnswersGenuine
<1> QED
  BY <1>1, <1>2 DEF MemoryInit, IdempotencyInit, MemoryInv, PcFits, Seeking, Holding, EntryOwned, NothingLapsed,
      EffectHeld

\* AnswersGenuine speaks of the answers and the owners, and owners only grow.
LEMMA NewAnswer ==
    ASSUME MemoryInv, NEW r \in Requests, NEW a \in Answer, owners' = owners,
           answer' = [answer EXCEPT ![r] = a],
           a.kind = "replay" => a.of \in owners \ {r} /\ BodyHash[a.of] = BodyHash[r],
           a.kind = "conflict" => \E q \in owners : BodyHash[q] # BodyHash[r]
    PROVE  AnswersGenuine'
BY DEF MemoryInv, MemoryTypes, AnswersGenuine, Contract!AnswersGenuine

LEMMA SameAnswers ==
    ASSUME MemoryInv, answer' = answer, owners \subseteq owners'
    PROVE  AnswersGenuine'
BY DEF MemoryInv, MemoryTypes, AnswersGenuine, Contract!AnswersGenuine

\* Where the requests are, and what an answer, an entry or an action is.
LEMMA FitsStep ==
    ASSUME MemoryInv, MemoryNext
    PROVE  pc' \in [Requests -> Places] /\ \A q \in Requests : PcFits(q)'
<1> USE DEF MemoryInv, MemoryTypes
<1>1. ASSUME NEW r \in Requests, \/ AcquireFree(r) \/ AcquireExpired(r) \/ AcquireExisting(r) \/ Relock(r)
                                \/ Enable(r) \/ Complete(r) \/ Release(r) \/ GiveUp(r) \/ WaitTimeout(r)
                                \/ HandlerReturns(r) \/ Cancel(r)
      PROVE  pc' \in [Requests -> Places] /\ \A q \in Requests : PcFits(q)'
  BY <1>1 DEF AcquireFree, AcquireExpired, AcquireExisting, AnswerFromRecord, Insert, TakeLease, Relock, BeginAttempt,
      Enable, Complete, Release, GiveUp, WaitTimeout, HandlerReturns, Cancel, Cancelled, Return, Goto, historyVars,
      PcFits, Places, Seeking, Holding
<1>2. ASSUME NEW r \in Requests, NotifyExpired(r) \/ NotifyOwn(r)
      PROVE  pc' \in [Requests -> Places] /\ \A q \in Requests : PcFits(q)'
  BY <1>2 DEF NotifyExpired, NotifyOwn, Woken, historyVars, PcFits, Places, Seeking, Holding
<1>3. ASSUME CleanupNotify
      PROVE  pc' \in [Requests -> Places] /\ \A q \in Requests : PcFits(q)'
  BY <1>3 DEF CleanupNotify, Woken, historyVars, PcFits, Places, Seeking, Holding
<1>4. ASSUME UNCHANGED <<pc, answer, owners>>
      PROVE  pc' \in [Requests -> Places] /\ \A q \in Requests : PcFits(q)'
  BY <1>4 DEF PcFits
<1> QED
  BY <1>1, <1>2, <1>3, <1>4 DEF MemoryNext, Progress, ReturnAction, RecordAction, Expire, Cleanup,
      requestVars, historyVars

LEMMA MemoryTypesStep ==
    ASSUME MemoryInv, MemoryNext
    PROVE  MemoryTypes'
<1> USE DEF MemoryInv, MemoryTypes
<1>1. entry' \in Entry \cup {None} /\ owners' \subseteq Requests
  BY Fields DEF MemoryNext, Progress, AcquireFree, AcquireExpired, AcquireExisting, Insert, TakeLease, Relock, Enable,
      Complete, Release, GiveUp, WaitTimeout, HandlerReturns, Cancel, NotifyExpired, NotifyOwn, CleanupNotify,
      ReturnAction, RecordAction, Expire, Cleanup, requestVars, historyVars
<1>2. answer' \in [Requests -> Answer \cup {None}]
  <2>1. IsCompleted(entry) => entry.owner \in Requests
    BY DEF IsCompleted, Entry
  <2> QED
    BY <2>1, Fields DEF MemoryNext, Progress, AcquireFree, AcquireExpired, AcquireExisting, AnswerFromRecord, Insert, TakeLease,
      Relock, Enable, Complete, Release, GiveUp, WaitTimeout, HandlerReturns, Cancel, NotifyExpired, NotifyOwn,
      CleanupNotify, ReturnAction, RecordAction, Expire, Cleanup, Return, requestVars, historyVars
<1>3. lapses' \in Nat
  BY DEF MemoryNext, Progress, AcquireFree, AcquireExpired, AcquireExisting, Insert, TakeLease, Relock, Enable,
      Complete, Release, GiveUp, WaitTimeout, HandlerReturns, Cancel, NotifyExpired, NotifyOwn, CleanupNotify,
      ReturnAction, RecordAction, Expire, LapseEntry, Cleanup, requestVars, historyVars
<1>4. actions' \subseteq Requests
  BY DEF MemoryNext, Progress, AcquireFree, AcquireExpired, AcquireExisting, Relock, Enable, Complete, Release,
      Cancel, NotifyExpired, NotifyOwn, CleanupNotify, ReturnAction, RecordAction, Expire, Cleanup
<1> QED
  BY <1>1, <1>2, <1>3, <1>4, FitsStep

LEMMA EntryStep ==
    ASSUME MemoryInv, MemoryNext
    PROVE  EntryOwned'
<1> USE DEF MemoryInv, MemoryTypes, EntryOwned
<1>1. ASSUME NEW r \in Requests, Complete(r) PROVE EntryOwned'
  BY <1>1, Fields DEF Complete, HoldsLease, historyVars
<1>2. ASSUME NEW r \in Requests, TakeLease(r) PROVE EntryOwned'
  BY <1>2, Fields DEF TakeLease
<1>3. ASSUME entry' \in {entry, None}, owners' = owners PROVE EntryOwned'
  BY <1>3
<1> QED
  BY <1>1, <1>2, <1>3 DEF MemoryNext, Progress, AcquireFree, AcquireExpired, AcquireExisting, Insert, Relock, Enable,
      Release, GiveUp, WaitTimeout, HandlerReturns, Cancel, NotifyExpired, NotifyOwn, CleanupNotify,
      ReturnAction, RecordAction, Expire, Cleanup, requestVars, historyVars

LEMMA GenuineStep ==
    ASSUME MemoryInv, MemoryNext
    PROVE  AnswersGenuine'
<1> USE DEF MemoryInv, MemoryTypes
<1>1. ASSUME NEW r \in Requests, NEW a \in {Own(r), Unavailable(r)}, answer' = [answer EXCEPT ![r] = a],
             owners' = owners
      PROVE  AnswersGenuine'
  BY <1>1, Fields, NewAnswer DEF Own, Unavailable
<1>2. ASSUME NEW r \in Requests, AcquireExisting(r), answer' # answer PROVE AnswersGenuine'
  <2>1. r \notin owners /\ entry # None /\ owners' = owners
    BY <1>2 DEF AcquireExisting, BeginAttempt, PcFits, Seeking, historyVars
  <2>2. entry.owner \in owners /\ entry.hash = BodyHash[entry.owner] /\ entry.owner \in Requests
    BY <2>1 DEF EntryOwned
  <2>3. \/ answer' = [answer EXCEPT ![r] = Replay(entry.owner)] /\ entry.hash = BodyHash[r]
        \/ answer' = [answer EXCEPT ![r] = Conflict(r)] /\ entry.hash # BodyHash[r]
    BY <1>2 DEF AcquireExisting, AnswerFromRecord, Return
  <2>4. CASE answer' = [answer EXCEPT ![r] = Replay(entry.owner)] /\ entry.hash = BodyHash[r]
    <3>1. Replay(entry.owner) \in Answer /\ Replay(entry.owner).kind = "replay" /\ Replay(entry.owner).of = entry.owner
      BY <2>2, Fields DEF Replay
    <3> QED
      BY <2>1, <2>2, <2>4, <3>1, NewAnswer
  <2>5. CASE answer' = [answer EXCEPT ![r] = Conflict(r)] /\ entry.hash # BodyHash[r]
    <3>1. Conflict(r) \in Answer /\ Conflict(r).kind = "conflict"
      BY <2>2, Fields DEF Conflict
    <3> QED
      BY <2>1, <2>2, <2>5, <3>1, NewAnswer
  <2> QED
    BY <2>3, <2>4, <2>5
<1> QED
  BY <1>1, <1>2, SameAnswers DEF MemoryNext, Progress, AcquireFree, AcquireExpired, AcquireExisting, Insert, TakeLease, Relock, Enable,
      Complete, Release, GiveUp, WaitTimeout, HandlerReturns, Cancel, NotifyExpired, NotifyOwn, CleanupNotify,
      ReturnAction, RecordAction, Expire, LapseEntry, Cleanup, Return, requestVars, historyVars

LEMMA LapsedStep ==
    ASSUME MemoryInv, MemoryNext
    PROVE  NothingLapsed'
<1> SUFFICES ASSUME lapses' = 0
             PROVE  ~expired' /\ \A r \in Requests : pc'[r] \notin {"notify", "relock"}
  BY DEF NothingLapsed
<1> USE DEF MemoryInv, MemoryTypes
<1>1. lapses = 0
  BY DEF MemoryNext, Progress, AcquireFree, AcquireExpired, AcquireExisting, Insert, TakeLease, Relock, Enable,
      Complete, Release, GiveUp, WaitTimeout, HandlerReturns, Cancel, NotifyExpired, NotifyOwn, CleanupNotify,
      ReturnAction, RecordAction, Expire, LapseEntry, Cleanup, requestVars, historyVars
<1>2. ~expired /\ \A r \in Requests : pc[r] \notin {"notify", "relock"}
  BY <1>1 DEF NothingLapsed
<1>3. ~Expire
  BY <1>1 DEF Expire, LapseEntry
<1>4. ~expired'
  BY <1>2, <1>3 DEF MemoryNext, Progress, AcquireFree, AcquireExpired, AcquireExisting, Insert, Relock, Enable,
      Complete, Release, GiveUp, WaitTimeout, HandlerReturns, Cancel, NotifyExpired, NotifyOwn, CleanupNotify,
      ReturnAction, RecordAction, Cleanup
<1>5. ASSUME NEW r \in Requests PROVE pc'[r] \notin {"notify", "relock"}
  BY <1>2, <1>3 DEF MemoryNext, Progress, AcquireFree, AcquireExpired, AcquireExisting, AnswerFromRecord, Insert,
      TakeLease, Relock, Enable, Complete, Release, GiveUp, WaitTimeout, HandlerReturns, Cancel, Cancelled,
      NotifyExpired, NotifyOwn, CleanupNotify, Woken, ReturnAction, RecordAction, Cleanup, Return, Goto,
      requestVars
<1> QED
  BY <1>4, <1>5

\* Until a lapse, the entry of a request that has had its effect is only ever
\* replaced by its response.
LEMMA EffectStep ==
    ASSUME MemoryInv, MemoryNext
    PROVE  EffectHeld'
<1> SUFFICES ASSUME lapses' = 0
             PROVE  /\ \A q \in Requests : pc'[q] = "handler" => entry' = InFlight(q)
                    /\ \A q \in actions' :
                          \/ entry' = InFlight(q) /\ pc'[q] \in {"handler", "complete", "gone"}
                          \/ entry' = Completed(q)
  BY DEF EffectHeld, HoldsLease
<1> DEFINE Goal == /\ \A q \in Requests : pc'[q] = "handler" => entry' = InFlight(q)
                   /\ \A q \in actions' :
                         \/ entry' = InFlight(q) /\ pc'[q] \in {"handler", "complete", "gone"}
                         \/ entry' = Completed(q)
<1> USE DEF MemoryInv, MemoryTypes
<1>0. /\ lapses = 0 /\ ~expired
      /\ \A q \in Requests : pc[q] \notin {"notify", "relock"}
      /\ \A q \in Requests : pc[q] = "handler" => entry = InFlight(q)
      /\ \A q \in actions : \/ entry = InFlight(q) /\ pc[q] \in {"handler", "complete", "gone"}
                           \/ entry = Completed(q)
  <2>1. lapses = 0
    BY DEF MemoryNext, Progress, AcquireFree, AcquireExpired, AcquireExisting, Insert, TakeLease, Relock, Enable,
        Complete, Release, GiveUp, WaitTimeout, HandlerReturns, Cancel, NotifyExpired, NotifyOwn, CleanupNotify,
        ReturnAction, RecordAction, Expire, LapseEntry, Cleanup, requestVars, historyVars
  <2> QED
    BY <2>1 DEF NothingLapsed, EffectHeld, HoldsLease
<1>1. \A p, q \in Requests : InFlight(p) # Completed(q) /\ (InFlight(p) = InFlight(q) => p = q)
  BY DEF InFlight, Completed
<1>2. ASSUME NEW r \in Requests, AcquireFree(r) PROVE Goal
  <2>1. entry = None /\ pc[r] = "acquire" /\ entry' = InFlight(r) /\ pc' = [pc EXCEPT ![r] = "handler"] /\ actions' = actions
    BY <1>0, <1>2 DEF AcquireFree, BeginAttempt, Insert, TakeLease, Goto
  <2>2. actions = {} /\ \A q \in Requests : pc[q] # "handler"
    BY <1>0, <2>1, Fields
  <2> QED
    BY <2>1, <2>2
\* The steps that leave the entry and the effects as they are.
<1>3. ASSUME entry' = entry, actions' = actions, NEW r \in Requests,
             \A q \in Requests : pc'[q] = "handler" => pc[q] = "handler",
             \A q \in Requests \ {r} : pc[q] \in {"handler", "complete", "gone"} => pc'[q] = pc[q],
             \/ pc[r] \notin {"handler", "complete", "gone"}
             \/ pc'[r] \in {"handler", "complete", "gone"}
             \/ r \notin actions
      PROVE  Goal
  BY <1>0, <1>3
<1>4. ASSUME NEW r \in Requests, \/ AcquireExisting(r) \/ Enable(r) \/ GiveUp(r) \/ WaitTimeout(r), actions' = actions
      PROVE  Goal
  <2>1. entry' = entry /\ pc[r] \in {"acquire", "enable", "wait"} /\ \E l \in {"done", "enable", "wait"} : Goto(r, l)
    BY <1>4 DEF AcquireExisting, AnswerFromRecord, BeginAttempt, Enable, GiveUp, WaitTimeout, Return
  <2> QED
    BY <1>3, <1>4, <2>1 DEF Goto
<1>5. ASSUME NEW r \in Requests, Cancel(r) PROVE Goal
  <2>1. entry' = entry /\ actions' = actions /\ Goto(r, "gone")
    BY <1>5 DEF Cancel, Cancelled
  <2> QED
    BY <1>3, <2>1 DEF Goto
<1>6. ASSUME NEW r \in Requests, ReturnAction(r) PROVE Goal
  <2>1. entry' = entry /\ actions' = actions /\ pc[r] = "handler" /\ (pc'[r] = "complete" \/ r \notin actions)
    BY <1>6 DEF ReturnAction, HandlerReturns, Goto
  <2>2. \E l \in {"complete", "release"} : Goto(r, l)
    BY <1>6 DEF ReturnAction, HandlerReturns
  <2> QED
    BY <1>3, <2>1, <2>2 DEF Goto
<1>7. ASSUME NEW r \in Requests, RecordAction(r) PROVE Goal
  <2>1. entry' = entry /\ pc' = pc /\ pc[r] = "handler" /\ actions' = actions \cup {r}
    BY <1>7 DEF RecordAction, requestVars
  <2> QED
    BY <1>0, <2>1
<1>8. ASSUME NEW r \in Requests, Complete(r) PROVE Goal
  <2>1. pc[r] = "complete" /\ actions' = actions
    BY <1>8 DEF Complete
  <2>2. CASE entry = InFlight(r) /\ entry' = Completed(r) /\ Goto(r, "settled")
    <3>1. actions \subseteq {r} /\ \A q \in Requests : pc[q] # "handler"
      BY <1>0, <1>1, <2>1, <2>2
    <3> QED
      BY <2>1, <2>2, <3>1 DEF Goto
  <2>3. CASE entry # InFlight(r) /\ entry' = entry /\ Goto(r, "release")
    <3>1. r \notin actions \/ entry = Completed(r)
      BY <1>0, <2>3
    <3> QED
      BY <1>0, <2>1, <2>3, <3>1 DEF Goto
  <2> QED
    BY <1>8, <2>2, <2>3 DEF Complete, HoldsLease
<1>9. ASSUME NEW r \in Requests, Release(r) PROVE Goal
  <2>1. pc[r] = "release" /\ actions' = actions
    BY <1>9 DEF Release
  <2>2. CASE entry = InFlight(r) /\ entry' = None /\ Goto(r, "settled")
    <3>1. actions = {} /\ \A q \in Requests : pc[q] # "handler"
      BY <1>0, <1>1, <2>1, <2>2
    <3> QED
      BY <2>1, <2>2, <3>1 DEF Goto
  <2>3. CASE entry' = entry /\ Goto(r, "done")
    BY <1>3, <2>1, <2>3 DEF Goto
  <2> QED
    BY <1>9, <2>2, <2>3 DEF Release, HoldsLease, Return
<1>10. ASSUME NEW r \in Requests, NotifyOwn(r) PROVE Goal
  <2>1. entry' = entry /\ actions' = actions /\ pc[r] = "settled" /\ pc'[r] = "done"
    BY <1>10 DEF NotifyOwn, Woken
  <2>2. \A q \in Requests \ {r} : pc'[q] = pc[q] \/ (pc[q] = "wait" /\ pc'[q] = "acquire")
    BY <1>10 DEF NotifyOwn, Woken
  <2> QED
    BY <1>0, <2>1, <2>2
<1>11. ASSUME CleanupNotify PROVE Goal
  <2>1. entry' = entry /\ actions' = actions
    BY <1>11 DEF CleanupNotify
  <2>2. \A q \in Requests : pc'[q] = pc[q] \/ (pc[q] = "wait" /\ pc'[q] = "acquire")
    BY <1>11 DEF CleanupNotify, Woken
  <2> QED
    BY <1>0, <2>1, <2>2
<1>12. ~Expire /\ ~Cleanup /\ \A r \in Requests : ~AcquireExpired(r) /\ ~NotifyExpired(r) /\ ~Relock(r)
  BY <1>0 DEF Expire, LapseEntry, Cleanup, AcquireExpired, NotifyExpired, Relock
<1> QED
  BY <1>2, <1>4, <1>5, <1>6, <1>7, <1>8, <1>9, <1>10, <1>11, <1>12
     DEF MemoryNext, Progress, AcquireExisting, Enable

LEMMA MemoryInvStep == MemoryInv /\ [MemoryNext]_memoryVars => MemoryInv'
<1> SUFFICES ASSUME MemoryInv, [MemoryNext]_memoryVars PROVE MemoryInv'
  OBVIOUS
<1>1. CASE MemoryNext
  BY <1>1, MemoryTypesStep, FitsStep, EntryStep, GenuineStep, LapsedStep, EffectStep DEF MemoryInv
<1>2. CASE UNCHANGED memoryVars
  BY <1>2 DEF memoryVars, requestVars, historyVars, MemoryInv, MemoryTypes, PcFits, EntryOwned, AnswersGenuine,
      Contract!AnswersGenuine, NothingLapsed, EffectHeld, HoldsLease
<1> QED
  BY <1>1, <1>2

-----------------------------------------------------------------------------
(***************************************************************************)
(* The contract, until a time to live passes.                              *)
(***************************************************************************)
LEMMA ExecutingMoves ==
    ASSUME NEW r \in Requests, NEW l, DOMAIN pc = Requests, Goto(r, l)
    PROVE  Executing' = IF l = "handler" THEN Executing \cup {r} ELSE Executing \ {r}
BY DEF Goto, Executing

LEMMA WokenRunNothing ==
    ASSUME NEW q, NEW r \in Requests, NEW l, l # "handler", pc[r] # "handler",
           pc' \in {Woken(q), [Woken(q) EXCEPT ![r] = l]}
    PROVE  Executing' = Executing
BY DEF Woken, Executing

LEMMA TurnedAway ==
    ASSUME MemoryInv, NEW r \in Requests, pc[r] \in Seeking, UNCHANGED <<entry, owners, lapsed>>,
           NEW a, Return(r, a),
           \/ a = Unavailable(r)
           \/ a = Conflict(r) /\ \E q \in owners : BodyHash[q] # BodyHash[r]
           \/ IsCompleted(entry) /\ entry.hash = BodyHash[r] /\ a = Replay(entry.owner)
    PROVE  Contract!Turn(r)
<1>1. Executing' = Executing
  BY ExecutingMoves DEF MemoryInv, MemoryTypes, Return, Executing, Seeking
<1>2. r \notin owners /\ answer[r] = None
  BY DEF MemoryInv, PcFits, Seeking
<1> QED
  BY <1>1, <1>2 DEF Return, Contract!Turn, Contract!Unavailable, Contract!Conflict, Contract!Replay,
      Contract!IsCompleted, Unavailable, Conflict, Replay, IsCompleted

LEMMA Settled ==
    ASSUME MemoryInv, NEW r \in Requests, pc[r] \in {"complete", "release", "settled"},
           UNCHANGED <<owners, lapsed>>, Executing' = Executing,
           answer' \in {answer, [answer EXCEPT ![r] = Own(r)]},
           entry' = entry \/ (HoldsLease(r) /\ entry' \in {Completed(r), None})
    PROVE  Contract!Settle(r)
<1>1. r \notin Executing
  BY DEF Executing
<1>2. r \in owners /\ answer[r] = None
  BY DEF MemoryInv, PcFits, Holding
<1> QED
  BY <1>1, <1>2 DEF Contract!Settle, Contract!InFlight, Contract!Completed, Contract!Own, HoldsLease, InFlight,
      Completed, Own

LEMMA MemoryProgressMaps ==
    ASSUME MemoryInv, lapses = 0, NEW r \in Requests, Progress(r) \/ Cancel(r)
    PROVE  [Contract!ContractNext]_Contract!contractVars
<1> DEFINE Step == [Contract!ContractNext]_Contract!contractVars
<1> USE DEF Contract!ContractNext
<1>0. ~expired /\ pc[r] \notin {"notify", "relock"} /\ DOMAIN pc = Requests
  BY DEF MemoryInv, MemoryTypes, NothingLapsed
<1>s. ASSUME NEW l, Goto(r, l), l # "handler", pc[r] # "handler", UNCHANGED <<entry, answer, owners, lapsed>>
      PROVE  Step
  <2>1. Executing' = Executing
    BY <1>0, <1>s, ExecutingMoves DEF Executing
  <2> QED
    BY <1>s, <2>1 DEF Contract!contractVars
<1>1. CASE AcquireFree(r)
  <2>1. entry = None /\ pc[r] = "acquire" /\ TakeLease(r)
    BY <1>0, <1>1 DEF AcquireFree, BeginAttempt, Insert
  <2>2. Executing' = Executing \cup {r} /\ r \notin owners
    BY <1>0, <2>1, ExecutingMoves DEF TakeLease, MemoryInv, PcFits, Seeking
  <2>3. Contract!Acquire(r)
    BY <2>1, <2>2 DEF TakeLease, Contract!Acquire, Contract!Take, Contract!InFlight, InFlight
  <2> QED
    BY <2>3
<1>2. CASE AcquireExisting(r)
  <2>0. pc[r] = "acquire" /\ pc[r] \in Seeking /\ entry # None /\ UNCHANGED <<entry, owners, lapsed>>
    BY <1>2 DEF AcquireExisting, BeginAttempt, Seeking, historyVars
  <2>1. entry.owner \in owners /\ entry.hash = BodyHash[entry.owner]
    BY <2>0 DEF MemoryInv, EntryOwned
  <2>2. CASE AnswerFromRecord(r)
    <3>1. CASE entry.hash = BodyHash[r]
      BY <2>0, <2>2, <3>1, TurnedAway DEF AnswerFromRecord
    <3>2. CASE entry.hash # BodyHash[r]
      BY <2>0, <2>1, <2>2, <3>2, TurnedAway DEF AnswerFromRecord
    <3> QED
      BY <3>1, <3>2
  <2>3. CASE entry.hash # BodyHash[r] /\ Return(r, Conflict(r))
    BY <2>0, <2>1, <2>3, TurnedAway
  <2>4. CASE Goto(r, "enable") /\ UNCHANGED answer
    BY <1>s, <2>0, <2>4
  <2> QED
    BY <1>2, <2>2, <2>3, <2>4 DEF AcquireExisting
<1>3. CASE Enable(r)
  BY <1>s, <1>3 DEF Enable, historyVars
<1>4. CASE Complete(r)
  <2>1. CASE HoldsLease(r) /\ entry' = Completed(r) /\ Goto(r, "settled")
    <3>1. Executing' = Executing
      BY <1>0, <1>4, <2>1, ExecutingMoves DEF Complete, Executing
    <3>2. Contract!Settle(r)
      BY <1>4, <2>1, <3>1, Settled DEF Complete, historyVars
    <3> QED
      BY <3>2
  <2>2. CASE Goto(r, "release") /\ UNCHANGED <<entry, expired>>
    BY <1>s, <1>4, <2>2 DEF Complete, historyVars
  <2> QED
    BY <1>4, <2>1, <2>2 DEF Complete
<1>5. CASE Release(r)
  <2>1. Executing' = Executing
    BY <1>0, <1>5, ExecutingMoves DEF Release, Return, Executing
  <2>2. Contract!Settle(r)
    BY <1>5, <2>1, Settled DEF Release, Return, historyVars
  <2> QED
    BY <2>2
<1>6. CASE NotifyOwn(r)
  <2>1. Executing' = Executing
    BY <1>6, WokenRunNothing DEF NotifyOwn
  <2>2. Contract!Settle(r)
    BY <1>6, <2>1, Settled DEF NotifyOwn, historyVars
  <2> QED
    BY <2>2
<1>7. CASE RecordAction(r)
  BY <1>7 DEF RecordAction, requestVars, historyVars, Contract!contractVars, Executing
<1>8. CASE HandlerReturns(r)
  <2>1. r \in Executing /\ Executing' = Executing \ {r}
    BY <1>0, <1>8, ExecutingMoves DEF HandlerReturns, Executing
  <2>2. Contract!Stop(r)
    BY <1>8, <2>1 DEF HandlerReturns, historyVars, Contract!Stop
  <2> QED
    BY <2>2
<1>9. CASE GiveUp(r) \/ WaitTimeout(r)
  BY <1>9, TurnedAway DEF GiveUp, WaitTimeout, Seeking, historyVars
<1>10. CASE Cancel(r)
  <2>0. Goto(r, "gone") /\ UNCHANGED <<entry, answer, owners, lapsed>>
    BY <1>10 DEF Cancel, Cancelled, historyVars
  <2>1. CASE pc[r] = "handler"
    <3>1. r \in Executing /\ Executing' = Executing \ {r}
      BY <1>0, <2>0, <2>1, ExecutingMoves DEF Executing
    <3>2. Contract!Stop(r)
      BY <2>0, <3>1 DEF Contract!Stop
    <3> QED
      BY <3>2
  <2>2. CASE pc[r] # "handler"
    BY <1>s, <2>0, <2>2
  <2> QED
    BY <2>1, <2>2
<1>11. ~AcquireExpired(r) /\ ~NotifyExpired(r) /\ ~Relock(r)
  BY <1>0 DEF AcquireExpired, NotifyExpired, Relock
<1> QED
  BY <1>1, <1>2, <1>3, <1>4, <1>5, <1>6, <1>7, <1>8, <1>9, <1>10, <1>11 DEF Progress, ReturnAction

LEMMA MemoryStepMaps ==
    MemoryInv /\ [MemoryNext]_memoryVars => [lapses' = 0 => Contract!ContractNext]_(Contract!contractVars)
<1> SUFFICES ASSUME MemoryInv, [MemoryNext]_memoryVars, lapses' = 0
             PROVE  [Contract!ContractNext]_Contract!contractVars
  OBVIOUS
<1>1. ASSUME UNCHANGED <<entry, pc, answer, owners, lapsed>> PROVE UNCHANGED Contract!contractVars
  BY <1>1 DEF Contract!contractVars, Executing
<1>2. CASE UNCHANGED memoryVars
  BY <1>1, <1>2 DEF memoryVars, requestVars, historyVars
<1>4. ASSUME Expire PROVE FALSE
  BY <1>4 DEF Expire, LapseEntry, MemoryInv, MemoryTypes
<1>5. ASSUME Cleanup PROVE FALSE
  BY <1>5 DEF Cleanup, historyVars, MemoryInv, NothingLapsed
<1>6. CASE CleanupNotify
  <2>1. Executing' = Executing
    BY <1>6 DEF CleanupNotify, Woken, Executing
  <2> QED
    BY <1>6, <2>1 DEF CleanupNotify, historyVars, Contract!contractVars
<1>7. ASSUME NEW r \in Requests, Progress(r) \/ Cancel(r) PROVE [Contract!ContractNext]_Contract!contractVars
  <2>1. lapses' = lapses
    BY <1>7 DEF Progress, AcquireFree, AcquireExpired, AcquireExisting, Insert, TakeLease, Relock, Enable,
        Complete, Release, GiveUp, WaitTimeout, HandlerReturns, Cancel, NotifyExpired, NotifyOwn, ReturnAction,
        RecordAction, historyVars
  <2> QED
    BY <1>7, <2>1, MemoryProgressMaps
<1> QED
  BY <1>2, <1>4, <1>5, <1>6, <1>7 DEF MemoryNext

\* AnswersGenuine of the in-memory store, lapsed leases included: although a
\* lapse may let two requests run, nobody is given the response of another
\* body or a 409 without one.
THEOREM MemoryAnswersGenuine == MemorySpec => []AnswersGenuine
<1>1. MemoryInv => AnswersGenuine
  BY DEF MemoryInv
<1> QED
  BY <1>1, MemoryInitInv, MemoryInvStep, PTL DEF MemorySpec

\* EffectOnceUntilLapse: whoever has had an effect is the owner of the entry,
\* so there is one of them; neither a cancelled request nor a release takes
\* the entry away from it.
THEOREM EffectOnce == MemorySpec => []EffectOnceUntilLapse
<1>1. ASSUME MemoryInv PROVE EffectOnceUntilLapse
  <2>1. \A r \in actions : lapses = 0 => entry.owner = r
    BY <1>1, Fields DEF MemoryInv, MemoryTypes, EffectHeld, HoldsLease
  <2> QED
    BY <2>1 DEF EffectOnceUntilLapse
<1> QED
  BY <1>1, MemoryInitInv, MemoryInvStep, PTL DEF MemorySpec

\* ContractUntilLapse: until a time to live passes the in-memory store takes
\* only steps of the contract, whatever interleaves between its unlocks.
THEOREM MemoryImplementsContract == MemorySpec => ContractUntilLapse
<1>1. MemoryInit => Contract!ContractInit
  BY DEF MemoryInit, IdempotencyInit, Contract!ContractInit, Executing
<1> QED
  BY <1>1, MemoryInitInv, MemoryInvStep, MemoryStepMaps, PTL DEF MemorySpec, ContractUntilLapse

-----------------------------------------------------------------------------
(***************************************************************************)
(* The quota.                                                              *)
(***************************************************************************)
QuotaInv ==
    /\ DOMAIN charges = Tenants
    /\ LayersChargedTogether

\* Charging a set of layers that holds both of two layers, or neither, keeps
\* them equal.
LEMMA ChargeTogether ==
    ASSUME QuotaInv, NEW t \in Tenants, NEW L, NEW now, Charge(t, L, now),
           \A l, m \in Layer : {<<t, l>>, <<t, m>>} \cap Singles = {} => (l \in L <=> m \in L)
    PROVE  QuotaInv'
<1> DEFINE New == [l \in Layer |-> charges[t][l] + IF l \in L THEN 1 ELSE 0]
<1>1. charges' = [charges EXCEPT ![t] = New]
  BY DEF Charge
<1>2. DOMAIN charges' = Tenants /\ \A u \in Tenants : charges'[u] = IF u = t THEN New ELSE charges[u]
  BY <1>1 DEF QuotaInv
<1>3. ASSUME NEW l \in Layer, NEW m \in Layer, {<<t, l>>, <<t, m>>} \cap Singles = {}
      PROVE  New[l] = New[m]
  BY <1>3 DEF QuotaInv, LayersChargedTogether
<1> HIDE DEF New
<1> QED
  BY <1>2, <1>3 DEF QuotaInv, LayersChargedTogether

LEMMA QuotaInvStep == QuotaInv /\ [QuotaNext]_quotaVars => QuotaInv'
<1> SUFFICES ASSUME QuotaInv, [QuotaNext]_quotaVars PROVE QuotaInv'
  OBVIOUS
<1>0. ASSUME UNCHANGED charges PROVE QuotaInv'
  BY <1>0 DEF QuotaInv, LayersChargedTogether
<1>1. ASSUME NEW t \in Tenants, NEW now, Charge(t, Layer, now) PROVE QuotaInv'
  BY <1>1, ChargeTogether
<1>2. ASSUME NEW s \in Singles, NEW now, AdmitOne(s[1], s[2], now) PROVE QuotaInv'
  <2>1. s[1] \in Tenants /\ s = <<s[1], s[2]>> /\ Charge(s[1], {s[2]}, now)
    BY <1>2, SinglesAssumption DEF AdmitOne
  <2>2. \A l, m \in Layer : {<<s[1], l>>, <<s[1], m>>} \cap Singles = {} => (l \in {s[2]} <=> m \in {s[2]})
    BY <2>1
  <2> QED
    BY <2>1, <2>2, ChargeTogether
<1>3. ASSUME NEW t \in Tenants, NEW now, Admit(t, now) \/ Reject(t, now) \/ LostReply(t, now) PROVE QuotaInv'
  BY <1>0, <1>1, <1>3 DEF Admit, Reject, LostReply, Refuse
<1>4. ASSUME NEW s \in Singles, NEW now, RejectOne(s[1], s[2], now) PROVE QuotaInv'
  BY <1>0, <1>4 DEF RejectOne, Refuse
<1>5. CASE QuotaTick \/ UNCHANGED quotaVars
  BY <1>0, <1>5 DEF QuotaTick, quotaVars
<1> QED
  BY <1>2, <1>3, <1>4, <1>5 DEF QuotaNext

\* LayersChargedTogether, for all tenants, limits, clocks and lost replies: a
\* request is charged for every layer or for none, at every instant.
THEOREM ChargedAllOrNone == QuotaSpec => []LayersChargedTogether
<1>1. QuotaInit => QuotaInv
  BY DEF QuotaInit, QuotaInv, LayersChargedTogether
<1>2. QuotaInv => LayersChargedTogether
  BY DEF QuotaInv
<1> QED
  BY <1>1, <1>2, QuotaInvStep, PTL DEF QuotaSpec

-----------------------------------------------------------------------------
(***************************************************************************)
(* One bucket: what it holds at a time, and how that grows.                *)
(***************************************************************************)
Bucket == [tokens : Nat \cup {Unset}, last_refill : Int, until : Int \cup {Unset}, expires : Int]

Level(q, b, n) ==
    IF b.tokens = Unset THEN q.capacity
    ELSE Min({q.capacity, b.tokens + Max({0, n - b.last_refill}) * q.rate})

LEMMA SmallerOfTwo ==
    ASSUME NEW a \in Int, NEW b \in Int
    PROVE  Min({a, b}) = IF a <= b THEN a ELSE b
<1>1. \E x \in {a, b} : \A y \in {a, b} : x =< y
  BY SMT
<1>2. Min({a, b}) \in {a, b} /\ \A y \in {a, b} : Min({a, b}) =< y
  BY <1>1 DEF Min
<1> QED
  BY <1>2

LEMMA LargerOfTwo ==
    ASSUME NEW a \in Int, NEW b \in Int
    PROVE  Max({a, b}) = IF a >= b THEN a ELSE b
<1>1. \E x \in {a, b} : \A y \in {a, b} : x >= y
  BY SMT
<1>2. Max({a, b}) \in {a, b} /\ \A y \in {a, b} : Max({a, b}) >= y
  BY <1>1 DEF Max
<1> QED
  BY <1>2

LEMMA ProductIsNat ==
    ASSUME NEW a \in Nat, NEW b \in Nat
    PROVE  a * b \in Nat
OBVIOUS

\* The larger of two factors gives the larger product.
LEMMA ProductGrows ==
    ASSUME NEW a \in Int, NEW b \in Int, a <= b, NEW r \in Nat
    PROVE  a * r <= b * r /\ a * r \in Int /\ b * r \in Int
<1>1. b - a \in Nat
  OBVIOUS
<1>2. (b - a) * r \in Nat
  BY <1>1, ProductIsNat
<1>3. (b - a) * r = b * r - a * r
  OBVIOUS
<1> QED
  BY <1>2, <1>3

\* Rounded up, a quotient covers its dividend.
LEMMA CeilCovers ==
    ASSUME NEW a \in Int, NEW b \in Nat \ {0}
    PROVE  CeilDiv(a, b) \in Int /\ CeilDiv(a, b) * b >= a
<1> DEFINE x == a + b - 1
<1>1. x \in Int /\ b \in Int /\ b > 0
  OBVIOUS
<1> HIDE DEF x
<1>2. x \div b \in Int /\ x % b \in 0..(b - 1) /\ x = b * (x \div b) + (x % b)
  BY <1>1
<1>3. (x \div b) * b = b * (x \div b)
  BY <1>2
<1>4. (x \div b) * b >= x - (b - 1)
  BY <1>1, <1>2, <1>3
<1> QED
  BY <1>2, <1>4 DEF CeilDiv, x

\* What a bucket holds, once its refill is not in the future.
LEMMA LevelIs ==
    ASSUME NEW q \in Limits, NEW b \in Bucket, NEW n \in Int, b.tokens # Unset => b.last_refill <= n
    PROVE  /\ Level(q, b, n) \in 0..q.capacity
           /\ b.tokens = Unset => Level(q, b, n) = q.capacity
           /\ b.tokens # Unset =>
                LET x == b.tokens + (n - b.last_refill) * q.rate
                IN  x \in Nat /\ Level(q, b, n) = IF q.capacity <= x THEN q.capacity ELSE x
<1>1. q.capacity \in Nat /\ q.rate \in Nat
  BY DEF Limits
<1>2. CASE b.tokens = Unset
  BY <1>1, <1>2 DEF Level
<1>3. CASE b.tokens # Unset
  <2>1. b.tokens \in Nat /\ b.last_refill \in Int /\ b.last_refill <= n /\ n - b.last_refill \in Nat
    BY <1>3 DEF Bucket
  <2>2. Max({0, n - b.last_refill}) = n - b.last_refill
    BY <2>1, LargerOfTwo
  <2> DEFINE y == (n - b.last_refill) * q.rate
  <2>3. y \in Nat
    BY <1>1, <2>1, ProductIsNat
  <2> HIDE DEF y
  <2>4. b.tokens + y \in Nat
    BY <2>1, <2>3
  <2>5. Min({q.capacity, b.tokens + y}) = IF q.capacity <= b.tokens + y THEN q.capacity ELSE b.tokens + y
    BY <1>1, <2>4, SmallerOfTwo
  <2>6. Level(q, b, n) = Min({q.capacity, b.tokens + y})
    BY <1>3, <2>2 DEF Level, y
  <2>7. Level(q, b, n) = IF q.capacity <= b.tokens + y THEN q.capacity ELSE b.tokens + y
    BY <2>5, <2>6
  <2>8. Level(q, b, n) \in 0..q.capacity
    BY <1>1, <2>4, <2>7
  <2> QED
    BY <1>3, <2>4, <2>7, <2>8 DEF y
<1> QED
  BY <1>2, <1>3

\* Between n and m the bucket gains the refill of m - n ticks, or becomes full.
LEMMA LevelGrows ==
    ASSUME NEW q \in Limits, NEW b \in Bucket, NEW n \in Int, NEW m \in Int, n <= m,
           b.tokens # Unset => b.last_refill <= n
    PROVE  /\ Level(q, b, m) <= Level(q, b, n) + (m - n) * q.rate
           /\ Level(q, b, m) = q.capacity \/ Level(q, b, m) = Level(q, b, n) + (m - n) * q.rate
<1>1. q.capacity \in Nat /\ q.rate \in Nat /\ m - n \in Nat /\ (m - n) * q.rate \in Nat
  BY ProductIsNat DEF Limits
<1>2. CASE b.tokens = Unset
  BY <1>1, <1>2, LevelIs
<1>3. CASE b.tokens # Unset
  <2>1. b.tokens \in Nat /\ b.last_refill \in Int /\ b.last_refill <= n /\ b.last_refill <= m
    BY <1>3 DEF Bucket
  <2> DEFINE x == b.tokens + (n - b.last_refill) * q.rate
             y == b.tokens + (m - b.last_refill) * q.rate
             g == (m - n) * q.rate
  <2>2. y = x + g
    BY <1>1, <2>1
  <2>3. x \in Nat /\ Level(q, b, n) = IF q.capacity <= x THEN q.capacity ELSE x
    BY <1>3, <2>1, LevelIs
  <2>4. y \in Nat /\ Level(q, b, m) = IF q.capacity <= y THEN q.capacity ELSE y
    BY <1>3, <2>1, LevelIs
  <2>5. g \in Nat
    BY <1>1
  <2> HIDE DEF x, y, g
  <2>6. /\ Level(q, b, m) <= Level(q, b, n) + g
        /\ Level(q, b, m) = q.capacity \/ Level(q, b, m) = Level(q, b, n) + g
    BY <1>1, <2>2, <2>3, <2>4, <2>5
  <2> QED
    BY <2>6 DEF g
<1> QED
  BY <1>2, <1>3

(***************************************************************************)
(* The invariant of one bucket b with limits q at time c, when f[n] tokens *)
(* were taken by the end of tick n: what was taken over an interval and    *)
(* what is left together are within the limit, and a key does not expire   *)
(* before its bucket is full again.                                        *)
(***************************************************************************)
Since(f, c, from) == f[c] - IF from = 0 THEN 0 ELSE f[from - 1]

Accounts(q, b, f, c) ==
    /\ b.tokens # Unset =>
          /\ b.last_refill <= c
          /\ b.tokens + (b.expires - b.last_refill) * q.rate >= q.capacity
    /\ \A n \in c..MaxTime : f[n] = f[c]
    /\ \A from \in 0..c : Since(f, c, from) + Level(q, b, c) <= q.capacity + (c - from) * q.rate

LEMMA SinceType ==
    ASSUME NEW f \in [0..MaxTime -> Int], NEW c \in 0..MaxTime, NEW from \in 0..c
    PROVE  Since(f, c, from) \in Int
<1>1. MaxTime \in Nat
  BY ClockAssumption
<1>2. from # 0 => from - 1 \in 0..MaxTime
  BY <1>1
<1> QED
  BY <1>1, <1>2 DEF Since

LEMMA AccountsCharge ==
    ASSUME NEW q \in Limits, NEW b \in Bucket, NEW f \in [0..MaxTime -> Int], NEW c \in 0..MaxTime,
           Accounts(q, b, f, c), Level(q, b, c) >= q.cost,
           NEW d \in Bucket, d.tokens = Level(q, b, c) - q.cost, d.last_refill = c,
           d.tokens + (d.expires - c) * q.rate >= q.capacity,
           NEW g \in [0..MaxTime -> Int], \A n \in 0..MaxTime : g[n] = f[n] + IF n < c THEN 0 ELSE q.cost
    PROVE  Accounts(q, d, g, c)
<1>1. /\ q.capacity \in Nat /\ q.rate \in Nat /\ q.cost \in Nat /\ MaxTime \in Nat /\ c \in Nat
      /\ Level(q, b, c) \in 0..q.capacity
  BY ClockAssumption, LevelIs DEF Limits, Accounts
<1>2. Level(q, d, c) = Level(q, b, c) - q.cost
  <2>1. d.tokens \in Nat /\ d.tokens # Unset /\ d.tokens <= q.capacity
    BY <1>1, UnsetAssumption
  <2> DEFINE z == (c - c) * q.rate
  <2>2. z = 0
    BY <1>1
  <2>3. d.last_refill <= c /\ c \in Int
    BY <1>1
  <2>4. Level(q, d, c) = IF q.capacity <= d.tokens + z THEN q.capacity ELSE d.tokens + z
    BY <2>1, <2>3, LevelIs
  <2> HIDE DEF z
  <2>5. Level(q, d, c) = d.tokens
    BY <1>1, <2>1, <2>2, <2>4
  <2> QED
    BY <2>5
<1>3. ASSUME NEW n \in c..MaxTime PROVE g[n] = g[c]
  <2>1. n \in 0..MaxTime /\ ~(n < c) /\ f[n] = f[c]
    BY <1>1 DEF Accounts
  <2> QED
    BY <1>1, <2>1
<1>4. ASSUME NEW from \in 0..c
      PROVE  Since(g, c, from) + Level(q, d, c) <= q.capacity + (c - from) * q.rate
  <2>1. Since(g, c, from) = Since(f, c, from) + q.cost
    <3>1. g[c] = f[c] + q.cost /\ f[c] \in Int
      BY <1>1
    <3>2. from # 0 => from - 1 \in 0..MaxTime /\ from - 1 < c /\ g[from - 1] = f[from - 1] /\ f[from - 1] \in Int
      BY <1>1
    <3> QED
      BY <1>1, <3>1, <3>2 DEF Since
  <2>2. Since(f, c, from) + Level(q, b, c) <= q.capacity + (c - from) * q.rate
    BY DEF Accounts
  <2>3. Since(f, c, from) \in Int
    BY SinceType
  <2> QED
    BY <1>1, <1>2, <2>1, <2>2, <2>3
<1>5. d.last_refill <= c /\ d.tokens + (d.expires - d.last_refill) * q.rate >= q.capacity
  BY <1>1
<1> QED
  BY <1>3, <1>4, <1>5 DEF Accounts

LEMMA AccountsOpen ==
    ASSUME NEW q \in Limits, NEW b \in Bucket, NEW f, NEW c \in 0..MaxTime, Accounts(q, b, f, c),
           NEW d \in Bucket, d.tokens = b.tokens, d.last_refill = b.last_refill,
           (d.expires - c) * q.rate >= q.capacity
    PROVE  Accounts(q, d, f, c)
<1>1. Level(q, d, c) = Level(q, b, c)
  BY DEF Level
<1>2. ASSUME d.tokens # Unset
      PROVE  d.tokens + (d.expires - d.last_refill) * q.rate >= q.capacity
  <2>1. /\ d.tokens \in Nat /\ d.last_refill <= c /\ d.last_refill \in Int /\ d.expires \in Int
        /\ q.rate \in Nat /\ q.capacity \in Nat /\ c \in Int
    BY <1>2 DEF Accounts, Bucket, Limits
  <2>2. d.expires - c <= d.expires - d.last_refill
    BY <2>1
  <2> DEFINE x == (d.expires - c) * q.rate
             y == (d.expires - d.last_refill) * q.rate
  <2>3. x <= y /\ x \in Int /\ y \in Int
    BY <2>1, <2>2, ProductGrows
  <2>4. x >= q.capacity
    OBVIOUS
  <2> HIDE DEF x, y
  <2>5. d.tokens + y >= q.capacity
    BY <2>1, <2>3, <2>4
  <2> QED
    BY <2>5 DEF y
<1> QED
  BY <1>1, <1>2 DEF Accounts

LEMMA RefillCovers ==
    ASSUME NEW s \in Int, NEW v \in Int, NEW w \in Int, NEW k \in Int, NEW x \in Int, NEW y \in Int,
           NEW r \in Int, s + v <= k + x, y = x + r, w <= v + r
    PROVE  s + w <= k + y
OBVIOUS

LEMMA AccountsTick ==
    ASSUME NEW q \in Limits, NEW b \in Bucket, NEW f \in [0..MaxTime -> Int],
           NEW c \in 0..MaxTime, c < MaxTime, Accounts(q, b, f, c), NEW d \in Bucket,
           d = b \/ (b.expires <= c + 1 /\ d = Empty)
    PROVE  Accounts(q, d, f, c + 1)
<1>1. /\ q.capacity \in Nat /\ q.rate \in Nat /\ MaxTime \in Nat /\ c \in Nat /\ c + 1 \in 0..MaxTime
      /\ Level(q, b, c) \in 0..q.capacity
  BY ClockAssumption, LevelIs DEF Limits, Accounts
<1>2. f[c + 1] = f[c] /\ f[c] \in Int
  BY <1>1 DEF Accounts
<1>3. Level(q, b, c + 1) <= Level(q, b, c) + q.rate /\ Level(q, b, c + 1) \in 0..q.capacity
  <2>1. c \in Int /\ c + 1 \in Int /\ c <= c + 1 /\ (b.tokens # Unset => b.last_refill <= c)
        /\ (b.tokens # Unset => b.last_refill <= c + 1) /\ ((c + 1) - c) * q.rate = q.rate
    BY <1>1 DEF Accounts, Bucket
  <2>2. Level(q, b, c + 1) <= Level(q, b, c) + ((c + 1) - c) * q.rate
    BY <2>1, LevelGrows
  <2>3. Level(q, b, c + 1) \in 0..q.capacity
    BY <2>1, LevelIs
  <2> QED
    BY <2>1, <2>2, <2>3
<1>4. Level(q, d, c + 1) <= Level(q, b, c) + q.rate /\ Level(q, d, c + 1) \in 0..q.capacity
  <2>1. CASE d = b
    BY <1>3, <2>1
  <2>2. CASE b.expires <= c + 1 /\ d = Empty
    <3>1. Level(q, d, c + 1) = q.capacity
      BY <2>2 DEF Level, Empty
    <3>2. Level(q, b, c + 1) = q.capacity
      <4>1. CASE b.tokens = Unset
        BY <4>1 DEF Level
      <4>2. CASE b.tokens # Unset
        <5>1. b.tokens \in Nat /\ b.last_refill \in Int /\ b.expires \in Int /\ b.last_refill <= c + 1
          BY <1>1, <4>2 DEF Bucket, Accounts
        <5> DEFINE x == (b.expires - b.last_refill) * q.rate
                   y == ((c + 1) - b.last_refill) * q.rate
        <5>2. /\ b.expires - b.last_refill <= (c + 1) - b.last_refill
              /\ b.expires - b.last_refill \in Int /\ (c + 1) - b.last_refill \in Int
              /\ c + 1 \in Int /\ q.rate \in Nat
          BY <1>1, <2>2, <5>1
        <5>3. x <= y /\ x \in Int /\ y \in Int
          BY <5>2, ProductGrows
        <5>4. b.tokens + x >= q.capacity
          BY <4>2 DEF Accounts
        <5>5. Level(q, b, c + 1) = IF q.capacity <= b.tokens + y THEN q.capacity ELSE b.tokens + y
          BY <4>2, <5>1, <5>2, LevelIs
        <5> HIDE DEF x, y
        <5> QED
          BY <1>1, <5>1, <5>3, <5>4, <5>5
      <4> QED
        BY <4>1, <4>2
    <3> QED
      BY <1>1, <1>3, <3>1, <3>2
  <2> QED
    BY <2>1, <2>2
<1>5. ASSUME NEW from \in 0..(c + 1)
      PROVE  Since(f, c + 1, from) + Level(q, d, c + 1) <= q.capacity + ((c + 1) - from) * q.rate
  <2>1. CASE from = c + 1
    <3>1. Since(f, c + 1, from) = 0
      BY <1>1, <1>2, <2>1 DEF Since
    <3>2. ((c + 1) - from) * q.rate = 0
      BY <1>1, <2>1
    <3> QED
      BY <1>1, <1>4, <3>1, <3>2
  <2>2. CASE from # c + 1
    <3>1. from \in 0..c
      BY <1>1, <2>2
    <3>2. Since(f, c + 1, from) = Since(f, c, from) /\ Since(f, c, from) \in Int
      BY <1>2, <3>1, SinceType DEF Since
    <3>3. Since(f, c, from) + Level(q, b, c) <= q.capacity + (c - from) * q.rate
      BY <3>1 DEF Accounts
    <3> DEFINE x == (c - from) * q.rate
               y == ((c + 1) - from) * q.rate
    <3>4. y = x + q.rate /\ x \in Int
      BY <1>1, <3>1
    <3>5. Since(f, c, from) + Level(q, b, c) <= q.capacity + x
      BY <3>3
    <3> DEFINE v == Level(q, b, c)
               w == Level(q, d, c + 1)
    <3>6. v \in Int /\ w \in Int /\ w <= v + q.rate
      BY <1>1, <1>4
    <3>7. Since(f, c, from) + v <= q.capacity + x
      BY <3>5
    <3> DEFINE s == Since(f, c, from)
    <3> HIDE DEF v, w, x, y
    <3>8. /\ s \in Int /\ v \in Int /\ w \in Int /\ x \in Int /\ y \in Int
          /\ q.capacity \in Int /\ q.rate \in Int
          /\ s + v <= q.capacity + x /\ y = x + q.rate /\ w <= v + q.rate
      BY <1>1, <3>2, <3>4, <3>6, <3>7
    <3> HIDE DEF s
    <3>9. s + w <= q.capacity + y
      BY ONLY <3>8, RefillCovers
    <3> QED
      BY <3>2, <3>9 DEF s, w, y
  <2> QED
    BY <2>1, <2>2
<1>6. \A n \in (c + 1)..MaxTime : f[n] = f[c + 1]
  BY <1>1, <1>2 DEF Accounts
<1>7. d.tokens # Unset =>
        /\ d.last_refill <= c + 1
        /\ d.tokens + (d.expires - d.last_refill) * q.rate >= q.capacity
  <2>1. CASE d = b
    BY <1>1, <2>1 DEF Accounts, Bucket
  <2>2. CASE d = Empty
    BY <2>2 DEF Empty
  <2> QED
    BY <2>1, <2>2
<1> QED
  BY <1>5, <1>6, <1>7 DEF Accounts

-----------------------------------------------------------------------------
(***************************************************************************)
(* The steps of the quota when all nodes have the clock of Redis: every    *)
(* one charges a tenant for layers that pass, or refuses one that does not *)
(* pass, or lets time go by.                                               *)
(***************************************************************************)
ClocksAgree == Offsets = {0}

Charges(t, L) ==
    /\ \A l \in L : Passes(t, l, clock)
    /\ Charge(t, L, clock)
    /\ Advise(t, Unset, "system" \in L)
    /\ UNCHANGED clock

Advice(t, l) == [layer |-> l, at |-> clock + RetryAfter(l, Wait(t, l, clock)) * Second]

Refuses(t, i) ==
    /\ ~Passes(t, Layers[i], clock)
    /\ Refuse(t, i, clock)
    /\ Advise(t, Unset, FALSE) \/ Advise(t, Advice(t, Layers[i]), FALSE)
    /\ UNCHANGED clock

LEMMA FirstIsOne ==
    ASSUME NEW S, S \subseteq 1..4, S # {}
    PROVE  Min(S) \in S
<1>1. \E x \in S : \A y \in S : x =< y
  <2>1. CASE 1 \in S
    BY <2>1
  <2>2. CASE 1 \notin S /\ 2 \in S
    BY <2>2
  <2>3. CASE 1 \notin S /\ 2 \notin S /\ 3 \in S
    BY <2>3
  <2>4. CASE 1 \notin S /\ 2 \notin S /\ 3 \notin S
    <3>1. \A x \in S : x = 4
      BY <2>4
    <3>2. 4 \in S
      BY <3>1
    <3> QED
      BY <3>1, <3>2
  <2> QED
    BY <2>1, <2>2, <2>3, <2>4
<1> QED
  BY <1>1 DEF Min

LEMMA LayerNames ==
    /\ DOMAIN Layers = 1..4
    /\ Layer = {"system", "breaker", "budget", "api"}
    /\ \A i \in DOMAIN Layers : Layers[i] \in Layer
    /\ \A l \in Layer : \E i \in DOMAIN Layers : Layers[i] = l
<1>1. DOMAIN Layers = 1..4
  BY DEF Layers
<1>2. Layers[1] = "system" /\ Layers[2] = "breaker" /\ Layers[3] = "budget" /\ Layers[4] = "api"
  BY DEF Layers
<1>3. Layer = {"system", "breaker", "budget", "api"}
  BY <1>1, <1>2 DEF Layer
<1> QED
  BY <1>1, <1>3 DEF Layer

LEMMA QuotaSteps ==
    ASSUME ClocksAgree, clock \in Int, QuotaNext
    PROVE  \/ \E t \in Tenants, L \in SUBSET Layer : Charges(t, L)
           \/ \E t \in Tenants, i \in DOMAIN Layers : Refuses(t, i)
           \/ QuotaTick
<1>1. \A o \in Offsets : clock + o = clock
  BY DEF ClocksAgree
<1>2. ASSUME NEW t \in Tenants, Failing(t, clock) = {}, Charge(t, Layer, clock), Advise(t, Unset, TRUE),
             UNCHANGED clock
      PROVE  Charges(t, Layer)
  <2>1. \A l \in Layer : Passes(t, l, clock)
    BY <1>2, LayerNames DEF Failing
  <2>2. ("system" \in Layer) = TRUE
    BY LayerNames
  <2> QED
    BY <1>2, <2>1, <2>2 DEF Charges
<1>3. ASSUME NEW t \in Tenants, Failing(t, clock) # {}
      PROVE  Min(Failing(t, clock)) \in DOMAIN Layers /\ ~Passes(t, Layers[Min(Failing(t, clock))], clock)
  <2>1. Failing(t, clock) \subseteq 1..4
    BY LayerNames DEF Failing
  <2>2. Min(Failing(t, clock)) \in Failing(t, clock)
    BY <1>3, <2>1, FirstIsOne
  <2> QED
    BY <2>2 DEF Failing
<1>4. ASSUME NEW t \in Tenants, Admit(t, clock) PROVE Charges(t, Layer)
  BY <1>2, <1>4 DEF Admit
<1>5. ASSUME NEW t \in Tenants, Reject(t, clock) PROVE Refuses(t, Min(Failing(t, clock)))
  BY <1>3, <1>5 DEF Reject, Refuses, Advice
<1>6. ASSUME NEW t \in Tenants, LostReply(t, clock)
      PROVE  Charges(t, Layer) \/ (Failing(t, clock) # {} /\ Refuses(t, Min(Failing(t, clock))))
  BY <1>2, <1>3, <1>6 DEF LostReply, Refuses
<1>7. ASSUME NEW t \in Tenants, NEW l \in Layer, AdmitOne(t, l, clock) PROVE Charges(t, {l})
  <2>1. ("system" \in {l}) = (l = "system")
    OBVIOUS
  <2> QED
    BY <1>7, <2>1 DEF AdmitOne, Charges
<1>8. ASSUME NEW t \in Tenants, NEW l \in Layer, RejectOne(t, l, clock)
      PROVE  \E i \in DOMAIN Layers : Refuses(t, i)
  <2> DEFINE i == CHOOSE i \in DOMAIN Layers : Layers[i] = l
  <2>1. i \in DOMAIN Layers /\ Layers[i] = l
    BY LayerNames
  <2>2. ~Passes(t, l, clock) /\ Refuse(t, i, clock) /\ Advise(t, Advice(t, l), FALSE) /\ UNCHANGED clock
    BY <1>8 DEF RejectOne, Advice
  <2> HIDE DEF i
  <2> QED
    BY <2>1, <2>2 DEF Refuses
<1>9. \A s \in Singles : s[1] \in Tenants /\ s[2] \in Layer
  BY SinglesAssumption
<1>10. CASE \E t \in Tenants, o \in Offsets :
              Admit(t, clock + o) \/ Reject(t, clock + o) \/ LostReply(t, clock + o)
  <2>1. PICK t \in Tenants : Admit(t, clock) \/ Reject(t, clock) \/ LostReply(t, clock)
    BY <1>1, <1>10
  <2>2. Reject(t, clock) => Failing(t, clock) # {}
    BY DEF Reject
  <2> QED
    BY <1>3, <1>4, <1>5, <1>6, <2>1, <2>2
<1>11. CASE \E s \in Singles, o \in Offsets :
              AdmitOne(s[1], s[2], clock + o) \/ RejectOne(s[1], s[2], clock + o)
  <2>1. PICK s \in Singles : AdmitOne(s[1], s[2], clock) \/ RejectOne(s[1], s[2], clock)
    BY <1>1, <1>11
  <2> QED
    BY <1>7, <1>8, <1>9, <2>1
<1> QED
  BY <1>10, <1>11 DEF QuotaNext

-----------------------------------------------------------------------------
(***************************************************************************)
(* What the steps do to the bucket of one tenant and layer.                *)
(***************************************************************************)
BucketsInv ==
    /\ clock \in 0..MaxTime
    /\ bucket \in [Keys -> Bucket]
    /\ \A k \in Keys : bucket[k].tokens # Unset => bucket[k].last_refill <= clock

LEMMA ConfigType ==
    ASSUME NEW t \in Tenants, NEW l \in Layer
    PROVE  Config(t, l) \in Limits
<1>1. CASE Usable(Override[t][l])
  <2> DEFINE q == Override[t][l]
  <2>1. q \in [rate : Int, capacity : Int, cost : Int, backoff : Int]
    BY <1>1, LimitAssumption DEF Usable
  <2>2. q.rate > 0 /\ q.capacity > 0 /\ q.cost > 0 /\ q.backoff > 0
    BY <1>1, <2>1 DEF Usable
  <2>3. Config(t, l) = q
    BY <1>1 DEF Config
  <2> HIDE DEF q
  <2>4. q = [rate |-> q.rate, capacity |-> q.capacity, cost |-> q.cost, backoff |-> q.backoff]
    BY <2>1
  <2>5. q.rate \in Nat \ {0} /\ q.capacity \in Nat \ {0} /\ q.cost \in Nat \ {0} /\ q.backoff \in Nat \ {0}
    BY <2>1, <2>2
  <2> QED
    BY <2>3, <2>4, <2>5 DEF Limits
<1>2. CASE ~Usable(Override[t][l])
  BY <1>2, LimitAssumption DEF Config
<1> QED
  BY <1>1, <1>2

LEMMA KeyIs ==
    ASSUME NEW t \in Tenants, NEW l \in Layer
    PROVE  /\ Key(t, l) \in Keys /\ Key(t, l)[2] = l
           /\ \A u \in Tenants, m \in Layer : Key(u, m) = Key(t, l) <=> m = l /\ (l = "system" \/ u = t)
BY DEF Key, Keys

LEMMA FilledIs ==
    ASSUME NEW t, NEW l, NEW n
    PROVE  Filled(t, l, n) = Level(Config(t, l), bucket[Key(t, l)], n)
BY DEF Filled, Level

\* A charge of t for L takes from the bucket of u and m.
Takes(t, L, u, m) == m \in L /\ (m = "system" \/ u = t)

\* A refusal of t by its i-th layer opens the bucket of u and m.
Opens(t, i, u, m) == Layers[i] = "breaker" /\ ~IsOpen(t, "breaker", clock) /\ m = "breaker" /\ u = t

Opened(t) ==
    LET end == clock + Config(t, "breaker").backoff * Second
    IN  [bucket[Key(t, "breaker")] EXCEPT !.until = end, !.expires = end + OpenGrace]

\* A charge takes the cost of every layer that it is for, and no other.
LEMMA ChargeDoes ==
    ASSUME NEW t \in Tenants, NEW L \in SUBSET Layer, Charges(t, L), NEW u \in Tenants, NEW m \in Layer
    PROVE  /\ Takes(t, L, u, m) =>
                 /\ bucket'[Key(u, m)] = Charged(t, m, clock)
                 /\ taken'[Key(u, m)] = [n \in 0..MaxTime |-> taken[Key(u, m)][n]
                                             + IF n < clock THEN 0 ELSE Config(t, m).cost]
           /\ ~Takes(t, L, u, m) =>
                 bucket'[Key(u, m)] = bucket[Key(u, m)] /\ taken'[Key(u, m)] = taken[Key(u, m)]
<1> DEFINE k == Key(u, m)
<1>1. k \in Keys /\ k[2] = m /\ (k = Key(t, m) <=> (m = "system" \/ u = t))
  BY KeyIs
<1> HIDE DEF k
<1>2. bucket'[k] = IF m \in L /\ k = Key(t, m) THEN Charged(t, m, clock) ELSE bucket[k]
  BY <1>1 DEF Charges, Charge
<1>3. taken'[k] = IF m \in L /\ k = Key(t, m)
                  THEN [n \in 0..MaxTime |-> taken[k][n] + IF n < clock THEN 0 ELSE Config(t, m).cost]
                  ELSE taken[k]
  BY <1>1 DEF Charges, Charge
<1> QED
  BY <1>1, <1>2, <1>3 DEF k, Takes

\* The bucket after a charge lives until it is full again.
LEMMA ChargedIs ==
    ASSUME BucketsInv, NEW t \in Tenants, NEW m \in Layer, Passes(t, m, clock)
    PROVE  LET q == Config(t, m)  b == bucket[Key(t, m)]  d == Charged(t, m, clock)
           IN  /\ q \in Limits /\ b \in Bucket /\ d \in Bucket
               /\ Level(q, b, clock) \in 0..q.capacity /\ Level(q, b, clock) >= q.cost
               /\ d.tokens = Level(q, b, clock) - q.cost /\ d.last_refill = clock /\ d.until = Unset
               /\ d.tokens + (d.expires - clock) * q.rate >= q.capacity
<1> DEFINE q == Config(t, m)
           b == bucket[Key(t, m)]
           d == Charged(t, m, clock)
           v == Level(q, b, clock)
<1>1. q \in Limits /\ b \in Bucket /\ clock \in Int /\ (b.tokens # Unset => b.last_refill <= clock)
  BY ConfigType, KeyIs, ClockAssumption DEF BucketsInv
<1>2. v \in 0..q.capacity
  BY <1>1, LevelIs
<1>3. v >= q.cost
  BY FilledIs DEF Passes
<1>4. d.tokens = v - q.cost /\ d.last_refill = clock /\ d.until = Unset
  BY FilledIs DEF Charged
<1> DEFINE life == IF m = "breaker" THEN CeilDiv(q.capacity - (v - q.cost), q.rate) ELSE KeyTtl
<1>5. d = [tokens |-> v - q.cost, last_refill |-> clock, until |-> Unset, expires |-> clock + life]
  BY FilledIs DEF Charged
<1>6. /\ q.capacity \in Nat /\ q.rate \in Nat \ {0} /\ q.cost \in Nat /\ KeyTtl \in Nat
      /\ m # "breaker" => q.capacity <= q.rate * KeyTtl
  BY <1>1, ClockAssumption, TtlAssumption DEF Limits
<1> HIDE DEF q, b, v, d
<1>7. v - q.cost \in Nat
  BY <1>2, <1>3, <1>6
<1>8. life \in Int /\ (v - q.cost) + life * q.rate >= q.capacity
  <2>1. CASE m = "breaker"
    <3> DEFINE a == q.capacity - (v - q.cost)
               e == CeilDiv(a, q.rate)
    <3>1. a \in Int
      BY <1>6, <1>7
    <3> HIDE DEF a
    <3>2. e \in Int /\ e * q.rate >= a
      BY <1>6, <3>1, CeilCovers
    <3>3. life = e
      BY <2>1 DEF a
    <3> DEFINE p == e * q.rate
    <3>4. p \in Int /\ p >= a
      BY <1>6, <3>2
    <3> HIDE DEF e, p, life
    <3>5. (v - q.cost) + p >= q.capacity
      BY <1>2, <1>6, <1>7, <3>1, <3>4 DEF a
    <3> QED
      BY <3>2, <3>3, <3>5 DEF p
  <2>2. CASE m # "breaker"
    <3>1. life = KeyTtl
      BY <2>2
    <3> DEFINE p == KeyTtl * q.rate
    <3>2. p \in Int /\ p >= q.capacity
      BY <1>6, <2>2
    <3> HIDE DEF life, p
    <3>3. (v - q.cost) + p >= q.capacity
      BY <1>6, <1>7, <3>2
    <3> QED
      BY <1>6, <3>1, <3>3 DEF p
  <2> QED
    BY <2>1, <2>2
<1> HIDE DEF life
<1>9. d \in Bucket /\ d.expires = clock + life
  BY <1>1, <1>5, <1>7, <1>8 DEF Bucket
<1>10. d.expires - clock = life
  BY <1>1, <1>8, <1>9
<1>11. d.tokens + (d.expires - clock) * q.rate >= q.capacity
  BY <1>4, <1>8, <1>10
<1> QED
  BY <1>1, <1>2, <1>3, <1>4, <1>9, <1>11 DEF q, b, v, d

\* A refusal opens a closed breaker and changes no other bucket.
LEMMA RefuseDoes ==
    ASSUME BucketsInv, NEW t \in Tenants, NEW i \in DOMAIN Layers, Refuses(t, i),
           NEW u \in Tenants, NEW m \in Layer
    PROVE  /\ taken' = taken
           /\ Opens(t, i, u, m) => bucket'[Key(u, m)] = Opened(t)
           /\ ~Opens(t, i, u, m) => bucket'[Key(u, m)] = bucket[Key(u, m)]
<1>1. DOMAIN bucket = Keys
  BY DEF BucketsInv
<1>2. Key(u, m) \in Keys /\ Key(t, "breaker") \in Keys /\ (Key(u, m) = Key(t, "breaker") <=> m = "breaker" /\ u = t)
  BY KeyIs, LayerNames
<1>3. taken' = taken
  BY DEF Refuses, Refuse
<1>4. CASE Layers[i] = "breaker" /\ ~IsOpen(t, "breaker", clock)
  <2> DEFINE k == Key(t, "breaker")
             end == clock + Config(t, "breaker").backoff * Second
  <2>1. bucket' = [bucket EXCEPT ![k].until = end, ![k].expires = end + OpenGrace]
    BY <1>4 DEF Refuses, Refuse
  <2> HIDE DEF k, end
  <2>2. bucket'[Key(u, m)] = IF Key(u, m) = k
                             THEN [bucket[Key(u, m)] EXCEPT !.until = end, !.expires = end + OpenGrace]
                             ELSE bucket[Key(u, m)]
    BY <1>1, <1>2, <2>1
  <2> QED
    BY <1>2, <1>3, <1>4, <2>2 DEF k, end, Opens, Opened
<1>5. CASE ~(Layers[i] = "breaker" /\ ~IsOpen(t, "breaker", clock))
  <2>1. bucket' = bucket
    BY <1>5 DEF Refuses, Refuse
  <2> QED
    BY <1>3, <1>5, <2>1 DEF Opens
<1> QED
  BY <1>4, <1>5

\* An opened breaker keeps its tokens and lives until it is full again.
LEMMA OpenedIs ==
    ASSUME BucketsInv, NEW t \in Tenants
    PROVE  LET q == Config(t, "breaker")  b == bucket[Key(t, "breaker")]  d == Opened(t)
           IN  /\ d \in Bucket /\ d.tokens = b.tokens /\ d.last_refill = b.last_refill
               /\ d.until = clock + q.backoff * Second
               /\ (d.expires - clock) * q.rate >= q.capacity
<1> DEFINE q == Config(t, "breaker")
           b == bucket[Key(t, "breaker")]
           w == q.backoff * Second
           d == Opened(t)
<1>1. q \in Limits /\ b \in Bucket /\ clock \in Int /\ Second \in Nat /\ OpenGrace \in Nat
  BY ConfigType, KeyIs, LayerNames, ClockAssumption DEF BucketsInv
<1>2. q.backoff \in Nat /\ q.rate \in Nat /\ q.capacity \in Nat
  BY <1>1 DEF Limits
<1>3. w \in Nat
  BY <1>1, <1>2
<1>4. q.capacity <= q.rate * (w + OpenGrace)
  BY TtlAssumption, LayerNames
<1>5. d = [b EXCEPT !.until = clock + w, !.expires = clock + w + OpenGrace]
  BY DEF Opened
<1> HIDE DEF q, b, w, d
<1>6. d \in Bucket /\ d.tokens = b.tokens /\ d.last_refill = b.last_refill /\ d.until = clock + w
  <2>1. d = [tokens |-> b.tokens, last_refill |-> b.last_refill, until |-> clock + w, expires |-> clock + w + OpenGrace]
    BY <1>1, <1>5 DEF Bucket
  <2>2. b.tokens \in Nat \cup {Unset} /\ b.last_refill \in Int /\ clock + w \in Int /\ clock + w + OpenGrace \in Int
    BY <1>1, <1>3 DEF Bucket
  <2> QED
    BY <2>1, <2>2 DEF Bucket
<1>7. d.expires = clock + w + OpenGrace
  BY ONLY <1>1, <1>5 DEF Bucket
<1>9. d.expires - clock = w + OpenGrace
  BY ONLY <1>1, <1>3, <1>7
<1>8. (w + OpenGrace) * q.rate >= q.capacity
  BY <1>1, <1>2, <1>3, <1>4
<1> QED
  BY <1>6, <1>8, <1>9 DEF q, b, w, d

LEMMA TickDoes ==
    ASSUME BucketsInv, QuotaTick, NEW u \in Tenants, NEW m \in Layer
    PROVE  LET b == bucket[Key(u, m)]  d == bucket'[Key(u, m)]
           IN  /\ taken' = taken /\ advice' = advice /\ clock' = clock + 1 /\ clock < MaxTime
               /\ d = b \/ (b.expires <= clock + 1 /\ d = Empty)
BY KeyIs DEF QuotaTick

LEMMA BucketsInit == QuotaInit => BucketsInv
BY ClockAssumption DEF QuotaInit, BucketsInv, Bucket, Empty

LEMMA BucketsStep ==
    ASSUME ClocksAgree
    PROVE  BucketsInv /\ [QuotaNext]_quotaVars => BucketsInv'
<1> SUFFICES ASSUME BucketsInv, [QuotaNext]_quotaVars PROVE BucketsInv'
  OBVIOUS
<1>0. clock \in Int /\ MaxTime \in Nat
  BY ClockAssumption DEF BucketsInv
<1>1. ASSUME clock' \in 0..MaxTime, DOMAIN bucket' = Keys, bucket' = [k \in Keys |-> bucket'[k]],
             \A u \in Tenants, m \in Layer :
                LET d == bucket'[Key(u, m)]
                IN  d \in Bucket /\ (d.tokens # Unset => d.last_refill <= clock')
      PROVE  BucketsInv'
  BY <1>1 DEF BucketsInv, Keys
<1>2. ASSUME NEW t \in Tenants, NEW L \in SUBSET Layer, Charges(t, L) PROVE BucketsInv'
  <2>1. DOMAIN bucket' = Keys /\ bucket' = [k \in Keys |-> bucket'[k]] /\ clock' = clock
    BY <1>2 DEF Charges, Charge
  <2>2. ASSUME NEW u \in Tenants, NEW m \in Layer
        PROVE  LET d == bucket'[Key(u, m)]
               IN  d \in Bucket /\ (d.tokens # Unset => d.last_refill <= clock')
    <3>1. CASE Takes(t, L, u, m)
      <4>1. bucket'[Key(u, m)] = Charged(t, m, clock)
        BY <1>2, <3>1, ChargeDoes
      <4>2. Passes(t, m, clock)
        BY <1>2, <3>1 DEF Charges, Takes
      <4>3. Charged(t, m, clock) \in Bucket /\ Charged(t, m, clock).last_refill = clock
        BY <4>2, ChargedIs
      <4> QED
        BY <1>0, <2>1, <4>1, <4>3
    <3>2. CASE ~Takes(t, L, u, m)
      <4>1. bucket'[Key(u, m)] = bucket[Key(u, m)]
        BY <1>2, <3>2, ChargeDoes
      <4> QED
        BY <2>1, <4>1, KeyIs DEF BucketsInv
    <3> QED
      BY <3>1, <3>2
  <2> QED
    BY <1>1, <2>1, <2>2 DEF BucketsInv
<1>3. ASSUME NEW t \in Tenants, NEW i \in DOMAIN Layers, Refuses(t, i) PROVE BucketsInv'
  <2>1. DOMAIN bucket' = Keys /\ bucket' = [k \in Keys |-> bucket'[k]] /\ clock' = clock
    BY <1>3 DEF Refuses, Refuse, BucketsInv
  <2>2. ASSUME NEW u \in Tenants, NEW m \in Layer
        PROVE  LET d == bucket'[Key(u, m)]
               IN  d \in Bucket /\ (d.tokens # Unset => d.last_refill <= clock')
    <3>0. bucket[Key(u, m)] \in Bucket /\ (bucket[Key(u, m)].tokens # Unset => bucket[Key(u, m)].last_refill <= clock)
      BY KeyIs DEF BucketsInv
    <3>1. CASE Opens(t, i, u, m)
      <4>1. bucket'[Key(u, m)] = Opened(t) /\ Key(u, m) = Key(t, "breaker")
        BY <1>3, <3>1, RefuseDoes DEF Opens
      <4>2. /\ Opened(t) \in Bucket /\ Opened(t).tokens = bucket[Key(u, m)].tokens
            /\ Opened(t).last_refill = bucket[Key(u, m)].last_refill
        BY <4>1, OpenedIs
      <4> QED
        BY <2>1, <3>0, <4>1, <4>2
    <3>2. CASE ~Opens(t, i, u, m)
      <4>1. bucket'[Key(u, m)] = bucket[Key(u, m)]
        BY <1>3, <3>2, RefuseDoes
      <4> QED
        BY <2>1, <3>0, <4>1
    <3> QED
      BY <3>1, <3>2
  <2> QED
    BY <1>1, <2>1, <2>2 DEF BucketsInv
<1>4. CASE QuotaTick
  <2>1. DOMAIN bucket' = Keys /\ bucket' = [k \in Keys |-> bucket'[k]]
    BY <1>4 DEF QuotaTick
  <2>2. clock' = clock + 1 /\ clock' \in 0..MaxTime
    BY <1>0, <1>4 DEF QuotaTick, BucketsInv
  <2>3. Empty \in Bucket /\ Empty.tokens = Unset
    BY DEF Empty, Bucket
  <2>4. ASSUME NEW u \in Tenants, NEW m \in Layer
        PROVE  LET d == bucket'[Key(u, m)]
               IN  d \in Bucket /\ (d.tokens # Unset => d.last_refill <= clock')
    <3>0. bucket[Key(u, m)] \in Bucket /\ (bucket[Key(u, m)].tokens # Unset => bucket[Key(u, m)].last_refill <= clock)
      BY KeyIs DEF BucketsInv
    <3>1. bucket'[Key(u, m)] = bucket[Key(u, m)] \/ bucket'[Key(u, m)] = Empty
      BY <1>4, TickDoes
    <3>2. bucket[Key(u, m)].tokens # Unset => bucket[Key(u, m)].last_refill <= clock'
      BY <1>0, <2>2, <3>0 DEF Bucket
    <3> QED
      BY <2>3, <3>0, <3>1, <3>2
  <2> QED
    BY <1>1, <2>1, <2>2, <2>4
<1>5. CASE UNCHANGED quotaVars
  BY <1>5 DEF quotaVars, BucketsInv
<1> QED
  BY <1>0, <1>2, <1>3, <1>4, <1>5, QuotaSteps

-----------------------------------------------------------------------------
(***************************************************************************)
(* The limits: every bucket keeps its accounts.                            *)
(***************************************************************************)
OneSystemLimit == \A t \in Tenants : Config(t, "system") = Global["system"]

AccountsInv ==
    /\ taken \in [Keys -> [0..MaxTime -> Int]]
    /\ \A t \in Tenants, l \in Layer :
          Accounts(Config(t, l), bucket[Key(t, l)], taken[Key(t, l)], clock)

LEMMA AccountsInit ==
    QuotaInit => AccountsInv
<1> SUFFICES ASSUME QuotaInit PROVE AccountsInv
  OBVIOUS
<1>1. clock = 0 /\ taken \in [Keys -> [0..MaxTime -> Int]] /\ MaxTime \in Nat
  BY ClockAssumption DEF QuotaInit
<1>2. ASSUME NEW t \in Tenants, NEW l \in Layer
      PROVE  Accounts(Config(t, l), bucket[Key(t, l)], taken[Key(t, l)], clock)
  <2> DEFINE q == Config(t, l)
             f == taken[Key(t, l)]
  <2>1. bucket[Key(t, l)] = Empty /\ Empty.tokens = Unset /\ \A n \in 0..MaxTime : f[n] = 0
    BY KeyIs DEF QuotaInit, Empty
  <2>2. q.capacity \in Nat /\ q.rate \in Nat
    BY ConfigType DEF Limits
  <2>3. Level(q, Empty, 0) = q.capacity
    BY <2>1 DEF Level
  <2> HIDE DEF q, f
  <2>4. ASSUME NEW from \in 0..0 PROVE Since(f, 0, from) + q.capacity <= q.capacity + (0 - from) * q.rate
    <3>1. from = 0 /\ (0 - from) * q.rate = 0 /\ Since(f, 0, from) = 0
      BY <1>1, <2>1, <2>2 DEF Since
    <3> QED
      BY <2>2, <3>1
  <2>5. Accounts(q, Empty, f, 0)
    BY <1>1, <2>1, <2>3, <2>4 DEF Accounts
  <2> QED
    BY <1>1, <2>1, <2>5 DEF q, f
<1> QED
  BY <1>1, <1>2 DEF AccountsInv

LEMMA AccountsStep ==
    ASSUME ClocksAgree, OneSystemLimit
    PROVE  BucketsInv /\ AccountsInv /\ [QuotaNext]_quotaVars => AccountsInv'
<1> SUFFICES ASSUME BucketsInv, AccountsInv, [QuotaNext]_quotaVars PROVE AccountsInv'
  OBVIOUS
<1>0. clock \in Int /\ clock \in 0..MaxTime /\ MaxTime \in Nat
  BY ClockAssumption DEF BucketsInv
<1>1. ASSUME NEW t \in Tenants, NEW l \in Layer
      PROVE  /\ Config(t, l) \in Limits /\ bucket[Key(t, l)] \in Bucket
             /\ taken[Key(t, l)] \in [0..MaxTime -> Int]
             /\ Accounts(Config(t, l), bucket[Key(t, l)], taken[Key(t, l)], clock)
  BY ConfigType, KeyIs DEF BucketsInv, AccountsInv
<1>2. ASSUME NEW t \in Tenants, NEW L \in SUBSET Layer, Charges(t, L) PROVE AccountsInv'
  <2>1. clock' = clock /\ taken' = [k \in Keys |-> taken'[k]]
    BY <1>2 DEF Charges, Charge
  <2>2. ASSUME NEW u \in Tenants, NEW m \in Layer
        PROVE  /\ taken'[Key(u, m)] \in [0..MaxTime -> Int]
               /\ Accounts(Config(u, m), bucket'[Key(u, m)], taken'[Key(u, m)], clock)
    <3>1. CASE Takes(t, L, u, m)
      <4> DEFINE q == Config(u, m)
                 b == bucket[Key(u, m)]
                 f == taken[Key(u, m)]
                 d == Charged(t, m, clock)
                 g == taken'[Key(u, m)]
      <4>1. q = Config(t, m) /\ Key(u, m) = Key(t, m)
        BY <3>1, KeyIs DEF Takes, OneSystemLimit
      <4>2. Passes(t, m, clock)
        BY <1>2, <3>1 DEF Charges, Takes
      <4>3. bucket'[Key(u, m)] = d /\ g = [n \in 0..MaxTime |-> f[n] + IF n < clock THEN 0 ELSE q.cost]
        BY <1>2, <3>1, <4>1, ChargeDoes
      <4>4. /\ d \in Bucket /\ Level(q, b, clock) >= q.cost
            /\ d.tokens = Level(q, b, clock) - q.cost /\ d.last_refill = clock
            /\ d.tokens + (d.expires - clock) * q.rate >= q.capacity
        BY <4>1, <4>2, ChargedIs
      <4>5. q \in Limits /\ b \in Bucket /\ f \in [0..MaxTime -> Int] /\ Accounts(q, b, f, clock)
        BY <1>1
      <4>6. q.cost \in Int
        BY <4>5 DEF Limits
      <4> HIDE DEF q, b, f, d, g
      <4>7. g \in [0..MaxTime -> Int] /\ \A n \in 0..MaxTime : g[n] = f[n] + IF n < clock THEN 0 ELSE q.cost
        BY <4>3, <4>5, <4>6
      <4>8. Accounts(q, d, g, clock)
        BY <1>0, <4>4, <4>5, <4>7, AccountsCharge
      <4> QED
        BY <4>3, <4>7, <4>8 DEF q, g
    <3>2. CASE ~Takes(t, L, u, m)
      <4>1. bucket'[Key(u, m)] = bucket[Key(u, m)] /\ taken'[Key(u, m)] = taken[Key(u, m)]
        BY <1>2, <3>2, ChargeDoes
      <4> QED
        BY <1>1, <4>1
    <3> QED
      BY <3>1, <3>2
  <2>3. taken' \in [Keys -> [0..MaxTime -> Int]]
    BY <2>1, <2>2 DEF Keys
  <2> QED
    BY <2>1, <2>2, <2>3 DEF AccountsInv
<1>3. ASSUME NEW t \in Tenants, NEW i \in DOMAIN Layers, Refuses(t, i) PROVE AccountsInv'
  <2>1. clock' = clock /\ taken' = taken
    BY <1>3 DEF Refuses, Refuse
  <2>2. ASSUME NEW u \in Tenants, NEW m \in Layer
        PROVE  Accounts(Config(u, m), bucket'[Key(u, m)], taken[Key(u, m)], clock)
    <3>1. CASE Opens(t, i, u, m)
      <4>1. bucket'[Key(u, m)] = Opened(t) /\ u = t /\ m = "breaker"
        BY <1>3, <3>1, RefuseDoes DEF Opens
      <4>2. LET q == Config(u, m)  b == bucket[Key(u, m)]  d == Opened(t)
            IN  /\ d \in Bucket /\ d.tokens = b.tokens /\ d.last_refill = b.last_refill
                /\ (d.expires - clock) * q.rate >= q.capacity
        BY <4>1, OpenedIs
      <4> QED
        BY <1>0, <1>1, <4>1, <4>2, AccountsOpen
    <3>2. CASE ~Opens(t, i, u, m)
      <4>1. bucket'[Key(u, m)] = bucket[Key(u, m)]
        BY <1>3, <3>2, RefuseDoes
      <4> QED
        BY <1>1, <4>1
    <3> QED
      BY <3>1, <3>2
  <2> QED
    BY <2>1, <2>2 DEF AccountsInv
<1>4. CASE QuotaTick
  <2>1. clock' = clock + 1 /\ clock < MaxTime /\ taken' = taken
    BY <1>4 DEF QuotaTick
  <2>2. Empty \in Bucket
    BY DEF Empty, Bucket
  <2>3. ASSUME NEW u \in Tenants, NEW m \in Layer
        PROVE  Accounts(Config(u, m), bucket'[Key(u, m)], taken[Key(u, m)], clock + 1)
    <3> DEFINE b == bucket[Key(u, m)]
               d == bucket'[Key(u, m)]
    <3>1. d = b \/ (b.expires <= clock + 1 /\ d = Empty)
      BY <1>4, TickDoes
    <3>2. d \in Bucket
      BY <1>1, <2>2, <3>1
    <3> HIDE DEF d
    <3>3. Accounts(Config(u, m), d, taken[Key(u, m)], clock + 1)
      BY <1>0, <1>1, <2>1, <3>1, <3>2, AccountsTick
    <3> QED
      BY <3>3 DEF d
  <2> QED
    BY <2>1, <2>3 DEF AccountsInv
<1>5. CASE UNCHANGED quotaVars
  BY <1>5 DEF quotaVars, AccountsInv
<1> QED
  BY <1>0, <1>2, <1>3, <1>4, <1>5, QuotaSteps

\* What the accounts of a bucket say of every interval.
LEMMA AccountsBound ==
    ASSUME BucketsInv, AccountsInv, NEW t \in Tenants, NEW l \in Layer, NEW from \in 0..clock
    PROVE  TakenSince(Key(t, l), from) <= Config(t, l).capacity + Config(t, l).rate * (clock - from)
<1> DEFINE q == Config(t, l)
           b == bucket[Key(t, l)]
           f == taken[Key(t, l)]
           v == Level(q, b, clock)
           x == (clock - from) * q.rate
<1>1. /\ clock \in Int /\ clock \in 0..MaxTime /\ q \in Limits /\ b \in Bucket /\ f \in [0..MaxTime -> Int]
      /\ Accounts(q, b, f, clock) /\ (b.tokens # Unset => b.last_refill <= clock)
  BY ClockAssumption, ConfigType, KeyIs DEF BucketsInv, AccountsInv
<1>2. Since(f, clock, from) + v <= q.capacity + x
  BY <1>1 DEF Accounts
<1>3. Since(f, clock, from) = TakenSince(Key(t, l), from) /\ Since(f, clock, from) \in Int
  BY <1>1, SinceType DEF Since, TakenSince
<1>4. v \in Int /\ v >= 0
  BY <1>1, LevelIs DEF Limits
<1>5. x = q.rate * (clock - from) /\ x \in Int /\ q.capacity \in Int
  BY <1>1 DEF Limits
<1> DEFINE s == Since(f, clock, from)
<1>6. s \in Int /\ s + v <= q.capacity + x
  BY <1>2, <1>3
<1> HIDE DEF q, b, f, v, x, s
<1>7. s <= q.capacity + x
  BY <1>4, <1>5, <1>6
<1> QED
  BY <1>3, <1>5, <1>7 DEF s, q

\* WithinLimit, for all tenants, limits and lost replies, when the clocks of
\* the nodes agree and no tenant overrides the limit of the system: however
\* calls interleave, keys expire and breakers open, no interval yields more
\* tokens than the capacity and the refill of the bucket.
THEOREM LimitsHold ==
    ASSUME ClocksAgree, OneSystemLimit
    PROVE  QuotaSpec => []WithinLimit
<1>1. BucketsInv /\ AccountsInv => WithinLimit
  <2> SUFFICES ASSUME BucketsInv, AccountsInv PROVE WithinLimit
    OBVIOUS
  <2>1. ASSUME NEW t \in Tenants, NEW from \in 0..clock
        PROVE  TakenSince(Key(t, "system"), from)
                  <= Global["system"].capacity + Global["system"].rate * (clock - from)
    BY AccountsBound, LayerNames DEF OneSystemLimit
  <2> QED
    BY <2>1, AccountsBound DEF WithinLimit, SystemLimitHolds
<1>2. BucketsInv /\ [QuotaNext]_quotaVars => BucketsInv'
  BY BucketsStep
<1>3. BucketsInv /\ AccountsInv /\ [QuotaNext]_quotaVars => AccountsInv'
  BY AccountsStep
<1> QED
  BY <1>1, <1>2, <1>3, BucketsInit, AccountsInit, PTL DEF QuotaSpec

-----------------------------------------------------------------------------
(***************************************************************************)
(* Retry-After: what a tenant was told holds from the time it was told on. *)
(* A layer can serve a request at all, a breaker has refilled the cost of  *)
(* one when it closes, and so has the system's layer after the longest     *)
(* wait it names; the limits the program starts with keep to this.         *)
(***************************************************************************)
RetryFits ==
    \A t \in Tenants, l \in Layer :
        LET q == Config(t, l)
        IN  /\ q.cost <= q.capacity
            /\ l = "breaker" => q.cost <= (q.backoff * Second) * q.rate
            /\ l = "system" => q.cost <= (SystemClip * Second) * q.rate

\* Passes, of the bucket b of layer l with limits q.
Ready(l, q, b, n) ==
    /\ Level(q, b, n) >= q.cost
    /\ l = "breaker" /\ b.until # Unset => b.until <= n

\* From time a on, and not before c.
ReadyFrom(l, q, b, a, c) == \A n \in Int : n >= a /\ n >= c => Ready(l, q, b, n)

RetryInv ==
    /\ \A t \in Tenants :
          LET b == bucket[Key(t, "breaker")]
          IN  b.until # Unset =>
                /\ b.tokens # Unset => b.last_refill <= b.until
                /\ Level(Config(t, "breaker"), b, b.until) >= Config(t, "breaker").cost
    /\ DOMAIN advice = Tenants
    /\ \A t \in Tenants : advice[t] # Unset =>
          LET l == advice[t].layer
          IN  /\ l \in Layer /\ advice[t].at \in Int
              /\ ReadyFrom(l, Config(t, l), bucket[Key(t, l)], advice[t].at, clock)

\* After a wait of w ticks the bucket serves a request if it lacked no more
\* than the refill of w ticks.
LEMMA RefillServes ==
    ASSUME NEW q \in Limits, NEW b \in Bucket, NEW n \in Int, NEW m \in Int, n <= m,
           b.tokens # Unset => b.last_refill <= n, q.cost <= q.capacity,
           q.cost <= Level(q, b, n) + (m - n) * q.rate
    PROVE  Level(q, b, m) >= q.cost
<1> DEFINE v == Level(q, b, n)
           w == Level(q, b, m)
           x == (m - n) * q.rate
<1>1. w = q.capacity \/ w = v + x
  BY LevelGrows
<1>2. q.cost <= v + x
  OBVIOUS
<1> HIDE DEF v, w, x
<1>3. w >= q.cost
  BY <1>1, <1>2 DEF Limits
<1> QED
  BY <1>3 DEF w

LEMMA ReadyStays ==
    ASSUME NEW q \in Limits, NEW b \in Bucket, NEW n \in Int, NEW m \in Int, n <= m,
           b.tokens # Unset => b.last_refill <= n, q.cost <= q.capacity, Level(q, b, n) >= q.cost
    PROVE  Level(q, b, m) >= q.cost
<1> DEFINE v == Level(q, b, n)
           x == (m - n) * q.rate
<1>1. x \in Nat /\ q.cost \in Nat
  BY ProductIsNat DEF Limits
<1>2. v \in Int /\ v >= q.cost
  BY LevelIs DEF Limits
<1> HIDE DEF v, x
<1>3. q.cost <= v + x
  BY <1>1, <1>2
<1> QED
  BY <1>3, RefillServes DEF v, x

\* The seconds RetryAfter names, and the ticks they make.
LEMMA RetryAfterIs ==
    ASSUME NEW l, NEW s \in Int
    PROVE  /\ RetryAfter(l, s) \in Nat \ {0}
           /\ l # "system" => RetryAfter(l, s) >= s
           /\ RetryAfter(l, s) >= s \/ RetryAfter(l, s) >= SystemClip
<1>1. SystemClip \in Nat \ {0}
  BY ClockAssumption
<1> DEFINE x == IF l = "system" THEN Min({s, SystemClip}) ELSE s
<1>2. Min({s, SystemClip}) = IF s <= SystemClip THEN s ELSE SystemClip
  BY <1>1, SmallerOfTwo
<1>3. x \in Int /\ (l # "system" => x = s) /\ (x = s \/ x = SystemClip)
  BY <1>1, <1>2
<1>4. RetryAfter(l, s) = Max({1, x})
  BY DEF RetryAfter
<1> HIDE DEF x
<1>5. RetryAfter(l, s) = IF 1 >= x THEN 1 ELSE x
  BY <1>3, <1>4, LargerOfTwo
<1> QED
  BY <1>1, <1>3, <1>5

LEMMA PassesIs ==
    ASSUME BucketsInv, NEW t \in Tenants, NEW l \in Layer, NEW n \in Int
    PROVE  Passes(t, l, n) <=> Ready(l, Config(t, l), bucket[Key(t, l)], n)
<1>1. bucket[Key(t, l)] \in Bucket
  BY KeyIs DEF BucketsInv
<1>2. bucket[Key(t, l)].until # Unset => bucket[Key(t, l)].until \in Int
  BY <1>1 DEF Bucket
<1>3. IsOpen(t, l, n) <=> ~(l = "breaker" /\ bucket[Key(t, l)].until # Unset => bucket[Key(t, l)].until <= n)
  BY <1>2 DEF IsOpen
<1> QED
  BY <1>3, FilledIs DEF Passes, Ready

\* A breaker that opens has refilled the cost of a request when it closes.
LEMMA OpenedServes ==
    ASSUME RetryFits, BucketsInv, NEW t \in Tenants
    PROVE  LET q == Config(t, "breaker")  d == Opened(t)
           IN  /\ d.until \in Int /\ (d.tokens # Unset => d.last_refill <= d.until)
               /\ Level(q, d, d.until) >= q.cost
<1> DEFINE q == Config(t, "breaker")
           d == Opened(t)
           w == q.backoff * Second
           x == w * q.rate
<1>1. /\ q \in Limits /\ d \in Bucket /\ clock \in Int /\ d.until = clock + w
      /\ d.tokens = bucket[Key(t, "breaker")].tokens /\ d.last_refill = bucket[Key(t, "breaker")].last_refill
  BY ConfigType, OpenedIs, LayerNames, ClockAssumption DEF BucketsInv
<1>2. d.tokens # Unset => d.last_refill <= clock /\ d.last_refill \in Int
  BY <1>1, KeyIs, LayerNames DEF BucketsInv, Bucket
<1>3. w \in Nat
  BY <1>1, ClockAssumption, ProductIsNat DEF Limits
<1>4. q.cost <= q.capacity /\ q.cost <= x
  BY LayerNames DEF RetryFits
<1>5. Level(q, d, clock) \in 0..q.capacity
  BY <1>1, <1>2, LevelIs
<1>6. x \in Int /\ q.cost \in Int /\ q.capacity \in Int
  BY <1>1, <1>3 DEF Limits
<1> HIDE DEF q, d, w
<1>7. d.until - clock = w /\ clock <= d.until /\ d.until \in Int
  BY <1>1, <1>3
<1>8. (d.until - clock) * q.rate = x
  BY <1>7
<1> HIDE DEF x
<1>9. q.cost <= Level(q, d, clock) + x
  BY <1>4, <1>5, <1>6
<1>10. Level(q, d, d.until) >= q.cost
  BY <1>1, <1>2, <1>4, <1>7, <1>8, <1>9, RefillServes
<1>11. d.tokens # Unset => d.last_refill <= d.until
  BY <1>1, <1>2, <1>7
<1> QED
  BY <1>7, <1>10, <1>11 DEF q, d

\* A breaker serves from the time on at which it closes.
LEMMA ClosedServes ==
    ASSUME NEW q \in Limits, NEW b \in Bucket, b.until \in Int, q.cost <= q.capacity,
           b.tokens # Unset => b.last_refill <= b.until, Level(q, b, b.until) >= q.cost,
           NEW a \in Int, a >= b.until, NEW c
    PROVE  ReadyFrom("breaker", q, b, a, c)
<1> SUFFICES ASSUME NEW n \in Int, n >= a PROVE Ready("breaker", q, b, n)
  BY DEF ReadyFrom
<1>1. b.until <= n
  OBVIOUS
<1>2. Level(q, b, n) >= q.cost
  BY <1>1, ReadyStays
<1> QED
  BY <1>1, <1>2 DEF Ready

\* The advice of a refusal is right for the bucket the refusal leaves.
LEMMA AdvisedWell ==
    ASSUME RetryFits, BucketsInv, RetryInv, NEW t \in Tenants, NEW i \in DOMAIN Layers, Refuses(t, i)
    PROVE  LET l == Layers[i]
           IN  /\ Advice(t, l).at \in Int
               /\ ReadyFrom(l, Config(t, l), bucket'[Key(t, l)], Advice(t, l).at, clock)
<1> DEFINE l == Layers[i]
           q == Config(t, l)
           b == bucket[Key(t, l)]
           s == Wait(t, l, clock)
           r == RetryAfter(l, s)
           at == clock + r * Second
<1>1. /\ l \in Layer /\ q \in Limits /\ b \in Bucket /\ clock \in Int /\ Second \in Nat \ {0}
      /\ q.cost <= q.capacity /\ (b.tokens # Unset => b.last_refill <= clock)
  BY ConfigType, KeyIs, LayerNames, ClockAssumption DEF BucketsInv, RetryFits
<1>2. Advice(t, l).at = at
  BY DEF Advice
<1>3. /\ q.rate \in Nat \ {0} /\ q.cost \in Nat /\ q.capacity \in Nat /\ q.backoff \in Nat
  BY <1>1 DEF Limits
<1>4. CASE l = "breaker" /\ IsOpen(t, l, clock)
  <2>1. b.until # Unset /\ b.until \in Int
    BY <1>1, <1>4 DEF IsOpen, Bucket
  <2> DEFINE a == b.until - clock
  <2>2. a \in Int /\ s = CeilDiv(a, Second)
    BY <1>1, <1>4, <2>1 DEF Wait
  <2> HIDE DEF a
  <2>3. s \in Int /\ s * Second >= a
    BY <1>1, <2>2, CeilCovers
  <2> HIDE DEF s
  <2>4. r \in Int /\ s <= r
    BY <1>4, <2>3, RetryAfterIs
  <2> HIDE DEF r
  <2>5. r * Second \in Int /\ s * Second \in Int /\ r * Second >= s * Second
    BY <1>1, <2>3, <2>4, ProductGrows
  <2>6. at \in Int /\ at >= b.until
    <3> DEFINE x == r * Second
               y == s * Second
    <3>1. x \in Int /\ y \in Int /\ x >= y /\ y >= a
      BY <2>3, <2>5
    <3> HIDE DEF x, y
    <3>2. clock + x \in Int /\ clock + x >= b.until
      BY <1>1, <2>1, <2>2, <3>1 DEF a
    <3> QED
      BY <3>2 DEF x
  <2>7. bucket'[Key(t, l)] = b
    BY <1>1, <1>4, RefuseDoes DEF Opens
  <2>8. Level(q, b, b.until) >= q.cost /\ (b.tokens # Unset => b.last_refill <= b.until)
    BY <1>4, <2>1 DEF RetryInv
  <2> HIDE DEF q, b, at
  <2>9. ReadyFrom(l, q, b, at, clock)
    BY <1>1, <1>4, <2>1, <2>6, <2>8, ClosedServes
  <2> QED
    BY <1>2, <2>6, <2>7, <2>9 DEF q, b
<1>5. CASE l = "breaker" /\ ~IsOpen(t, l, clock)
  <2> DEFINE d == Opened(t)
  <2>1. bucket'[Key(t, l)] = d
    BY <1>1, <1>5, RefuseDoes DEF Opens
  <2>2. d \in Bucket /\ d.until = clock + q.backoff * Second
    BY <1>5, OpenedIs
  <2>3. d.until \in Int /\ (d.tokens # Unset => d.last_refill <= d.until) /\ Level(q, d, d.until) >= q.cost
    BY <1>5, OpenedServes
  <2>4. s = q.backoff
    BY <1>5 DEF Wait
  <2>5. r \in Int /\ q.backoff <= r
    BY <1>3, <1>5, <2>4, RetryAfterIs
  <2> HIDE DEF d, q, s, r, at
  <2>6. at \in Int /\ at >= d.until
    <3> DEFINE x == r * Second
               y == q.backoff * Second
    <3>1. x \in Int /\ y \in Int /\ x >= y
      BY <1>1, <1>3, <2>5, ProductGrows
    <3>2. at = clock + x /\ d.until = clock + y
      BY <2>2 DEF at
    <3> HIDE DEF x, y
    <3> QED
      BY <1>1, <3>1, <3>2
  <2>7. ReadyFrom(l, q, d, at, clock)
    BY <1>1, <1>5, <2>2, <2>3, <2>6, ClosedServes
  <2> QED
    BY <1>2, <2>1, <2>6, <2>7 DEF q
<1>6. CASE l # "breaker"
  <2> DEFINE v == Level(q, b, clock)
             g == q.rate * Second
             a == q.cost - v
             x == (r * Second) * q.rate
  <2>1. v \in 0..q.capacity
    BY <1>1, LevelIs
  <2>2. s = CeilDiv(a, g)
    BY <1>6, FilledIs DEF Wait, IsOpen
  <2>3. a \in Int /\ g \in Nat \ {0}
    BY <1>1, <1>3, <2>1
  <2>4. bucket'[Key(t, l)] = b
    BY <1>1, <1>6, RefuseDoes DEF Opens
  <2>5. l = "system" => q.cost <= (SystemClip * Second) * q.rate
    BY <1>1 DEF RetryFits
  <2> HIDE DEF v, a, g, q, b, s
  <2>6. s \in Int /\ s * g >= a
    BY <2>2, <2>3, CeilCovers
  <2>7. r \in Nat \ {0} /\ (r >= s \/ (l = "system" /\ r >= SystemClip))
    BY <2>6, RetryAfterIs
  <2> HIDE DEF r
  <2>8. x \in Int /\ x = r * g
    BY <1>1, <1>3, <2>7 DEF g
  <2>9. q.cost <= v + x
    <3>1. CASE r >= s
      <4> DEFINE y == s * g
                 z == r * g
      <4>1. y \in Int /\ z \in Int /\ z >= y /\ y >= a
        BY <2>3, <2>6, <2>7, <3>1, ProductGrows
      <4>2. x = z
        BY <2>8
      <4> HIDE DEF x, y, z
      <4> QED
        BY <1>3, <2>1, <4>1, <4>2 DEF a
    <3>2. CASE l = "system" /\ r >= SystemClip
      <4> DEFINE y == SystemClip * g
                 z == r * g
      <4>1. SystemClip \in Int
        BY ClockAssumption
      <4>2. y \in Int /\ z \in Int /\ z >= y
        BY <2>3, <2>7, <3>2, <4>1, ProductGrows
      <4>3. (SystemClip * Second) * q.rate = y
        BY <1>1, <1>3, <4>1 DEF g
      <4>4. x = z /\ q.cost <= y
        BY <2>5, <2>8, <3>2, <4>3
      <4> HIDE DEF x, y, z
      <4> QED
        BY <1>3, <2>1, <4>2, <4>4
    <3> QED
      BY <2>7, <3>1, <3>2
  <2>10. at \in Int /\ clock <= at /\ at - clock = r * Second
    <3> DEFINE y == r * Second
    <3>1. y \in Nat
      BY <1>1, <2>7
    <3>2. at = clock + y
      OBVIOUS
    <3> HIDE DEF y, at
    <3>3. at \in Int /\ clock <= at /\ at - clock = y
      BY <1>1, <3>1, <3>2
    <3> QED
      BY <3>3 DEF y
  <2>11. (at - clock) * q.rate = x
    BY <2>10
  <2> HIDE DEF at, x
  <2>12. Level(q, b, at) >= q.cost
    BY <1>1, <2>9, <2>10, <2>11, RefillServes DEF v
  <2>13. ASSUME NEW n \in Int, n >= at PROVE Ready(l, q, b, n)
    <3>1. b.tokens # Unset => b.last_refill <= at
      BY <1>1, <2>10 DEF Bucket
    <3>2. Level(q, b, n) >= q.cost
      BY <1>1, <2>10, <2>12, <2>13, <3>1, ReadyStays
    <3> QED
      BY <1>6, <3>2 DEF Ready
  <2>14. ReadyFrom(l, q, b, at, clock)
    BY <2>13 DEF ReadyFrom
  <2> QED
    BY <1>2, <2>4, <2>10, <2>14 DEF q, b
<1> QED
  BY <1>4, <1>5, <1>6

\* The two parts of RetryInv, of one tenant with advice a.
ClosesReady(t, b) ==
    b.until # Unset =>
        /\ b.tokens # Unset => b.last_refill <= b.until
        /\ Level(Config(t, "breaker"), b, b.until) >= Config(t, "breaker").cost

Advised(t, a, b, c) ==
    a # Unset => /\ a.layer \in Layer /\ a.at \in Int
                 /\ ReadyFrom(a.layer, Config(t, a.layer), b, a.at, c)

LEMMA RetryStep ==
    ASSUME ClocksAgree, RetryFits
    PROVE  BucketsInv /\ RetryInv /\ [QuotaNext]_quotaVars => RetryInv'
<1> SUFFICES ASSUME BucketsInv, RetryInv, [QuotaNext]_quotaVars PROVE RetryInv'
  OBVIOUS
<1>0. clock \in Int /\ "breaker" \in Layer
  BY ClockAssumption, LayerNames DEF BucketsInv
<1>1. ASSUME NEW u \in Tenants
      PROVE  /\ ClosesReady(u, bucket[Key(u, "breaker")])
             /\ advice[u] # Unset => advice[u].layer \in Layer
             /\ Advised(u, advice[u], bucket[Key(u, advice[u].layer)], clock)
  BY DEF RetryInv, ClosesReady, Advised
<1>2. ASSUME DOMAIN advice' = Tenants,
             \A u \in Tenants : ClosesReady(u, bucket'[Key(u, "breaker")]),
             \A u \in Tenants : Advised(u, advice'[u], bucket'[Key(u, advice'[u].layer)], clock')
      PROVE  RetryInv'
  BY <1>2 DEF RetryInv, ClosesReady, Advised
<1>3. ASSUME NEW t \in Tenants, NEW L \in SUBSET Layer, Charges(t, L) PROVE RetryInv'
  <2>1. clock' = clock /\ DOMAIN advice' = Tenants
    BY <1>3 DEF Charges, Advise
  <2>2. ASSUME NEW u \in Tenants PROVE ClosesReady(u, bucket'[Key(u, "breaker")])
    <3>1. CASE Takes(t, L, u, "breaker")
      <4>1. bucket'[Key(u, "breaker")] = Charged(t, "breaker", clock)
        BY <1>0, <1>3, <3>1, ChargeDoes
      <4>2. Charged(t, "breaker", clock).until = Unset
        BY DEF Charged
      <4> QED
        BY <4>1, <4>2 DEF ClosesReady
    <3>2. CASE ~Takes(t, L, u, "breaker")
      BY <1>0, <1>1, <1>3, <3>2, ChargeDoes
    <3> QED
      BY <3>1, <3>2
  <2>3. ASSUME NEW u \in Tenants
        PROVE  Advised(u, advice'[u], bucket'[Key(u, advice'[u].layer)], clock)
    <3>1. \/ advice'[u] = Unset
          \/ /\ advice'[u] = advice[u] /\ u # t
             /\ "system" \in L => advice[u].layer # "system"
      BY <1>3 DEF Charges, Advise
    <3>2. CASE advice'[u] = Unset
      BY <3>2 DEF Advised
    <3>3. CASE advice'[u] # Unset
      <4>1. advice'[u] = advice[u] /\ advice[u].layer \in Layer
        BY <1>1, <3>1, <3>3
      <4>2. ~Takes(t, L, u, advice[u].layer)
        BY <3>1, <3>3 DEF Takes
      <4>3. bucket'[Key(u, advice[u].layer)] = bucket[Key(u, advice[u].layer)]
        BY <1>3, <4>1, <4>2, ChargeDoes
      <4> QED
        BY <1>1, <4>1, <4>3
    <3> QED
      BY <3>2, <3>3
  <2> QED
    BY <1>2, <2>1, <2>2, <2>3
<1>4. ASSUME NEW t \in Tenants, NEW i \in DOMAIN Layers, Refuses(t, i) PROVE RetryInv'
  <2>1. clock' = clock /\ DOMAIN advice' = Tenants
    BY <1>4 DEF Refuses, Advise
  <2>2. ASSUME NEW u \in Tenants PROVE ClosesReady(u, bucket'[Key(u, "breaker")])
    <3>1. CASE Opens(t, i, u, "breaker")
      <4>1. bucket'[Key(u, "breaker")] = Opened(t) /\ u = t
        BY <1>0, <1>4, <3>1, RefuseDoes DEF Opens
      <4> QED
        BY <4>1, OpenedServes DEF ClosesReady
    <3>2. CASE ~Opens(t, i, u, "breaker")
      BY <1>0, <1>1, <1>4, <3>2, RefuseDoes
    <3> QED
      BY <3>1, <3>2
  <2>3. ASSUME NEW u \in Tenants
        PROVE  Advised(u, advice'[u], bucket'[Key(u, advice'[u].layer)], clock)
    <3>1. advice'[u] = IF u = t THEN advice'[t] ELSE advice[u]
      BY <1>4 DEF Refuses, Advise
    <3>2. advice'[t] = Unset \/ advice'[t] = Advice(t, Layers[i])
      BY <1>4 DEF Refuses, Advise
    <3>3. CASE advice'[u] = Unset
      BY <3>3 DEF Advised
    <3>4. CASE advice'[u] # Unset /\ u = t
      <4>1. advice'[u] = Advice(t, Layers[i]) /\ Advice(t, Layers[i]).layer = Layers[i]
        BY <3>2, <3>4 DEF Advice
      <4>2. /\ Advice(t, Layers[i]).at \in Int
            /\ ReadyFrom(Layers[i], Config(t, Layers[i]), bucket'[Key(t, Layers[i])], Advice(t, Layers[i]).at, clock)
        BY <1>4, AdvisedWell
      <4> QED
        BY <3>4, <4>1, <4>2, LayerNames DEF Advised
    <3>5. CASE advice'[u] # Unset /\ u # t
      <4>1. advice'[u] = advice[u] /\ advice[u].layer \in Layer
        BY <1>1, <3>1, <3>5
      <4>2. bucket'[Key(u, advice[u].layer)] = bucket[Key(u, advice[u].layer)]
        BY <1>4, <3>5, <4>1, RefuseDoes DEF Opens
      <4> QED
        BY <1>1, <4>1, <4>2
    <3> QED
      BY <3>3, <3>4, <3>5
  <2> QED
    BY <1>2, <2>1, <2>2, <2>3
<1>5. CASE QuotaTick
  <2>1. clock' = clock + 1 /\ advice' = advice
    BY <1>5 DEF QuotaTick
  <2>2. Empty.until = Unset /\ Empty.tokens = Unset
    BY DEF Empty
  <2>3. ASSUME NEW u \in Tenants PROVE ClosesReady(u, bucket'[Key(u, "breaker")])
    <3>1. bucket'[Key(u, "breaker")] = bucket[Key(u, "breaker")] \/ bucket'[Key(u, "breaker")] = Empty
      BY <1>0, <1>5, TickDoes
    <3>2. ClosesReady(u, Empty)
      BY <2>2 DEF ClosesReady
    <3> QED
      BY <1>1, <3>1, <3>2
  <2>4. ASSUME NEW u \in Tenants
        PROVE  Advised(u, advice[u], bucket'[Key(u, advice[u].layer)], clock + 1)
    <3>1. CASE advice[u] = Unset
      BY <3>1 DEF Advised
    <3>2. CASE advice[u] # Unset
      <4> DEFINE l == advice[u].layer
                 at == advice[u].at
                 q == Config(u, l)
                 b == bucket[Key(u, l)]
                 d == bucket'[Key(u, l)]
      <4>1. l \in Layer /\ at \in Int /\ ReadyFrom(l, q, b, at, clock)
        BY <1>1, <3>2 DEF Advised
      <4>2. d = b \/ d = Empty
        BY <1>5, <4>1, TickDoes
      <4>3. q.cost <= q.capacity /\ q \in Limits
        BY <4>1, ConfigType DEF RetryFits
      <4> HIDE DEF q, b, d, l, at
      <4>4. ReadyFrom(l, q, b, at, clock + 1)
        BY <1>0, <4>1 DEF ReadyFrom
      <4>5. ASSUME NEW n \in Int PROVE Ready(l, q, Empty, n)
        <5>1. Level(q, Empty, n) = q.capacity
          BY <2>2 DEF Level
        <5> QED
          BY <2>2, <4>3, <5>1 DEF Ready, Limits
      <4>6. ReadyFrom(l, q, d, at, clock + 1)
        BY <4>2, <4>4, <4>5 DEF ReadyFrom
      <4> QED
        BY <4>1, <4>6 DEF Advised, q, d, l, at
    <3> QED
      BY <3>1, <3>2
  <2>5. DOMAIN advice' = Tenants
    BY <2>1 DEF RetryInv
  <2> QED
    BY <1>2, <2>1, <2>3, <2>4, <2>5
<1>6. CASE UNCHANGED quotaVars
  BY <1>6 DEF quotaVars, RetryInv
<1> QED
  BY <1>0, <1>3, <1>4, <1>5, <1>6, QuotaSteps

\* RetryAfterSuffices, for all tenants, lost replies and limits that fit,
\* when the clocks of the nodes agree: the client that waits as long as the
\* refusal said is not refused by that layer again, with the wait rounded to
\* seconds and clipped for the system layer, breakers opened, and keys
\* expired meanwhile.
THEOREM RetrySuffices ==
    ASSUME ClocksAgree, RetryFits
    PROVE  QuotaSpec => []RetryAfterSuffices
<1>1. QuotaInit => RetryInv
  <2> SUFFICES ASSUME QuotaInit PROVE RetryInv
    OBVIOUS
  <2>1. ASSUME NEW t \in Tenants PROVE bucket[Key(t, "breaker")] = Empty /\ Empty.until = Unset
    BY KeyIs, LayerNames DEF QuotaInit, Empty
  <2>2. DOMAIN advice = Tenants /\ \A t \in Tenants : advice[t] = Unset
    BY DEF QuotaInit
  <2> QED
    BY <2>1, <2>2 DEF RetryInv
<1>2. BucketsInv /\ RetryInv => RetryAfterSuffices
  <2> SUFFICES ASSUME BucketsInv, RetryInv, NEW t \in Tenants, advice[t] # Unset, clock >= advice[t].at
               PROVE  Passes(t, advice[t].layer, clock)
    BY DEF RetryAfterSuffices
  <2> DEFINE l == advice[t].layer
  <2>1. l \in Layer /\ clock \in Int /\ ReadyFrom(l, Config(t, l), bucket[Key(t, l)], advice[t].at, clock)
    BY ClockAssumption DEF RetryInv, BucketsInv
  <2>2. Ready(l, Config(t, l), bucket[Key(t, l)], clock)
    BY <2>1 DEF ReadyFrom
  <2> QED
    BY <2>1, <2>2, PassesIs
<1>3. BucketsInv /\ [QuotaNext]_quotaVars => BucketsInv'
  BY BucketsStep
<1>4. BucketsInv /\ RetryInv /\ [QuotaNext]_quotaVars => RetryInv'
  BY RetryStep
<1> QED
  BY <1>1, <1>2, <1>3, <1>4, BucketsInit, PTL DEF QuotaSpec
=============================================================================
