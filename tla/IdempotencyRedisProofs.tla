----------------------- MODULE IdempotencyRedisProofs -----------------------
(***************************************************************************)
(* RedisIdempotencyStore implements the contract of the idempotency layer, *)
(* for every number of requests, instances, attempts and lapses; what is   *)
(* proved of the contract then holds of the store.                         *)
(***************************************************************************)
EXTENDS IdempotencyRedis, TLAPS

\* The proofs about the contract, with the handlers the middleware runs.
CP == INSTANCE IdempotencyContractProofs WITH executing <- Executing

-----------------------------------------------------------------------------
(***************************************************************************)
(* The inductive invariant: where a request is tells whether it ever held  *)
(* the lease and whether it was answered, and the hash it read in an       *)
(* InFlight value was the hash of a request that held the lease.           *)
(***************************************************************************)
Seeking == {"acquire", "get", "register", "recheck", "enable", "wait"}
Holding == {"handler", "complete", "release"}

PcFits(r) ==
    /\ pc[r] \in Seeking => r \notin owners
    /\ pc[r] \in Holding => r \in owners
    /\ pc[r] # "done" => answer[r] = None
    /\ pc[r] \in {"register", "recheck", "enable"} => \E q \in owners : seen_hash[r] = BodyHash[q]

RedisInv ==
    /\ Contract!ContractInv
    /\ pc \in [Requests -> Seeking \cup Holding \cup {"done", "gone"}]
    /\ seen_hash \in [Requests -> Hashes \cup {None}]
    /\ \A r \in Requests : PcFits(r)

-----------------------------------------------------------------------------
(***************************************************************************)
(* The two instances of the contract are one.                              *)
(***************************************************************************)
LEMMA SameTypes ==
    /\ CP!Entry = Entry /\ CP!Answer = Answer
    /\ Contract!Entry = Entry /\ Contract!Answer = Answer
BY DEF CP!Entry, CP!Answer, Contract!Entry, Contract!Answer, Entry, Answer

LEMMA SameInv == CP!ContractInv <=> Contract!ContractInv
BY DEF CP!ContractInv, CP!ContractTypeOK, CP!LeaseHeld, CP!AnswersGenuine, CP!EntryFromOwner, CP!HoldersAreOwners,
    CP!Entry, CP!Answer, CP!InFlight,
    Contract!ContractInv, Contract!ContractTypeOK, Contract!LeaseHeld, Contract!AnswersGenuine,
    Contract!EntryFromOwner, Contract!HoldersAreOwners, Contract!Entry, Contract!Answer, Contract!InFlight

LEMMA SameInvNext == CP!ContractInv' <=> Contract!ContractInv'
BY DEF CP!ContractInv, CP!ContractTypeOK, CP!LeaseHeld, CP!AnswersGenuine, CP!EntryFromOwner, CP!HoldersAreOwners,
    CP!Entry, CP!Answer, CP!InFlight,
    Contract!ContractInv, Contract!ContractTypeOK, Contract!LeaseHeld, Contract!AnswersGenuine,
    Contract!EntryFromOwner, Contract!HoldersAreOwners, Contract!Entry, Contract!Answer, Contract!InFlight

LEMMA SameStep == [Contract!ContractNext]_Contract!contractVars => [CP!ContractNext]_CP!contractVars
BY DEF CP!ContractNext, CP!contractVars, CP!Acquire, CP!Orphan, CP!Take, CP!Stop, CP!Settle, CP!Turn, CP!Lapse,
    CP!InFlight, CP!Completed, CP!IsCompleted, CP!Own, CP!Replay, CP!Conflict, CP!Unavailable,
    Contract!ContractNext, Contract!contractVars, Contract!Acquire, Contract!Orphan, Contract!Take, Contract!Stop,
    Contract!Settle, Contract!Turn, Contract!Lapse, Contract!InFlight, Contract!Completed, Contract!IsCompleted,
    Contract!Own, Contract!Replay, Contract!Conflict, Contract!Unavailable

\* The contract's invariant, carried over to the instance the store uses.
LEMMA ContractStepInv ==
    ASSUME Contract!ContractInv, [Contract!ContractNext]_Contract!contractVars
    PROVE  Contract!ContractInv'
<1>1. None \notin CP!Entry /\ None \notin CP!Answer
  BY SameTypes, NoneAssumption
<1>2. CP!ContractInv /\ [CP!ContractNext]_CP!contractVars => CP!ContractInv'
  BY <1>1, HashAssumption, CP!ContractNextInv
<1> QED
  BY <1>2, SameInv, SameInvNext, SameStep

-----------------------------------------------------------------------------
(***************************************************************************)
(* The refinement: initial states and steps.                               *)
(***************************************************************************)
LEMMA RedisInitMaps == RedisInit => Contract!ContractInit
BY DEF RedisInit, IdempotencyInit, Contract!ContractInit, Executing

LEMMA RedisInitInv == RedisInit => RedisInv
<1> SUFFICES ASSUME RedisInit PROVE RedisInv
  OBVIOUS
<1>1. Contract!ContractInv
  <2>1. None \notin CP!Entry /\ None \notin CP!Answer
    BY SameTypes, NoneAssumption
  <2>2. CP!ContractInit
    BY RedisInitMaps DEF CP!ContractInit, Contract!ContractInit
  <2> QED
    BY <2>1, <2>2, HashAssumption, CP!ContractInitInv, SameInv
<1> QED
  BY <1>1 DEF RedisInit, IdempotencyInit, RedisInv, PcFits, Seeking, Holding

\* The requests that run the handler after a request moved.
LEMMA ExecutingMoves ==
    ASSUME NEW r \in Requests, NEW l, DOMAIN pc = Requests, Goto(r, l)
    PROVE  Executing' = IF l = "handler" THEN Executing \cup {r} ELSE Executing \ {r}
BY DEF Goto, Executing

\* Mapped steps that are one request's own.
CanTurn(r) == r \notin owners /\ answer[r] = None /\ r \notin Executing

LEMMA TurnedAway ==
    ASSUME RedisInv, NEW r \in Requests, CanTurn(r), UNCHANGED <<entry, owners, lapsed>>,
           NEW a, Return(r, a),
           \/ a = Unavailable(r)
           \/ a = Conflict(r) /\ \E q \in owners : BodyHash[q] # BodyHash[r]
           \/ IsCompleted(entry) /\ entry.hash = BodyHash[r] /\ a = Replay(entry.owner)
    PROVE  Contract!Turn(r)
<1>1. Executing' = Executing
  BY ExecutingMoves DEF RedisInv, Return, CanTurn
<1> QED
  BY <1>1 DEF CanTurn, Return, Contract!Turn, Contract!Unavailable, Contract!Conflict, Contract!Replay,
      Contract!IsCompleted, Unavailable, Conflict, Replay, IsCompleted

LEMMA Settled ==
    ASSUME RedisInv, NEW r \in Requests, pc[r] \in {"complete", "release"}, UNCHANGED <<owners, lapsed>>,
           NEW l \in {"release", "done", "gone"}, Goto(r, l),
           answer' \in {answer, [answer EXCEPT ![r] = Own(r)]},
           entry' = entry \/ (HoldsLease(r) /\ entry' \in {Completed(r), None})
    PROVE  Contract!Settle(r)
<1>1. Executing' = Executing /\ r \notin Executing
  BY ExecutingMoves DEF RedisInv, Executing
<1>2. r \in owners /\ answer[r] = None
  BY DEF RedisInv, PcFits, Holding
<1> QED
  BY <1>1, <1>2 DEF Contract!Settle, Contract!InFlight, Contract!Completed, Contract!Own, HoldsLease, InFlight,
      Completed, Own

LEMMA ProgressMaps ==
    ASSUME RedisInv, NEW r \in Requests, Progress(r)
    PROVE  [Contract!ContractNext]_Contract!contractVars
<1> DEFINE Step == [Contract!ContractNext]_Contract!contractVars
<1> USE DEF Contract!ContractNext
<1>0. pc[r] \in Seeking => CanTurn(r)
  BY DEF RedisInv, PcFits, CanTurn, Executing, Seeking
<1>s. ASSUME NEW l, Goto(r, l), l # "handler", pc[r] # "handler", UNCHANGED <<entry, answer, owners, lapsed>>
      PROVE  Step
  <2>1. Executing' = Executing
    BY <1>s, ExecutingMoves DEF RedisInv, Executing
  <2> QED
    BY <1>s, <2>1 DEF Contract!contractVars
<1>1. CASE SetNX(r)
  <2>1. CASE entry = None /\ TakeLease(r)
    <3>1. Executing' = Executing \cup {r}
      BY <2>1, ExecutingMoves DEF RedisInv, TakeLease
    <3>2. r \notin owners
      BY <1>0, <1>1 DEF SetNX, BeginAttempt, Seeking, CanTurn
    <3>3. Contract!Acquire(r)
      BY <2>1, <3>1, <3>2 DEF TakeLease, Contract!Acquire, Contract!Take, Contract!InFlight, InFlight
    <3> QED
      BY <3>3
  <2>2. CASE Goto(r, "get") /\ UNCHANGED <<entry, answer, historyVars>>
    BY <1>s, <1>1, <2>2 DEF SetNX, BeginAttempt, historyVars
  <2> QED
    BY <1>1, <2>1, <2>2 DEF SetNX
<1>2. CASE SetFails(r)
  <2>0. CanTurn(r) /\ Return(r, Unavailable(r)) /\ lapsed' = lapsed
    BY <1>0, <1>2 DEF SetFails, BeginAttempt, Seeking
  <2>1. CASE UNCHANGED <<entry, owners>>
    BY <2>0, <2>1, TurnedAway
  <2>2. CASE entry = None /\ entry' = InFlight(r) /\ owners' = owners \cup {r}
    <3>1. Executing' = Executing
      BY <2>0, ExecutingMoves DEF RedisInv, Return, CanTurn
    <3>2. Contract!Orphan(r)
      BY <2>0, <2>2, <3>1 DEF CanTurn, Return, Contract!Orphan, Contract!Take, Contract!InFlight, InFlight,
          Contract!Unavailable, Unavailable
    <3> QED
      BY <3>2
  <2> QED
    BY <1>2, <2>1, <2>2 DEF SetFails
<1>3. CASE Get(r)
  <2>0. pc[r] = "get" /\ CanTurn(r) /\ UNCHANGED <<entry, owners, lapsed>>
    BY <1>0, <1>3 DEF Get, Seeking, historyVars
  <2>1. CASE Goto(r, "acquire") /\ UNCHANGED answer
    BY <1>s, <2>0, <2>1
  <2>2. CASE Goto(r, "register") /\ UNCHANGED answer
    BY <1>s, <2>0, <2>2
  <2>3. CASE AnswerFromRecord(r)
    <3>1. CASE entry.hash = BodyHash[r]
      BY <2>0, <2>3, <3>1, TurnedAway DEF AnswerFromRecord
    <3>2. CASE entry.hash # BodyHash[r]
      <4>1. entry.owner \in owners /\ BodyHash[entry.owner] # BodyHash[r]
        BY <2>3, <3>2 DEF RedisInv, Contract!ContractInv, Contract!EntryFromOwner, AnswerFromRecord, IsCompleted
      <4> QED
        BY <2>0, <2>3, <3>2, <4>1, TurnedAway DEF AnswerFromRecord
    <3> QED
      BY <3>1, <3>2
  <2> QED
    BY <1>3, <2>1, <2>2, <2>3 DEF Get
<1>4. CASE GetFails(r) \/ ((GiveUp(r) \/ WaitTimeout(r)) /\ UNCHANGED waitVars)
  <2>1. CanTurn(r) /\ Return(r, Unavailable(r)) /\ UNCHANGED <<entry, owners, lapsed>>
    BY <1>0, <1>4 DEF GetFails, GiveUp, WaitTimeout, Seeking, historyVars
  <2> QED
    BY <2>1, TurnedAway
<1>5. CASE Register(r) \/ Recheck(r)
  BY <1>s, <1>5 DEF Register, Recheck, historyVars
<1>6. CASE Enable(r)
  <2>0. pc[r] = "enable" /\ CanTurn(r) /\ UNCHANGED <<entry, owners, lapsed>>
    BY <1>0, <1>6 DEF Enable, Seeking, historyVars
  <2>1. CASE seen_hash[r] # BodyHash[r]
    <3>1. \E q \in owners : BodyHash[q] # BodyHash[r]
      BY <2>0, <2>1 DEF RedisInv, PcFits
    <3> QED
      BY <1>6, <2>0, <2>1, <3>1, TurnedAway DEF Enable
  <2>2. CASE seen_hash[r] = BodyHash[r]
    BY <1>s, <1>6, <2>0, <2>2 DEF Enable
  <2> QED
    BY <2>1, <2>2
<1>7. CASE Complete(r)
  <2>1. CASE StoreResponse(r) /\ Return(r, Own(r))
    <3>1. Contract!Settle(r)
      BY <1>7, <2>1, Settled DEF Complete, StoreResponse, Return, historyVars
    <3> QED
      BY <3>1
  <2>2. CASE Goto(r, "release") /\ UNCHANGED <<entry, listener, answer>>
    BY <1>s, <1>7, <2>2 DEF Complete, historyVars
  <2> QED
    BY <1>7, <2>1, <2>2 DEF Complete
<1>8. CASE CompleteFails(r)
  <2>1. Contract!Settle(r)
    BY <1>8, Settled DEF CompleteFails, StoreResponse, historyVars
  <2> QED
    BY <2>1
<1>9. CASE Release(r)
  <2>1. Contract!Settle(r)
    BY <1>9, Settled DEF Release, FreeKey, Return, historyVars
  <2> QED
    BY <2>1
<1>10. CASE HandlerReturns(r) /\ UNCHANGED waitVars
  <2>1. r \in Executing /\ Executing' = Executing \ {r}
    BY <1>10, ExecutingMoves DEF RedisInv, HandlerReturns, Executing
  <2>2. Contract!Stop(r)
    BY <1>10, <2>1 DEF HandlerReturns, historyVars, Contract!Stop
  <2> QED
    BY <2>2
<1> QED
  BY <1>1, <1>2, <1>3, <1>4, <1>5, <1>6, <1>7, <1>8, <1>9, <1>10 DEF Progress

LEMMA CancelMaps ==
    ASSUME RedisInv, NEW r \in Requests, Cancel(r)
    PROVE  [Contract!ContractNext]_Contract!contractVars
<1> USE DEF Contract!ContractNext
<1>0. Goto(r, "gone") /\ UNCHANGED <<answer, owners, lapsed>>
  BY DEF Cancel, Cancelled, historyVars
<1>1. CASE pc[r] \in {"complete", "release"}
  <2>1. Contract!Settle(r)
    BY <1>0, <1>1, Settled DEF Cancel, StoreResponse, FreeKey
  <2> QED
    BY <2>1
<1>2. CASE pc[r] = "handler"
  <2>1. r \in Executing /\ Executing' = Executing \ {r}
    BY <1>0, <1>2, ExecutingMoves DEF RedisInv, Executing
  <2>2. Contract!Stop(r)
    BY <1>0, <1>2, <2>1 DEF Cancel, Contract!Stop
  <2> QED
    BY <2>2
<1>3. CASE pc[r] \notin {"complete", "release", "handler"}
  <2>1. Executing' = Executing
    BY <1>0, <1>3, ExecutingMoves DEF RedisInv, Executing
  <2> QED
    BY <1>0, <1>3, <2>1 DEF Cancel, Contract!contractVars
<1> QED
  BY <1>1, <1>2, <1>3

\* What the listeners and the time to live do.
LEMMA BackgroundMaps ==
    ASSUME RedisInv,
           \/ \E i \in Instances : Subscribe(i) \/ SubscribeFails(i) \/ Message(i) \/ LeaveLoop(i) \/ StopListener(i)
           \/ Expire
           \/ UNCHANGED redisVars
    PROVE  [Contract!ContractNext]_Contract!contractVars
<1>1. ASSUME NEW i \in Instances, NotifyWaiters(i) PROVE Executing' = Executing
  BY <1>1 DEF NotifyWaiters, Executing
<1>2. ASSUME pc' = pc PROVE Executing' = Executing
  BY <1>2 DEF Executing
<1>3. ASSUME NEW i \in Instances,
             Subscribe(i) \/ SubscribeFails(i) \/ Message(i) \/ LeaveLoop(i) \/ StopListener(i)
      PROVE  UNCHANGED Contract!contractVars
  BY <1>1, <1>2, <1>3 DEF Subscribe, SubscribeFails, Message, LeaveLoop, StopListener, requestVars, historyVars,
      Contract!contractVars
<1>4. CASE Expire
  <2>1. Contract!Lapse
    BY <1>2, <1>4 DEF Expire, LapseEntry, requestVars, Contract!Lapse
  <2> QED
    BY <2>1 DEF Contract!ContractNext
<1>5. CASE UNCHANGED redisVars
  BY <1>2, <1>5 DEF redisVars, requestVars, historyVars, Contract!contractVars
<1> QED
  BY <1>3, <1>4, <1>5

LEMMA RedisStepMaps ==
    RedisInv /\ [RedisNext]_redisVars => [Contract!ContractNext]_Contract!contractVars
BY ProgressMaps, CancelMaps, BackgroundMaps DEF RedisNext

-----------------------------------------------------------------------------
(***************************************************************************)
(* The invariant is inductive, and the theorems.                           *)
(***************************************************************************)
\* A move of one request keeps PcFits for all when it does for that request.
LEMMA MoveFits ==
    ASSUME RedisInv, NEW r \in Requests, NEW l \in Seeking \cup Holding \cup {"done", "gone"},
           pc' = [pc EXCEPT ![r] = l], owners' \in {owners, owners \cup {r}},
           seen_hash' \in [Requests -> Hashes \cup {None}],
           \A q \in Requests \ {r} : answer'[q] = answer[q] /\ seen_hash'[q] = seen_hash[q],
           l \in Seeking => r \notin owners',
           l \in Holding => r \in owners',
           l # "done" => answer'[r] = None,
           l \in {"register", "recheck", "enable"} => \E q \in owners' : seen_hash'[r] = BodyHash[q]
    PROVE  /\ pc' \in [Requests -> Seeking \cup Holding \cup {"done", "gone"}]
           /\ seen_hash' \in [Requests -> Hashes \cup {None}]
           /\ \A q \in Requests : PcFits(q)'
<1>1. pc' \in [Requests -> Seeking \cup Holding \cup {"done", "gone"}]
  BY DEF RedisInv
<1>2. PcFits(r)'
  BY DEF RedisInv, PcFits
<1>3. ASSUME NEW q \in Requests \ {r} PROVE PcFits(q)'
  <2>1. pc'[q] = pc[q] /\ (q \in owners' <=> q \in owners) /\ owners \subseteq owners'
    BY DEF RedisInv
  <2> QED
    BY <2>1 DEF RedisInv, PcFits
<1> QED
  BY <1>1, <1>2, <1>3

LEMMA ProgressFits ==
    ASSUME RedisInv, NEW r \in Requests, Progress(r) \/ Cancel(r)
    PROVE  /\ pc' \in [Requests -> Seeking \cup Holding \cup {"done", "gone"}]
           /\ seen_hash' \in [Requests -> Hashes \cup {None}]
           /\ \A q \in Requests : PcFits(q)'
<1> DEFINE Goal == /\ pc' \in [Requests -> Seeking \cup Holding \cup {"done", "gone"}]
                   /\ seen_hash' \in [Requests -> Hashes \cup {None}]
                   /\ \A q \in Requests : PcFits(q)'
<1>0. /\ answer \in [Requests -> Answer \cup {None}] /\ PcFits(r)
      /\ seen_hash \in [Requests -> Hashes \cup {None}]
  BY SameTypes DEF RedisInv, Contract!ContractInv, Contract!ContractTypeOK
\* The request returns, gives up or is answered.
<1>1. ASSUME NEW a, Return(r, a), owners' \in {owners, owners \cup {r}}, seen_hash' = seen_hash PROVE Goal
  <2>1. \A q \in Requests \ {r} : answer'[q] = answer[q]
    BY <1>0, <1>1 DEF Return
  <2> QED
    BY <1>0, <1>1, <2>1, MoveFits DEF Return, Goto, Seeking, Holding
\* It goes on, neither answered nor given the lease.
<1>2. ASSUME NEW l \in Seeking \cup Holding \cup {"gone"}, Goto(r, l), UNCHANGED <<answer, owners, seen_hash>>,
             pc[r] # "done",
             l \in Seeking => pc[r] \in Seeking, l \in Holding => pc[r] \in Holding,
             l \in {"register", "recheck", "enable"} => pc[r] \in {"register", "recheck", "enable"}
      PROVE  Goal
  BY <1>0, <1>2, MoveFits DEF Goto, PcFits, Seeking, Holding
<1>3. CASE SetNX(r)
  <2>1. CASE TakeLease(r)
    BY <1>0, <1>3, <2>1, MoveFits DEF SetNX, BeginAttempt, TakeLease, Goto, waitVars, PcFits, Seeking, Holding
  <2>2. CASE Goto(r, "get") /\ UNCHANGED <<entry, answer, historyVars>>
    BY <1>2, <1>3, <2>2 DEF SetNX, BeginAttempt, waitVars, historyVars, Seeking, Holding
  <2> QED
    BY <1>3, <2>1, <2>2 DEF SetNX
<1>4. CASE SetFails(r) \/ GetFails(r) \/ ((GiveUp(r) \/ WaitTimeout(r)) /\ UNCHANGED waitVars) \/ Release(r)
  BY <1>1, <1>4 DEF SetFails, GetFails, GiveUp, WaitTimeout, Release, waitVars, historyVars
<1>5. CASE Get(r)
  <2>1. CASE AnswerFromRecord(r) /\ UNCHANGED seen_hash
    BY <1>1, <1>5, <2>1 DEF Get, AnswerFromRecord, historyVars
  <2>2. CASE Goto(r, "acquire") /\ UNCHANGED <<answer, seen_hash>>
    BY <1>2, <1>5, <2>2 DEF Get, historyVars, Seeking, Holding
  <2>3. CASE /\ entry # None /\ Goto(r, "register")
             /\ seen_hash' = [seen_hash EXCEPT ![r] = entry.hash] /\ UNCHANGED answer
    <3>1. entry.owner \in owners /\ entry.hash = BodyHash[entry.owner] /\ entry.hash \in Hashes
      BY <2>3, SameTypes DEF RedisInv, Contract!ContractInv, Contract!EntryFromOwner, Contract!ContractTypeOK, Entry
    <3>2. /\ seen_hash' \in [Requests -> Hashes \cup {None}] /\ seen_hash'[r] = BodyHash[entry.owner]
          /\ \A q \in Requests \ {r} : seen_hash'[q] = seen_hash[q]
      BY <1>0, <2>3, <3>1
    <3> QED
      BY <1>0, <1>5, <2>3, <3>1, <3>2, MoveFits DEF Get, Goto, historyVars, PcFits, Seeking, Holding
  <2> QED
    BY <1>5, <2>1, <2>2, <2>3 DEF Get
<1>6. CASE Register(r) \/ Recheck(r)
  BY <1>2, <1>6 DEF Register, Recheck, historyVars, Seeking, Holding
<1>7. CASE Enable(r)
  <2>1. CASE Return(r, Conflict(r))
    BY <1>1, <1>7, <2>1 DEF Enable, historyVars, waitVars
  <2>2. CASE Goto(r, IF r \in permit THEN "acquire" ELSE "wait") /\ UNCHANGED answer
    BY <1>2, <1>7, <2>2 DEF Enable, historyVars, waitVars, Seeking, Holding
  <2> QED
    BY <1>7, <2>1, <2>2 DEF Enable
<1>8. CASE Complete(r)
  <2>1. CASE Return(r, Own(r))
    BY <1>1, <1>8, <2>1 DEF Complete, historyVars
  <2>2. CASE Goto(r, "release") /\ UNCHANGED answer
    BY <1>2, <1>8, <2>2 DEF Complete, historyVars, Seeking, Holding
  <2> QED
    BY <1>8, <2>1, <2>2 DEF Complete
<1>9. CASE CompleteFails(r) \/ (HandlerReturns(r) /\ UNCHANGED waitVars)
  BY <1>2, <1>9 DEF CompleteFails, HandlerReturns, historyVars, waitVars, Seeking, Holding
<1>10. CASE Cancel(r)
  BY <1>2, <1>10 DEF Cancel, Cancelled, historyVars, Seeking, Holding
<1> QED
  BY <1>3, <1>4, <1>5, <1>6, <1>7, <1>8, <1>9, <1>10 DEF Progress

LEMMA RedisInvStep == RedisInv /\ [RedisNext]_redisVars => RedisInv'
<1> SUFFICES ASSUME RedisInv, [RedisNext]_redisVars PROVE RedisInv'
  OBVIOUS
<1>1. Contract!ContractInv'
  BY RedisStepMaps, ContractStepInv DEF RedisInv
<1>2. ASSUME NEW r \in Requests, Progress(r) \/ Cancel(r) PROVE RedisInv'
  BY <1>1, <1>2, ProgressFits DEF RedisInv
<1>3. ASSUME UNCHANGED <<answer, owners, seen_hash>>,
             pc' \in [Requests -> Seeking \cup Holding \cup {"done", "gone"}],
             \A q \in Requests : pc'[q] = pc[q] \/ (pc[q] = "wait" /\ pc'[q] = "acquire")
      PROVE  RedisInv'
  BY <1>1, <1>3 DEF RedisInv, PcFits, Seeking, Holding
<1>4. ASSUME NEW i \in Instances, NotifyWaiters(i), UNCHANGED <<answer, historyVars, seen_hash>> PROVE RedisInv'
  <2>1. /\ pc' \in [Requests -> Seeking \cup Holding \cup {"done", "gone"}]
        /\ \A q \in Requests : pc'[q] = pc[q] \/ (pc[q] = "wait" /\ pc'[q] = "acquire")
    BY <1>4 DEF NotifyWaiters, RedisInv, Seeking
  <2> QED
    BY <1>3, <1>4, <2>1 DEF historyVars
<1>5. ASSUME NEW i \in Instances, SubscribeFails(i) \/ Message(i) PROVE RedisInv'
  BY <1>4, <1>5 DEF SubscribeFails, Message
<1>6. ASSUME \/ \E i \in Instances : Subscribe(i) \/ LeaveLoop(i) \/ StopListener(i)
             \/ Expire
             \/ UNCHANGED redisVars
      PROVE  RedisInv'
  <2>1. UNCHANGED <<answer, owners, seen_hash, pc>>
    BY <1>6 DEF Subscribe, LeaveLoop, StopListener, Expire, requestVars, historyVars, waitVars, redisVars
  <2>2. pc \in [Requests -> Seeking \cup Holding \cup {"done", "gone"}]
    BY DEF RedisInv
  <2> QED
    BY <1>3, <2>1, <2>2
<1> QED
  BY <1>2, <1>5, <1>6 DEF RedisNext

\* ImplementsContract, step by step and for any number of instances: every
\* interleaving of SET NX, the Lua scripts, lost replies, cancellations and
\* expiry is a behaviour of the contract.
THEOREM RedisImplementsContract == RedisSpec => ImplementsContract
<1>1. RedisInv /\ [RedisNext]_redisVars => [Contract!ContractNext]_Contract!contractVars
  BY RedisStepMaps
<1> QED
  BY <1>1, RedisInitMaps, RedisInitInv, RedisInvStep, PTL DEF RedisSpec, ImplementsContract, Contract!ContractSpec

\* RunningHoldsLease: whatever is lost or cancelled, a handler runs only under
\* the lease of the key or after that lease's time to live.
THEOREM RedisLeaseIsExclusive == RedisSpec => []RunningHoldsLease
<1>1. RedisInv => RunningHoldsLease
  BY DEF RedisInv, Contract!ContractInv, RunningHoldsLease
<1> QED
  BY <1>1, RedisInitInv, RedisInvStep, PTL DEF RedisSpec

\* AnswersGenuine: a replay comes from another request with the same body that
\* held the lease, a 409 from a key used with another body, although the hash
\* is read long before the answer is given.
THEOREM RedisAnswersGenuine == RedisSpec => []AnswersGenuine
<1>1. RedisInv => AnswersGenuine
  BY DEF RedisInv, Contract!ContractInv, AnswersGenuine
<1> QED
  BY <1>1, RedisInitInv, RedisInvStep, PTL DEF RedisSpec
=============================================================================
