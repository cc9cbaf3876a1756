--------------------- MODULE IdempotencyContractProofs ---------------------
(***************************************************************************)
(* Proofs about IdempotencyContract: its invariants hold for every set of  *)
(* requests and every assignment of bodies to them.                        *)
(***************************************************************************)
EXTENDS IdempotencyContract, TLAPS

\* What the answers of the contract contain.
LEMMA AnswerFields ==
    ASSUME NEW r \in Requests, NEW q \in Requests
    PROVE  /\ InFlight(r) \in Entry /\ Completed(r) \in Entry
           /\ Own(r) \in Answer /\ Replay(q) \in Answer
           /\ Conflict(r) \in Answer /\ Unavailable(r) \in Answer
BY HashAssumption
   DEF InFlight, Completed, Entry, Own, Replay, Conflict, Unavailable, Answer

\* The invariant holds initially.
LEMMA ContractInitInv == ContractInit => ContractInv
BY NoneAssumption
   DEF ContractInit, ContractInv, ContractTypeOK, LeaseHeld, AnswersGenuine,
       EntryFromOwner, HoldersAreOwners

\* Taking the lease: nobody runs the handler under a lease that has not lapsed.
LEMMA TakeInv ==
    ASSUME ContractInv, NEW r \in Requests, Take(r)
    PROVE  /\ entry' \in Entry \cup {None} /\ owners' \subseteq Requests
           /\ executing \subseteq lapsed
           /\ EntryFromOwner'
<1>1. entry' \in Entry \cup {None} /\ owners' \subseteq Requests
  BY AnswerFields DEF ContractInv, ContractTypeOK, Take
<1>2. executing \subseteq lapsed
  BY AnswerFields, NoneAssumption DEF ContractInv, ContractTypeOK, LeaseHeld, Take
<1>3. EntryFromOwner'
  BY DEF Take, EntryFromOwner, InFlight
<1> QED
  BY <1>1, <1>2, <1>3

\* Every step preserves the invariant.
LEMMA ContractNextInv == ContractInv /\ [ContractNext]_contractVars => ContractInv'
<1> SUFFICES ASSUME ContractInv, [ContractNext]_contractVars
             PROVE  ContractInv'
  OBVIOUS
<1> USE DEF ContractInv
<1>1. ASSUME NEW r \in Requests, Acquire(r) PROVE ContractInv'
  <2>1. ContractTypeOK'
    BY <1>1, TakeInv DEF ContractTypeOK, Acquire
  <2>2. LeaseHeld'
    BY <1>1, TakeInv DEF LeaseHeld, Acquire, Take, ContractTypeOK
  <2>3. AnswersGenuine'
    BY <1>1 DEF AnswersGenuine, Acquire, Take
  <2>4. EntryFromOwner'
    BY <1>1, TakeInv DEF Acquire
  <2>5. HoldersAreOwners'
    BY <1>1 DEF HoldersAreOwners, Acquire, Take
  <2> QED
    BY <2>1, <2>2, <2>3, <2>4, <2>5
<1>2. ASSUME NEW r \in Requests, Orphan(r) PROVE ContractInv'
  <2>1. ContractTypeOK'
    BY <1>2, TakeInv, AnswerFields DEF ContractTypeOK, Orphan
  <2>2. LeaseHeld'
    BY <1>2, TakeInv DEF LeaseHeld, Orphan, Take, ContractTypeOK
  <2>3. AnswersGenuine'
    BY <1>2 DEF AnswersGenuine, Orphan, Take, ContractTypeOK, Unavailable
  <2>4. EntryFromOwner'
    BY <1>2, TakeInv DEF Orphan
  <2>5. HoldersAreOwners'
    BY <1>2 DEF HoldersAreOwners, Orphan, Take
  <2> QED
    BY <2>1, <2>2, <2>3, <2>4, <2>5
<1>3. ASSUME NEW r \in Requests, Stop(r) PROVE ContractInv'
  BY <1>3 DEF Stop, ContractTypeOK, LeaseHeld, AnswersGenuine, EntryFromOwner,
              HoldersAreOwners
<1>4. ASSUME NEW r \in Requests, Settle(r) PROVE ContractInv'
  <2>1. ContractTypeOK'
    BY <1>4, AnswerFields DEF ContractTypeOK, Settle
  <2>2. LeaseHeld'
    <3> SUFFICES ASSUME NEW q \in executing, q \notin lapsed
                 PROVE  entry' = InFlight(q)
      BY <1>4 DEF LeaseHeld, Settle
    <3>1. entry = InFlight(q) /\ q # r
      BY <1>4 DEF LeaseHeld, Settle
    <3>2. entry # InFlight(r)
      BY <3>1 DEF InFlight
    <3> QED
      BY <1>4, <3>1, <3>2 DEF Settle
  <2>3. AnswersGenuine'
    BY <1>4 DEF AnswersGenuine, Settle, ContractTypeOK, Own
  <2>4. EntryFromOwner'
    BY <1>4 DEF EntryFromOwner, Settle, Completed
  <2>5. HoldersAreOwners'
    BY <1>4 DEF HoldersAreOwners, Settle
  <2> QED
    BY <2>1, <2>2, <2>3, <2>4, <2>5
<1>5. ASSUME NEW r \in Requests, Turn(r) PROVE ContractInv'
  <2>1. ContractTypeOK'
    <3>1. IsCompleted(entry) => entry.owner \in Requests
      BY DEF IsCompleted, ContractTypeOK, Entry
    <3> QED
      BY <1>5, <3>1, AnswerFields DEF ContractTypeOK, Turn
  <2>2. LeaseHeld'
    BY <1>5 DEF LeaseHeld, Turn
  <2>3. AnswersGenuine'
    <3>1. IsCompleted(entry) =>
             entry.owner \in owners /\ entry.hash = BodyHash[entry.owner]
      BY DEF IsCompleted, EntryFromOwner
    <3>2. r \notin owners
      BY <1>5 DEF Turn
    <3> QED
      BY <1>5, <3>1, <3>2
         DEF AnswersGenuine, Turn, ContractTypeOK, Replay, Conflict, Unavailable
  <2>4. EntryFromOwner' /\ HoldersAreOwners'
    BY <1>5 DEF EntryFromOwner, HoldersAreOwners, Turn
  <2> QED
    BY <2>1, <2>2, <2>3, <2>4
<1>6. ASSUME Lapse PROVE ContractInv'
  <2>1. ContractTypeOK'
    BY <1>6 DEF ContractTypeOK, Lapse, Entry
  <2>2. LeaseHeld'
    BY <1>6 DEF LeaseHeld, Lapse, InFlight
  <2>3. AnswersGenuine'
    BY <1>6 DEF AnswersGenuine, Lapse
  <2>4. EntryFromOwner' /\ HoldersAreOwners'
    BY <1>6 DEF EntryFromOwner, HoldersAreOwners, Lapse
  <2> QED
    BY <2>1, <2>2, <2>3, <2>4
<1>7. CASE UNCHANGED contractVars
  BY <1>7 DEF contractVars, ContractTypeOK, LeaseHeld, AnswersGenuine,
              EntryFromOwner, HoldersAreOwners
<1> QED
  BY <1>1, <1>2, <1>3, <1>4, <1>5, <1>6, <1>7 DEF ContractNext

(***************************************************************************)
(* For any number of requests with one key, a request runs the handler     *)
(* only while it holds the lease or after its lease lapsed.                *)
(***************************************************************************)
THEOREM LeaseIsExclusive == ContractSpec => []LeaseHeld
<1>1. ContractInv => LeaseHeld
  BY DEF ContractInv
<1> QED
  BY <1>1, ContractInitInv, ContractNextInv, PTL DEF ContractSpec

(***************************************************************************)
(* For any number of requests and bodies, a replayed response comes from a *)
(* request with the same body and a 409 from a key used with another body. *)
(***************************************************************************)
THEOREM AnswersAreGenuine == ContractSpec => []AnswersGenuine
<1>1. ContractInv => AnswersGenuine
  BY DEF ContractInv
<1> QED
  BY <1>1, ContractInitInv, ContractNextInv, PTL DEF ContractSpec
=============================================================================
