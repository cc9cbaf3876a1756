------------------------ MODULE RedisConsumerProofs ------------------------
(***************************************************************************)
(* For any number of shards, consumers, entries and failures, and whatever *)
(* cannot be decoded: an entry the group of a shard has moved past is      *)
(* pending or was processed.                                               *)
(***************************************************************************)
EXTENDS RedisConsumer, FiniteSetTheorems, WellFoundedInduction, TLAPS

USE ShardAssumption, CountAssumption

-----------------------------------------------------------------------------
(***************************************************************************)
(* Facts about the numbers and sets a call works with.                     *)
(***************************************************************************)
\* A shard index is taken modulo SHARD_COUNT.
LEMMA ModIsShard ==
    ASSUME NEW n \in Nat
    PROVE  n % ShardCount \in Shards
BY DEF Shards

LEMMA DeliveriesFinite ==
    ASSUME NEW D \in SUBSET Delivery
    PROVE  IsFiniteSet(D) /\ Cardinality(D) \in Nat
<1>1. IsFiniteSet(Shards) /\ IsFiniteSet(Ids)
  BY FS_Interval DEF Shards, Ids
<1>2. IsFiniteSet(Delivery)
  BY <1>1, FS_Product DEF Delivery
<1> QED BY <1>2, FS_Subset, FS_CardinalityType

\* A non-empty set of numbers up to k has a largest element: the one whose
\* distance from k is smallest.
LEMMA MaxIsLargest ==
    ASSUME NEW k \in Nat, NEW S \in SUBSET (1..k), S # {}
    PROVE  Max(S) \in S /\ \A e \in S : e <= Max(S)
<1> DEFINE T == {k - e : e \in S}
<1>0. \A e \in S : e \in Nat /\ 1 <= e /\ e <= k
  OBVIOUS
<1>1. T \subseteq Nat /\ T # {}
  <2>1. \A e \in S : k - e \in Nat
    BY <1>0
  <2>2. PICK e \in S : TRUE
    OBVIOUS
  <2>3. k - e \in T
    OBVIOUS
  <2> QED BY <2>1, <2>3
<1>2. PICK t \in T : \A u \in T : ~(<<u, t>> \in OpToRel(<, Nat))
  <2> HIDE DEF T
  <2> QED BY <1>1, WFMin, NatLessThanWellFounded
<1>3. \A u \in T : ~(u < t)
  BY <1>1, <1>2 DEF OpToRel
<1>4. PICK m \in S : t = k - m
  OBVIOUS
<1>5. \A e \in S : m >= e
  <2> TAKE e \in S
  <2>1. k - e \in T
    OBVIOUS
  <2> QED BY <1>0, <1>3, <1>4, <2>1
<1>6. Max(S) \in S /\ \A e \in S : Max(S) >= e
  BY <1>5 DEF Max
<1> QED BY <1>6

\* With an entry, Smallest has every smaller entry of the set.
LEMMA SmallestIsClosed ==
    ASSUME NEW k \in Nat, NEW S \in SUBSET (1..k), NEW n \in Int,
           NEW m \in Smallest(S, n), NEW e \in S, e < m
    PROVE  e \in Smallest(S, n)
<1> DEFINE below(x) == {d \in S : d < x}
<1>1. IsFiniteSet(S)
  <2>1. IsFiniteSet(1..k)
    BY FS_Interval
  <2> QED BY <2>1, FS_Subset
<1>2. below(e) \in SUBSET below(m) /\ below(m) \in SUBSET S
  <2>1. m \in S /\ \A d \in S : d \in Nat
    BY DEF Smallest
  <2>2. \A d \in S : d < e => d < m
    BY <2>1
  <2> QED BY <2>2
<1>3. IsFiniteSet(below(m)) /\ IsFiniteSet(below(e)) /\ Cardinality(below(e)) <= Cardinality(below(m))
  BY <1>1, <1>2, FS_Subset
<1>4. Cardinality(below(e)) \in Nat /\ Cardinality(below(m)) \in Nat
  BY <1>3, FS_CardinalityType
<1>5. Cardinality(below(m)) < n
  BY DEF Smallest
<1> QED BY <1>3, <1>4, <1>5 DEF Smallest

-----------------------------------------------------------------------------
(***************************************************************************)
(* The types the proof needs.  They are proved together with NothingLost:  *)
(* which entry a reply is about comes from the scan over the shards.       *)
(***************************************************************************)
Groups == [last : 0..MaxEntries, pel : SUBSET Ids]
Calls ==
    [op : {"poll", "claim"}, step : {"ensure", "scan", "block"}, start : Shards, i : Nat,
     retried : BOOLEAN, got : SUBSET Delivery]

ConsumerTypes ==
    /\ stream \in [Shards -> 0..MaxEntries]
    /\ group \in [Shards -> Groups \cup {None}]
    /\ next_shard \in [Consumers -> Shards]
    /\ call \in [Consumers -> Calls \cup {None}]
    /\ held \in [Consumers -> SUBSET Delivery]

LostInv == ConsumerTypes /\ NothingLost

\* XREADGROUP makes a run of entries pending, up to the new last delivered id.
LEMMA ReadLosesNothing ==
    ASSUME LostInv, NEW s \in Shards, group[s] # None, NEW n \in Int,
           Read(s, NewEntries(s, n)), UNCHANGED done
    PROVE  group' \in [Shards -> Groups \cup {None}] /\ NothingLost'
<1> DEFINE S == {id \in 1..stream[s] : id > group[s].last}
           ids == Smallest(S, n)
           g == [last |-> IF ids = {} THEN group[s].last ELSE Max(ids), pel |-> group[s].pel \cup ids]
<1> USE DEF LostInv, ConsumerTypes
<1>1. group[s] \in Groups /\ stream[s] \in Nat /\ stream[s] <= MaxEntries
  OBVIOUS
<1>2. ids \in SUBSET S /\ S \in SUBSET (1..stream[s]) /\ ids \in SUBSET (1..stream[s])
  BY DEF Smallest
<1>3. ids # {} => Max(ids) \in ids /\ \A e \in ids : e <= Max(ids)
  BY <1>1, <1>2, MaxIsLargest
<1>4. group' = [group EXCEPT ![s] = g]
  BY DEF Read, NewEntries
<1>5. g \in Groups
  <2>1. ids \in SUBSET Ids
    BY <1>1, <1>2 DEF Ids
  <2>2. ids # {} => Max(ids) \in 0..MaxEntries
    BY <1>1, <1>2, <1>3
  <2> HIDE DEF ids
  <2> QED BY <1>1, <2>1, <2>2 DEF Groups
<1>6. \A id \in 1..g.last : id \in g.pel \/ <<s, id>> \in done
  <2> TAKE id \in 1..g.last
  <2>1. CASE id <= group[s].last
    <3>1. id \in 1..group[s].last
      BY <1>1, <1>5, <2>1 DEF Groups
    <3> QED BY <3>1 DEF NothingLost
  <2>2. CASE id > group[s].last
    <3>1. ids # {} /\ g.last = Max(ids)
      <4> HIDE DEF ids
      <4> QED BY <1>1, <2>2 DEF Groups
    <3>2. Max(ids) \in 1..stream[s] /\ id <= Max(ids)
      BY <1>2, <1>3, <3>1
    <3>3. id \in S
      BY <1>1, <2>2, <3>2
    <3>4. id \in ids
      <4>1. CASE id = Max(ids)
        BY <1>3, <3>1, <4>1
      <4>2. CASE id < Max(ids)
        <5> HIDE DEF S
        <5> QED BY <1>1, <1>2, <1>3, <3>1, <3>3, <4>2, SmallestIsClosed
      <4> QED BY <3>2, <4>1, <4>2
    <3> QED BY <3>4
  <2> QED BY <1>1, <1>5, <2>1, <2>2 DEF Groups
<1> HIDE DEF g
<1>7. group' \in [Shards -> Groups \cup {None}]
  BY <1>4, <1>5
<1>8. NothingLost'
  BY <1>4, <1>6 DEF NothingLost
<1> QED BY <1>7, <1>8

\* XGROUP CREATE with "0": a fresh group has moved past nothing.
LEMMA CreatedLosesNothing ==
    ASSUME StartId = "0", LostInv, NEW S, group' = Created(S), UNCHANGED done
    PROVE  group' \in [Shards -> Groups \cup {None}] /\ NothingLost'
<1> USE DEF LostInv, ConsumerTypes
<1>1. \A s \in Shards : FreshGroup(s) \in Groups /\ FreshGroup(s).last = 0
  BY DEF FreshGroup, Groups
<1>2. \A s \in Shards : group'[s] = FreshGroup(s) \/ group'[s] = group[s]
  BY DEF Created
<1>3. group' \in [Shards -> Groups \cup {None}]
  BY <1>1 DEF Created
<1>4. NothingLost'
  BY <1>1, <1>2 DEF NothingLost
<1> QED BY <1>3, <1>4

-----------------------------------------------------------------------------
(***************************************************************************)
(* The control of a call keeps the types.                                  *)
(***************************************************************************)
CallTypes == call \in [Consumers -> Calls \cup {None}] /\ held \in [Consumers -> SUBSET Delivery]

LEMMA EnterScanTypes ==
    ASSUME ConsumerTypes, NEW c \in Consumers, NEW op \in {"poll", "claim"}, EnterScan(c, op)
    PROVE  /\ next_shard' \in [Consumers -> Shards]
           /\ call' \in [Consumers -> Calls \cup {None}]
<1>1. next_shard[c] \in Shards /\ next_shard[c] \in Nat
  BY DEF ConsumerTypes, Shards
<1>2. (next_shard[c] + 1) % ShardCount \in Shards
  BY <1>1, ModIsShard
<1>3. [op |-> op, step |-> "scan", start |-> next_shard[c], i |-> 0, retried |-> FALSE, got |-> {}] \in Calls
  BY <1>1 DEF Calls
<1> QED BY <1>2, <1>3 DEF EnterScan, ConsumerTypes

LEMMA NoGroupTypes ==
    ASSUME ConsumerTypes, NEW c \in Consumers, call[c] # None, NoGroup(c)
    PROVE  call' \in [Consumers -> Calls \cup {None}]
<1>1. call[c] \in Calls
  BY DEF ConsumerTypes
<1>2. [[call[c] EXCEPT !.step = "ensure"] EXCEPT !.retried = TRUE] \in Calls
  BY <1>1 DEF Calls
<1> QED BY <1>1, <1>2 DEF NoGroup, ConsumerTypes, Calls

LEMMA ShardOfCall ==
    ASSUME ConsumerTypes, NEW c \in Consumers, call[c] # None
    PROVE  Shard(c) \in Shards /\ Remaining(c) \in Int
<1>1. call[c] \in Calls
  BY DEF ConsumerTypes
<1>2. call[c].start + call[c].i \in Nat
  BY <1>1 DEF Calls, Shards
<1>3. Cardinality(call[c].got) \in Nat
  BY <1>1, DeliveriesFinite DEF Calls
<1> QED BY <1>2, <1>3, ModIsShard DEF Shard, Remaining

LEMMA AdvanceTypes ==
    ASSUME ConsumerTypes, NEW c \in Consumers, call[c] # None,
           NEW D \in SUBSET Delivery, Advance(c, D)
    PROVE  CallTypes'
<1> DEFINE got == call[c].got \cup D
<1>1. call[c] \in Calls /\ got \in SUBSET Delivery
  BY DEF ConsumerTypes, Calls
<1>2. CASE Return(c, got)
  BY <1>1, <1>2 DEF Return, ConsumerTypes, CallTypes
<1>3. CASE /\ call' = [call EXCEPT ![c].step = "block", ![c].i = ShardCount, ![c].retried = FALSE]
           /\ UNCHANGED held
  BY <1>1, <1>3 DEF Calls, ConsumerTypes, CallTypes
<1>4. CASE /\ call' = [call EXCEPT ![c].i = @ + 1, ![c].got = got, ![c].retried = FALSE]
           /\ UNCHANGED held
  <2> HIDE DEF got
  <2> DEFINE n == call[c].i + 1
  <2>1. n \in Nat
    BY <1>1 DEF Calls
  <2>2. call' = [call EXCEPT ![c] = [call[c] EXCEPT !.i = n, !.got = got, !.retried = FALSE]]
    BY <1>4
  <2> HIDE DEF n
  <2>3. [call[c] EXCEPT !.i = n, !.got = got, !.retried = FALSE] \in Calls
    BY <1>1, <2>1 DEF Calls
  <2>4. call' \in [Consumers -> Calls \cup {None}]
    BY <2>2, <2>3 DEF ConsumerTypes
  <2> QED BY <1>4, <2>4 DEF ConsumerTypes, CallTypes
<1> QED BY <1>2, <1>3, <1>4 DEF Advance

LEMMA UndecodableTypes ==
    ASSUME ConsumerTypes, NEW c \in Consumers, NEW D, Undecodable(c, D)
    PROVE  CallTypes'
BY DEF Undecodable, Abort, ConsumerTypes, CallTypes

-----------------------------------------------------------------------------
LEMMA LostInitInv == ConsumerInit => LostInv
<1> SUFFICES ASSUME ConsumerInit PROVE LostInv
  OBVIOUS
<1>1. 0 \in Shards
  BY DEF Shards
<1> QED BY <1>1 DEF ConsumerInit, LostInv, ConsumerTypes, NothingLost

LEMMA LostNextInv == StartId = "0" /\ LostInv /\ [ConsumerNext]_consumerVars => LostInv'
<1> SUFFICES ASSUME StartId = "0", LostInv, [ConsumerNext]_consumerVars PROVE LostInv'
  OBVIOUS
<1> USE DEF LostInv, streamVars
<1>0. ASSUME UNCHANGED <<group, done>> PROVE NothingLost'
  BY <1>0 DEF NothingLost
<1>1. ASSUME NEW c \in Consumers, Poll(c) \/ ClaimPending(c) PROVE LostInv'
  <2>1. PICK op \in {"poll", "claim"} : Begin(c, op)
    BY <1>1 DEF Poll, ClaimPending
  <2>2. CASE EnterScan(c, op)
    BY <1>0, <2>1, <2>2, EnterScanTypes DEF Begin, ConsumerTypes, callerVars
  <2>3. CASE /\ call' = [call EXCEPT ![c] = [op |-> op, step |-> "ensure", start |-> 0, i |-> 0,
                                             retried |-> FALSE, got |-> {}]]
             /\ UNCHANGED next_shard
    <3>1. [op |-> op, step |-> "ensure", start |-> 0, i |-> 0, retried |-> FALSE, got |-> {}] \in Calls
      BY DEF Calls, Shards
    <3> QED BY <1>0, <2>1, <2>3, <3>1 DEF Begin, ConsumerTypes, callerVars
  <2> QED BY <2>1, <2>2, <2>3 DEF Begin
<1>2. ASSUME NEW c \in Consumers, EnsureGroups(c) PROVE LostInv'
  <2>1. call[c] \in Calls
    BY <1>2 DEF EnsureGroups, ConsumerTypes
  <2>2. group' \in [Shards -> Groups \cup {None}] /\ NothingLost'
    BY <1>2, CreatedLosesNothing DEF EnsureGroups, callerVars
  <2>3. next_shard' \in [Consumers -> Shards] /\ call' \in [Consumers -> Calls \cup {None}]
    <3>1. CASE EnterScan(c, call[c].op)
      BY <2>1, <3>1, EnterScanTypes DEF Calls
    <3>2. CASE /\ call' = [call EXCEPT ![c].step = IF call[c].i < ShardCount THEN "scan" ELSE "block"]
               /\ UNCHANGED next_shard
      BY <2>1, <3>2 DEF ConsumerTypes, Calls
    <3> QED BY <1>2, <3>1, <3>2 DEF EnsureGroups
  <2> QED BY <1>2, <2>2, <2>3 DEF EnsureGroups, ConsumerTypes, callerVars
<1>3. ASSUME NEW c \in Consumers, EnsureFails(c) PROVE LostInv'
  <2>1. group' \in [Shards -> Groups \cup {None}] /\ NothingLost'
    BY <1>3, CreatedLosesNothing DEF EnsureFails, callerVars
  <2> QED BY <1>3, <2>1 DEF EnsureFails, ConsumerTypes, callerVars
<1>4. ASSUME NEW c \in Consumers, PollShard(c) PROVE LostInv'
  <2> DEFINE s == Shard(c)
             ids == NewEntries(s, Remaining(c))
  <2>1. s \in Shards /\ Remaining(c) \in Int
    BY <1>4, ShardOfCall DEF PollShard
  <2>2. CASE NoGroup(c) /\ UNCHANGED <<group, held>>
    BY <1>0, <1>4, <2>2, NoGroupTypes DEF PollShard, ConsumerTypes
  <2>3. CASE group[s] # None /\ Read(s, ids) /\ (Advance(c, {s} \X ids) \/ Undecodable(c, {s} \X ids))
    <3>1. {s} \X ids \in SUBSET Delivery
      <4>1. ids \in SUBSET Ids
        BY <2>1 DEF NewEntries, Smallest, Ids, ConsumerTypes
      <4> QED BY <2>1, <4>1 DEF Delivery
    <3>2. CallTypes'
      BY <1>4, <2>3, <3>1, AdvanceTypes, UndecodableTypes DEF PollShard
    <3>3. group' \in [Shards -> Groups \cup {None}] /\ NothingLost'
      BY <1>4, <2>1, <2>3, ReadLosesNothing DEF PollShard
    <3> QED BY <1>4, <3>2, <3>3 DEF PollShard, ConsumerTypes, CallTypes
  <2> QED BY <1>4, <2>2, <2>3 DEF PollShard
<1>5. ASSUME NEW c \in Consumers, BlockingRead(c) PROVE LostInv'
  <2> DEFINE s == call[c].start
             ids == NewEntries(s, 1)
  <2>1. s \in Shards
    BY <1>5 DEF BlockingRead, ConsumerTypes, Calls
  <2>2. CASE NoGroup(c) /\ UNCHANGED <<group, held>>
    BY <1>0, <1>5, <2>2, NoGroupTypes DEF BlockingRead, ConsumerTypes
  <2>3. CASE group[s] # None /\ Read(s, ids) /\ (Return(c, {s} \X ids) \/ Undecodable(c, {s} \X ids))
    <3>1. {s} \X ids \in SUBSET Delivery
      <4>1. ids \in SUBSET Ids
        BY <2>1 DEF NewEntries, Smallest, Ids, ConsumerTypes
      <4> QED BY <2>1, <4>1 DEF Delivery
    <3>2. CallTypes'
      <4> HIDE DEF ids, s
      <4> QED BY <2>3, <3>1, UndecodableTypes DEF Return, ConsumerTypes, CallTypes
    <3>3. group' \in [Shards -> Groups \cup {None}] /\ NothingLost'
      BY <1>5, <2>1, <2>3, ReadLosesNothing DEF BlockingRead
    <3> QED BY <1>5, <3>2, <3>3 DEF BlockingRead, ConsumerTypes, CallTypes
  <2> QED BY <1>5, <2>2, <2>3 DEF BlockingRead
<1>6. ASSUME NEW c \in Consumers, NEW idle \in SUBSET Ids, ClaimShard(c, idle) PROVE LostInv'
  <2> DEFINE s == Shard(c)
             D == {s} \X Smallest(group[s].pel \cap idle, Remaining(c))
  <2>1. s \in Shards
    BY <1>6, ShardOfCall DEF ClaimShard
  <2>2. CASE NoGroup(c) /\ UNCHANGED held
    BY <1>0, <1>6, <2>2, NoGroupTypes DEF ClaimShard, ConsumerTypes
  <2>3. CASE Advance(c, D) \/ Undecodable(c, D)
    <3>1. D \in SUBSET Delivery
      <4>1. Smallest(group[s].pel \cap idle, Remaining(c)) \in SUBSET Ids
        BY DEF Smallest
      <4> QED BY <2>1, <4>1 DEF Delivery
    <3>2. CallTypes'
      BY <1>6, <2>3, <3>1, AdvanceTypes, UndecodableTypes DEF ClaimShard
    <3> QED BY <1>0, <1>6, <3>2 DEF ClaimShard, ConsumerTypes, CallTypes
  <2> QED BY <1>6, <2>2, <2>3 DEF ClaimShard
<1>7. ASSUME NEW c \in Consumers, CallFails(c) PROVE LostInv'
  <2>1. Shard(c) \in Shards /\ Remaining(c) \in Int
    BY <1>7, ShardOfCall DEF CallFails
  <2>2. group' \in [Shards -> Groups \cup {None}] /\ NothingLost'
    BY <1>0, <1>7, <2>1, ReadLosesNothing DEF CallFails, Abort, ConsumerTypes, callerVars
  <2> QED BY <1>7, <2>2 DEF CallFails, Abort, ConsumerTypes, callerVars
<1>8. ASSUME NEW c \in Consumers, EvictCache(c) PROVE LostInv'
  BY <1>0, <1>8 DEF EvictCache, ConsumerTypes, callerVars
<1>9. ASSUME NEW c \in Consumers, Crash(c) PROVE LostInv'
  <2>1. 0 \in Shards
    BY DEF Shards
  <2> QED BY <1>0, <1>9, <2>1 DEF Crash, ConsumerTypes
<1>10. ASSUME NEW c \in Consumers, NEW d \in held[c], Ack(c, d) PROVE LostInv'
  <2>1. d \in Delivery /\ d = <<d[1], d[2]>> /\ d[1] \in Shards
    BY DEF ConsumerTypes, Delivery
  <2>2. held' \in [Consumers -> SUBSET Delivery]
    BY <1>10 DEF Ack, Drop, ConsumerTypes
  <2>3. CASE group[d[1]] # None /\ group' = [group EXCEPT ![d[1]].pel = @ \ {d[2]}]
    <3>1. group[d[1]] \in Groups
      BY <2>1, <2>3 DEF ConsumerTypes
    <3>2. group' = [group EXCEPT ![d[1]] = [group[d[1]] EXCEPT !.pel = group[d[1]].pel \ {d[2]}]]
      BY <2>3
    <3>3. [group[d[1]] EXCEPT !.pel = group[d[1]].pel \ {d[2]}] \in Groups
      BY <3>1 DEF Groups
    <3>4. ConsumerTypes'
      BY <1>10, <2>1, <2>2, <3>2, <3>3 DEF Ack, ConsumerTypes
    <3>5. NothingLost'
      <4> SUFFICES ASSUME NEW s \in Shards, group'[s] # None, NEW id \in 1..group'[s].last
                   PROVE  id \in group'[s].pel \/ <<s, id>> \in done'
        BY DEF NothingLost
      <4>1. CASE s # d[1]
        BY <1>10, <2>1, <3>2, <4>1 DEF NothingLost, Ack, ConsumerTypes
      <4>2. CASE s = d[1]
        <5>1. group'[s].last = group[s].last /\ group'[s].pel = group[s].pel \ {d[2]}
          BY <2>1, <3>1, <3>2, <4>2 DEF ConsumerTypes, Groups
        <5>2. id \in group[s].pel \/ <<s, id>> \in done
          BY <2>3, <4>2, <5>1 DEF NothingLost
        <5> QED BY <1>10, <2>1, <4>2, <5>1, <5>2 DEF Ack
      <4> QED BY <4>1, <4>2
    <3> QED BY <3>4, <3>5
  <2>4. CASE UNCHANGED group
    <3>1. NothingLost'
      BY <1>10, <2>4 DEF Ack, NothingLost
    <3> QED BY <1>10, <2>2, <2>4, <3>1 DEF Ack, ConsumerTypes
  <2> QED BY <1>10, <2>3, <2>4 DEF Ack
<1>11. ASSUME NEW c \in Consumers, NEW d \in held[c], Nack(c, d) PROVE LostInv'
  BY <1>0, <1>11 DEF Nack, Drop, ConsumerTypes
<1>12. ASSUME NEW s \in Shards, AddEntry(s) PROVE LostInv'
  BY <1>0, <1>12 DEF AddEntry, ConsumerTypes, callerVars
<1>13. ASSUME NEW s \in Shards, DestroyGroup(s) PROVE LostInv'
  <2>1. NothingLost'
    BY <1>13 DEF DestroyGroup, NothingLost, ConsumerTypes, callerVars
  <2> QED BY <1>13, <2>1 DEF DestroyGroup, ConsumerTypes, callerVars
<1>14. CASE UNCHANGED consumerVars
  BY <1>0, <1>14 DEF consumerVars, ConsumerTypes, callerVars
<1> QED BY <1>1, <1>2, <1>3, <1>4, <1>5, <1>6, <1>7, <1>8, <1>9, <1>10, <1>11, <1>12, <1>13,
       <1>14 DEF ConsumerNext, CallStep

(***************************************************************************)
(* NothingLost for the start id "0": no failure, undecodable entry, crash  *)
(* or re-creation of a group makes the group move past an entry that is    *)
(* neither pending nor processed.                                          *)
(***************************************************************************)
THEOREM AtLeastOnce ==
    ASSUME StartId = "0"
    PROVE  ConsumerSpec => []NothingLost
<1>1. LostInv => NothingLost
  BY DEF LostInv
<1> QED BY LostInitInv, LostNextInv, <1>1, PTL DEF ConsumerSpec
=============================================================================
