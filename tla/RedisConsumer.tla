--------------------------- MODULE RedisConsumer ---------------------------
(***************************************************************************)
(* RedisConsumer of kernel-data/src/event/redis_consumer.rs: consumer      *)
(* groups over the shards of a tenant's stream.  poll and claim_pending    *)
(* visit the shards one Redis command at a time; the group of a shard can  *)
(* disappear, a command can fail, a process can die between any two steps. *)
(*                                                                         *)
(* The loop that calls poll and claim_pending, processes what they return  *)
(* and answers with ack or nack belongs to the caller (external).          *)
(***************************************************************************)
EXTENDS Naturals, FiniteSets, FiniteSetsExt

CONSTANTS
    ShardCount,     \* SHARD_COUNT
    Consumers,      \* processes with a RedisConsumer, in one consumer group
    MaxEntries,     \* bound: entries added to a shard
    MaxTotal,       \* bound: entries added to all shards
    MaxCount,       \* the max_count of a call
    MaxFaults,      \* bound: failed commands, crashes, nacks, deleted groups,
                    \* cache entries that time out
    Poison,         \* bound: the entries that may be undecodable
    StartId,        \* nogroup_recovery_start_id
    None

Shards == 0..(ShardCount - 1)
Ids == 1..MaxEntries
Delivery == Shards \X Ids

ASSUME ShardAssumption == ShardCount \in Nat \ {0}
ASSUME CountAssumption == MaxCount \in Nat \ {0} /\ MaxEntries \in Nat /\ MaxTotal \in Nat
ASSUME FaultsAssumption == MaxFaults \in Nat
ASSUME PoisonAssumption == Poison \subseteq Delivery
ASSUME StartAssumption == StartId \in {"0", "$"}

VARIABLES
    stream,         \* entries 1..stream[s] are on shard s
    bad,            \* entries that decode_stream_entry refuses
    group,          \* per shard: last delivered id and pending entries, or None
    cached,         \* consumers with an ensured_consumer_groups entry
    next_shard,     \* next_poll_start_shard, modulo SHARD_COUNT
    call,           \* the poll or claim_pending under way, or None
    held,           \* deliveries returned to the caller, not yet answered
    done,           \* deliveries the caller has processed
    faults

streamVars == <<stream, bad>>
callerVars == <<held, done>>
consumerVars == <<streamVars, group, cached, next_shard, call, callerVars, faults>>

\* The entries on the stream.
Added == {d \in Delivery : d[2] <= stream[d[1]]}

Fault == faults < MaxFaults /\ faults' = faults + 1
Shard(c) == (call[c].start + call[c].i) % ShardCount

Remaining(c) == MaxCount - Cardinality(call[c].got)

\* The n smallest elements of S.
Smallest(S, n) == {e \in S : Cardinality({d \in S : d < e}) < n}

-----------------------------------------------------------------------------
(***************************************************************************)
(* ensure_consumer_groups_cached: XGROUP CREATE per shard, BUSYGROUP is    *)
(* ignored.  A failure leaves the groups created before it.                *)
(***************************************************************************)
\* Mutant: the group begins behind the entries that are there.
FreshGroup_AtEnd(s) == [last |-> stream[s], pel |-> {}]

\* "0" replays the stream, "$" begins with what is added from now on.
FreshGroup(s) == [last |-> IF StartId = "0" THEN 0 ELSE stream[s], pel |-> {}]

Created(S) == [s \in Shards |-> IF s \in S /\ group[s] = None THEN FreshGroup(s) ELSE group[s]]

\* poll_once and claim_pending_once: fetch_add picks the shard to start with.
EnterScan(c, op) ==
    /\ next_shard' = [next_shard EXCEPT ![c] = (@ + 1) % ShardCount]
    /\ call' = [call EXCEPT ![c] = [op |-> op, step |-> "scan", start |-> next_shard[c], i |-> 0,
                                    retried |-> FALSE, got |-> {}]]

Begin(c, op) ==
    /\ call[c] = None
    /\ held[c] = {}
    /\ \/ c \in cached /\ EnterScan(c, op)
       \/ /\ c \notin cached
          /\ call' = [call EXCEPT ![c] = [op |-> op, step |-> "ensure", start |-> 0, i |-> 0,
                                          retried |-> FALSE, got |-> {}]]
          /\ UNCHANGED next_shard
    /\ UNCHANGED <<streamVars, group, cached, callerVars, faults>>

Poll(c) == Begin(c, "poll")
ClaimPending(c) == Begin(c, "claim")

\* On the way into a call, or (retried) to recover from NOGROUP.
EnsureGroups(c) ==
    /\ call[c] # None /\ call[c].step = "ensure"
    /\ group' = Created(Shards)
    /\ cached' = cached \cup {c}
    /\ \/ ~call[c].retried /\ EnterScan(c, call[c].op)
       \/ /\ call[c].retried
          /\ call' = [call EXCEPT ![c].step = IF call[c].i < ShardCount THEN "scan" ELSE "block"]
          /\ UNCHANGED next_shard
    /\ UNCHANGED <<streamVars, callerVars, faults>>

EnsureFails(c) ==
    /\ call[c] # None /\ call[c].step = "ensure"
    /\ Fault
    /\ \E n \in Shards : group' = Created({s \in Shards : s < n})
    /\ call' = [call EXCEPT ![c] = None]
    /\ UNCHANGED <<streamVars, cached, next_shard, callerVars>>

(***************************************************************************)
(* recover_nogroup_and_retry: evict the cache entry, create the groups,    *)
(* try once more.                                                          *)
(***************************************************************************)
\* Mutant: the cache entry stays, so nothing is created.
NoGroup_KeepsCache(c) ==
    /\ call' = [call EXCEPT ![c] = None]
    /\ UNCHANGED cached

NoGroup(c) ==
    \/ /\ ~call[c].retried
       /\ cached' = cached \ {c}
       /\ call' = [call EXCEPT ![c].step = "ensure", ![c].retried = TRUE]
    \/ /\ call[c].retried
       /\ call' = [call EXCEPT ![c] = None]
       /\ UNCHANGED cached

\* The call returns the deliveries of D.
Return(c, D) ==
    /\ call' = [call EXCEPT ![c] = None]
    /\ held' = [held EXCEPT ![c] = D]

\* The call returns an error: what it had read so far is dropped.
Abort(c) ==
    /\ call' = [call EXCEPT ![c] = None]
    /\ UNCHANGED held

\* decode_stream_read, decode_claimed: one bad entry in the reply fails the
\* call, whatever came with it, and does so each time it is read or claimed.
Undecodable(c, D) == D \cap bad # {} /\ Abort(c)

\* Entries D were read from the current shard; the scan goes on or ends.
Advance(c, D) ==
    LET got == call[c].got \cup D
    IN  /\ D \cap bad = {}
        /\ IF Cardinality(got) >= MaxCount \/ call[c].i + 1 = ShardCount
           THEN IF got = {} /\ call[c].op = "poll"
                THEN /\ call' = [call EXCEPT ![c].step = "block", ![c].i = ShardCount,
                                             ![c].retried = FALSE]
                     /\ UNCHANGED held
                ELSE Return(c, got)
           ELSE /\ call' = [call EXCEPT ![c].i = @ + 1, ![c].got = got, ![c].retried = FALSE]
                /\ UNCHANGED held

\* XREADGROUP COUNT n ... >: new entries become pending.
NewEntries(s, n) == Smallest({id \in 1..stream[s] : id > group[s].last}, n)

Read(s, ids) ==
    group' = [group EXCEPT ![s] = [last |-> IF ids = {} THEN @.last ELSE Max(ids),
                                   pel |-> @.pel \cup ids]]

\* Phase 1 of poll_once.
PollShard(c) ==
    /\ call[c] # None /\ call[c].op = "poll" /\ call[c].step = "scan"
    /\ LET s == Shard(c)
       IN  \/ /\ group[s] = None
              /\ NoGroup(c)
              /\ UNCHANGED <<group, held>>
           \/ /\ group[s] # None
              /\ LET ids == NewEntries(s, Remaining(c))
                 IN  /\ Read(s, ids)
                     /\ Advance(c, {s} \X ids) \/ Undecodable(c, {s} \X ids)
              /\ UNCHANGED cached
    /\ UNCHANGED <<streamVars, next_shard, done, faults>>

\* Phase 2: a blocking read of one entry from the first shard; it may time out.
BlockingRead(c) ==
    /\ call[c] # None /\ call[c].step = "block"
    /\ LET s == call[c].start
       IN  \/ /\ group[s] = None
              /\ NoGroup(c)
              /\ UNCHANGED <<group, held>>
           \/ /\ group[s] # None
              /\ LET ids == NewEntries(s, 1)
                 IN  /\ Read(s, ids)
                     /\ \/ ({s} \X ids) \cap bad = {} /\ Return(c, {s} \X ids)
                        \/ Undecodable(c, {s} \X ids)
              /\ UNCHANGED cached
    /\ UNCHANGED <<streamVars, next_shard, done, faults>>

\* XAUTOCLAIM until the cursor is back at 0-0: the entries of idle have been
\* pending for min_idle_ms.
ClaimShard(c, idle) ==
    /\ call[c] # None /\ call[c].op = "claim" /\ call[c].step = "scan"
    /\ LET s == Shard(c)
       IN  \/ /\ group[s] = None
              /\ NoGroup(c)
              /\ UNCHANGED held
           \/ /\ group[s] # None
              /\ LET D == {s} \X Smallest(group[s].pel \cap idle, Remaining(c))
                 IN  Advance(c, D) \/ Undecodable(c, D)
              /\ UNCHANGED cached
    /\ UNCHANGED <<streamVars, group, next_shard, done, faults>>

\* A command fails or its reply is lost; the read that failed may have made
\* entries pending.
CallFails(c) ==
    /\ call[c] # None
    /\ Fault
    /\ Abort(c)
    /\ \/ UNCHANGED group
       \/ /\ call[c].op = "poll" /\ call[c].step = "scan"
          /\ group[Shard(c)] # None
          /\ Read(Shard(c), NewEntries(Shard(c), Remaining(c)))
    /\ UNCHANGED <<streamVars, cached, next_shard, done>>

(***************************************************************************)
(* ack and nack                                                            *)
(***************************************************************************)
Drop(c, d) == held' = [held EXCEPT ![c] = @ \ {d}]

\* The caller processed d.  XACK of an entry that is not pending counts as a
\* success, NOGROUP and other errors leave the entry as it is.
Ack(c, d) ==
    /\ d \in held[c]
    /\ Drop(c, d)
    /\ done' = done \cup {d}
    /\ \/ /\ group[d[1]] # None
          /\ group' = [group EXCEPT ![d[1]].pel = @ \ {d[2]}]
          /\ UNCHANGED faults
       \/ /\ group[d[1]] = None
          /\ UNCHANGED <<group, faults>>
       \/ /\ Fault
          /\ UNCHANGED group
    /\ UNCHANGED <<streamVars, cached, next_shard, call>>

\* RetryPolicy::Immediate: nothing happens in Redis.
Nack(c, d) ==
    /\ d \in held[c]
    /\ Fault
    /\ Drop(c, d)
    /\ UNCHANGED <<streamVars, group, cached, next_shard, call, done>>

-----------------------------------------------------------------------------
(***************************************************************************)
(* The environment.                                                        *)
(***************************************************************************)
\* Any program can add to the stream, and what it adds may have no data field,
\* another format or another tenant.
AddEntry(s) ==
    /\ stream[s] < MaxEntries /\ Cardinality(Added) < MaxTotal
    /\ stream' = [stream EXCEPT ![s] = @ + 1]
    /\ \E B \in SUBSET ({<<s, stream[s] + 1>>} \cap Poison) : bad' = bad \cup B
    /\ UNCHANGED <<group, cached, next_shard, call, callerVars, faults>>

DestroyGroup(s) ==
    /\ group[s] # None
    /\ Fault
    /\ group' = [group EXCEPT ![s] = None]
    /\ UNCHANGED <<streamVars, cached, next_shard, call, callerVars>>

\* The time to live of the cache entry passes; a call looks at it only when it
\* begins, so it is enough to let it pass between calls.
EvictCache(c) ==
    /\ c \in cached /\ call[c] = None
    /\ Fault
    /\ cached' = cached \ {c}
    /\ UNCHANGED <<streamVars, group, next_shard, call, callerVars>>

Crash(c) ==
    /\ call[c] # None \/ held[c] # {}
    /\ Fault
    /\ call' = [call EXCEPT ![c] = None]
    /\ held' = [held EXCEPT ![c] = {}]
    /\ cached' = cached \ {c}
    /\ next_shard' = [next_shard EXCEPT ![c] = 0]
    /\ UNCHANGED <<streamVars, group, done>>

ConsumerInit ==
    /\ stream = [s \in Shards |-> 0]
    /\ bad = {}
    /\ group = [s \in Shards |-> None]
    /\ cached = {}
    /\ next_shard = [c \in Consumers |-> 0]
    /\ call = [c \in Consumers |-> None]
    /\ held = [c \in Consumers |-> {}]
    /\ done = {}
    /\ faults = 0

CallStep(c) ==
    \/ EnsureGroups(c) \/ PollShard(c) \/ BlockingRead(c)
    \/ \E idle \in SUBSET Ids : ClaimShard(c, idle)

ConsumerNext ==
    \/ \E c \in Consumers :
          \/ Poll(c) \/ ClaimPending(c) \/ CallStep(c)
          \/ EnsureFails(c) \/ CallFails(c) \/ EvictCache(c) \/ Crash(c)
          \/ \E d \in held[c] : Ack(c, d) \/ Nack(c, d)
    \/ \E s \in Shards : AddEntry(s) \/ DestroyGroup(s)

ConsumerSpec == ConsumerInit /\ [][ConsumerNext]_consumerVars

(***************************************************************************)
(* Some process keeps calling poll and some process claim_pending, which   *)
(* finds an entry that stays pending idle for long enough in the end;      *)
(* commands return, and a caller answers what it is given.  Failures are   *)
(* finitely many.                                                          *)
(***************************************************************************)
FairConsumerSpec ==
    /\ ConsumerSpec
    /\ SF_consumerVars(\E c \in Consumers : Poll(c))
    /\ \A s \in Shards :
          SF_consumerVars(\E c \in Consumers : ClaimShard(c, Ids) /\ Shard(c) = s)
    /\ SF_consumerVars(\E c \in Consumers : ClaimPending(c))
    /\ \A c \in Consumers :
          /\ WF_consumerVars(CallStep(c))
          /\ WF_consumerVars(\E d \in held[c] : Ack(c, d))

-----------------------------------------------------------------------------
\* The types of the consumer's variables; a call keeps to its max_count.
ConsumerTypeOK ==
    /\ stream \in [Shards -> 0..MaxEntries]
    /\ bad \subseteq Poison
    /\ group \in [Shards -> [last : 0..MaxEntries, pel : SUBSET Ids] \cup {None}]
    /\ cached \subseteq Consumers
    /\ next_shard \in [Consumers -> Shards]
    /\ \A c \in Consumers : call[c] # None =>
          /\ call[c].op \in {"poll", "claim"} /\ call[c].step \in {"ensure", "scan", "block"}
          /\ call[c].start \in Shards /\ call[c].i \in 0..ShardCount
          /\ call[c].got \subseteq Delivery
    /\ \A c \in Consumers : held[c] \subseteq Delivery /\ Cardinality(held[c]) <= MaxCount
    /\ done \subseteq Delivery
    /\ faults \in 0..MaxFaults

(***************************************************************************)
(* At-least-once: an entry the group has moved past was processed or is    *)
(* still pending, whatever failed after it was read (a later shard of the  *)
(* same call, an entry beside it, the process, the ack), and also after a  *)
(* deleted group was created again.  This is what the start id "0" is for: *)
(* with "$" a group that is created again skips what is there.             *)
(***************************************************************************)
NothingLost ==
    \A s \in Shards : group[s] # None =>
        \A id \in 1..group[s].last : id \in group[s].pel \/ <<s, id>> \in done

Pending(d) == group[d[1]] # None /\ d[2] \in group[d[1]].pel

(***************************************************************************)
(* Every entry that can be decoded is processed in the end, also one that  *)
(* was nacked, whose holder crashed or whose call failed after it was      *)
(* read: claim_pending reaches every idle entry of every shard.  The one   *)
(* exception: as long as an undecodable entry is pending, each claim that  *)
(* reaches it fails and drops what it has claimed, so that an entry may    *)
(* stay pending with it for good.                                          *)
(***************************************************************************)
EveryEntryProcessed ==
    \A d \in Delivery :
        d \in Added \ bad ~> \/ d \in done
                            \/ [](Pending(d) /\ \E p \in bad : Pending(p))
=============================================================================
