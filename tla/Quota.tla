------------------------------- MODULE Quota -------------------------------
(***************************************************************************)
(* quota_middleware over RedisQuotaStore, kernel-api/src/middleware.rs:    *)
(* four token buckets, one of them shared by all tenants and one of them a *)
(* circuit breaker, checked and charged by one Lua script, and the script  *)
(* of check_and_update for one layer over the same keys.  A script is      *)
(* given the time of the node that calls it, the expiry of the keys runs   *)
(* on the clock of Redis, the reply can be lost.                           *)
(*                                                                         *)
(* Time is counted in ticks, Second of them to a second; rates are tokens  *)
(* per tick.                                                               *)
(***************************************************************************)
EXTENDS Integers, FiniteSets, FiniteSetsExt, Sequences

CONSTANTS
    Tenants,
    Global,         \* layer -> [rate, capacity, cost, backoff]
    Override,       \* tenant_overrides: tenant -> layer -> such a record, or Unset
    Singles,        \* tenants and layers also checked alone, by check_and_update
    Second,         \* ticks in a second
    KeyTtl,         \* PEXPIRE 60000, in ticks
    OpenGrace,      \* the 30000 added to the expiry of an open breaker
    SystemClip,     \* the largest Retry-After of the system layer, in seconds
    Offsets,        \* the clocks of the nodes, relative to Redis
    MaxTime,        \* bound: ticks of the clock
    MaxErrors,      \* bound: lost replies
    Unset           \* an Option or a field of a hash that is not there

Layers == <<"system", "breaker", "budget", "api">>
Layer == {Layers[i] : i \in DOMAIN Layers}

\* QuotaLayerConfig, as layer_config accepts it.
Limits == [rate : Nat \ {0}, capacity : Nat \ {0}, cost : Nat \ {0}, backoff : Nat \ {0}]

ASSUME ClockAssumption ==
    /\ Second \in Nat \ {0} /\ SystemClip \in Nat \ {0}
    /\ KeyTtl \in Nat /\ OpenGrace \in Nat /\ MaxTime \in Nat /\ Offsets \subseteq Int
ASSUME LimitAssumption ==
    /\ \A l \in Layer : Global[l] \in Limits
    /\ \A t \in Tenants, l \in Layer : Override[t][l] \in
          [rate : Int, capacity : Int, cost : Int, backoff : Int] \cup {Unset}
ASSUME UnsetAssumption == Unset \notin Int
ASSUME SinglesAssumption == Singles \subseteq Tenants \X Layer

VARIABLES
    clock,          \* the clock of Redis
    bucket,         \* per key: the hash, Empty when there is none
    charges,        \* history: how often each tenant was charged for each layer
    taken,          \* history: the tokens taken from each bucket by the end of each
                    \* tick, as far as is known now
    advice,         \* per tenant: the last Retry-After it may rely on, or Unset
    errors

quotaVars == <<clock, bucket, charges, taken, advice, errors>>

CeilDiv(a, b) == (a + b - 1) \div b

-----------------------------------------------------------------------------
\* layer_config: an override with a value that is not positive is ignored.
Usable(q) == q # Unset /\ \A f \in DOMAIN q : q[f] > 0
Config(t, l) == IF Usable(Override[t][l]) THEN Override[t][l] ELSE Global[l]

\* A key outlives the refill of its bucket: a bucket that expires comes back
\* full.  The defaults keep to this; layer_config does not demand it.
ASSUME TtlAssumption == \A t \in Tenants, l \in Layer :
    LET q == Config(t, l)
    IN  q.capacity <= q.rate * IF l = "breaker" THEN q.backoff * Second + OpenGrace ELSE KeyTtl

\* The system layer has one key for all tenants.
Key(t, l) == <<IF l = "system" THEN Unset ELSE t, l>>
Keys == {Key(t, l) : t \in Tenants, l \in Layer}

\* The fields of a hash; until is there while the state is "open".
Empty == [tokens |-> Unset, last_refill |-> 0, until |-> Unset, expires |-> 0]

Filled(t, l, now) ==
    LET q == Config(t, l)  b == bucket[Key(t, l)]
    IN  IF b.tokens = Unset THEN q.capacity
        ELSE Min({q.capacity, b.tokens + Max({0, now - b.last_refill}) * q.rate})

IsOpen(t, l, now) == l = "breaker" /\ bucket[Key(t, l)].until # Unset /\ now < bucket[Key(t, l)].until
Passes(t, l, now) == ~IsOpen(t, l, now) /\ Filled(t, l, now) >= Config(t, l).cost
Failing(t, now) == {i \in DOMAIN Layers : ~Passes(t, Layers[i], now)}

\* Mutant: the wait is rounded down.
Wait_Floor(t, l, now) ==
    LET q == Config(t, l)
    IN  IF IsOpen(t, l, now) THEN (bucket[Key(t, l)].until - now) \div Second
        ELSE IF l = "breaker" THEN q.backoff
        ELSE (q.cost - Filled(t, l, now)) \div (q.rate * Second)

\* The seconds the script returns for the first layer that fails.
Wait(t, l, now) ==
    LET q == Config(t, l)
    IN  IF IsOpen(t, l, now) THEN CeilDiv(bucket[Key(t, l)].until - now, Second)
        ELSE IF l = "breaker" THEN q.backoff
        ELSE CeilDiv(q.cost - Filled(t, l, now), q.rate * Second)

\* QuotaViolation::headers.
RetryAfter(l, s) == Max({1, IF l = "system" THEN Min({s, SystemClip}) ELSE s})

\* Mutant: the interval up to now stays refillable.
Charged_KeepsTime(t, l, now) ==
    LET q == Config(t, l)  b == bucket[Key(t, l)]
    IN  [tokens |-> Filled(t, l, now) - q.cost,
         last_refill |-> IF b.tokens = Unset THEN now ELSE b.last_refill,
         until |-> Unset, expires |-> clock + KeyTtl]

\* Second pass; a breaker's key lives until the bucket would be full again.
Charged(t, l, now) ==
    LET q == Config(t, l)  left == Filled(t, l, now) - q.cost
    IN  [tokens |-> left, last_refill |-> now, until |-> Unset,
         expires |-> clock + IF l = "breaker" THEN CeilDiv(q.capacity - left, q.rate) ELSE KeyTtl]

\* Tenant t is charged for the layers of L.
Charge(t, L, now) ==
    LET hit(k) == k[2] \in L /\ k = Key(t, k[2])
    IN  /\ bucket' = [k \in Keys |-> IF hit(k) THEN Charged(t, k[2], now) ELSE bucket[k]]
        /\ taken' = [k \in Keys |->
              IF hit(k) THEN [n \in 0..MaxTime |->
                                taken[k][n] + IF n < clock THEN 0 ELSE Config(t, k[2]).cost]
              ELSE taken[k]]
        /\ charges' = [charges EXCEPT ![t] = [l \in Layer |-> @[l] + IF l \in L THEN 1 ELSE 0]]

\* Mutant: layers are charged one after the other until one fails, as the
\* default of the QuotaStore trait does.
Refuse_ChargesPassed(t, i, now) == Charge(t, {Layers[j] : j \in 1..(i - 1)}, now)

\* The i-th layer is the first that fails: a closed breaker opens, nothing
\* else is written.
Refuse(t, i, now) ==
    LET l == Layers[i]
        q == Config(t, l)
    IN  /\ bucket' = IF l = "breaker" /\ ~IsOpen(t, l, now)
                     THEN [bucket EXCEPT ![Key(t, l)].until = now + q.backoff * Second,
                                         ![Key(t, l)].expires = clock + q.backoff * Second + OpenGrace]
                     ELSE bucket
        /\ UNCHANGED <<charges, taken>>

\* What a tenant was told about the system layer is void once another
\* tenant takes tokens from it.
Advise(t, a, system) ==
    advice' = [u \in Tenants |->
        IF u = t THEN a
        ELSE IF system /\ advice[u] # Unset /\ advice[u].layer = "system" THEN Unset
        ELSE advice[u]]

\* quota_middleware: check_and_update_multi with the clock of some node.
Admit(t, now) ==
    /\ Failing(t, now) = {}
    /\ Charge(t, Layer, now)
    /\ Advise(t, Unset, TRUE)
    /\ UNCHANGED <<clock, errors>>

Reject(t, now) ==
    /\ Failing(t, now) # {}
    /\ LET i == Min(Failing(t, now))
           l == Layers[i]
       IN  /\ Refuse(t, i, now)
           /\ Advise(t, [layer |-> l, at |-> clock + RetryAfter(l, Wait(t, l, now)) * Second], FALSE)
    /\ UNCHANGED <<clock, errors>>

\* check_and_update: the script for one layer.
AdmitOne(t, l, now) ==
    /\ Passes(t, l, now)
    /\ Charge(t, {l}, now)
    /\ Advise(t, Unset, l = "system")
    /\ UNCHANGED <<clock, errors>>

RejectOne(t, l, now) ==
    /\ ~Passes(t, l, now)
    /\ Refuse(t, CHOOSE i \in DOMAIN Layers : Layers[i] = l, now)
    /\ Advise(t, [layer |-> l, at |-> clock + RetryAfter(l, Wait(t, l, now)) * Second], FALSE)
    /\ UNCHANGED <<clock, errors>>

\* The script ran and its reply was lost: the client gets 503, Retry-After 1.
\* A script that did not run changes nothing.
LostReply(t, now) ==
    /\ errors < MaxErrors
    /\ \/ Failing(t, now) = {} /\ Charge(t, Layer, now) /\ Advise(t, Unset, TRUE)
       \/ /\ Failing(t, now) # {}
          /\ Refuse(t, Min(Failing(t, now)), now)
          /\ Advise(t, Unset, FALSE)
    /\ errors' = errors + 1
    /\ UNCHANGED clock

\* Time passes; Redis drops the keys that expire.
QuotaTick ==
    /\ clock < MaxTime
    /\ clock' = clock + 1
    /\ bucket' = [k \in Keys |-> IF bucket[k].expires <= clock' THEN Empty ELSE bucket[k]]
    /\ UNCHANGED <<charges, taken, advice, errors>>

QuotaInit ==
    /\ clock = 0
    /\ bucket = [k \in Keys |-> Empty]
    /\ charges = [t \in Tenants |-> [l \in Layer |-> 0]]
    /\ taken = [k \in Keys |-> [n \in 0..MaxTime |-> 0]]
    /\ advice = [t \in Tenants |-> Unset]
    /\ errors = 0

QuotaNext ==
    \/ \E t \in Tenants, o \in Offsets :
          Admit(t, clock + o) \/ Reject(t, clock + o) \/ LostReply(t, clock + o)
    \/ \E s \in Singles, o \in Offsets :
          AdmitOne(s[1], s[2], clock + o) \/ RejectOne(s[1], s[2], clock + o)
    \/ QuotaTick

QuotaSpec == QuotaInit /\ [][QuotaNext]_quotaVars

-----------------------------------------------------------------------------
\* A bucket holds between nothing and its capacity, only a breaker is open.
QuotaTypeOK ==
    /\ clock \in 0..MaxTime
    /\ errors \in 0..MaxErrors
    /\ \A t \in Tenants, l \in Layer :
          LET b == bucket[Key(t, l)]
          IN  /\ b.tokens # Unset => b.tokens \in 0..Config(t, l).capacity
              /\ b.until # Unset => l = "breaker" /\ b.until \in Int
              /\ b # Empty => b.expires > clock
    /\ \A t \in Tenants : advice[t] # Unset => advice[t].layer \in Layer /\ advice[t].at > 0

\* What was taken from the bucket of key k since the beginning of tick from.
TakenSince(k, from) == taken[k][clock] - IF from = 0 THEN 0 ELSE taken[k][from - 1]

(***************************************************************************)
(* docs/implementation_plan.md: the System Hard Limit is an absolute upper *)
(* limit of the whole system that must not be exceeded.  All tenants       *)
(* together stay within the capacity and the refill of its bucket.         *)
(***************************************************************************)
SystemLimitHolds ==
    \A t \in Tenants : \A from \in 0..clock :
        TakenSince(Key(t, "system"), from)
            <= Global["system"].capacity + Global["system"].rate * (clock - from)

(***************************************************************************)
(* The limits: over every interval up to now, what a tenant is charged for *)
(* a layer is at most the capacity and what is refilled meanwhile, across  *)
(* expired and recreated keys, lost replies, openings of the breaker and   *)
(* calls for the one layer among those for all; and all tenants together   *)
(* stay within the system's layer.                                         *)
(***************************************************************************)
WithinLimit ==
    /\ SystemLimitHolds
    /\ \A t \in Tenants, l \in Layer \ {"system"} : \A from \in 0..clock :
           TakenSince(Key(t, l), from) <= Config(t, l).capacity + Config(t, l).rate * (clock - from)

(***************************************************************************)
(* A request that a later layer refuses takes no token of an earlier one   *)
(* (docs/implementation_plan.md 4.7): the layers that are not checked      *)
(* alone were always charged equally often for a tenant.                   *)
(***************************************************************************)
LayersChargedTogether ==
    \A t \in Tenants, l, m \in Layer :
        {<<t, l>>, <<t, m>>} \cap Singles = {} => charges[t][l] = charges[t][m]

(***************************************************************************)
(* A client that waits for Retry-After is not refused by the same layer    *)
(* again, unless others took the tokens of the system layer meanwhile.     *)
(***************************************************************************)
RetryAfterSuffices ==
    \A t \in Tenants : advice[t] # Unset /\ clock >= advice[t].at =>
        Passes(t, advice[t].layer, clock)
=============================================================================
