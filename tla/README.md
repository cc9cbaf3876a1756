# FlexiSuite Kernel: TLA+ specifications

TLA+ models of the stateful core of the FlexiSuite Kernel, the TLC runs that check
them on small instances, and TLAPS proofs for arbitrary constants. Paths are relative
to the repository (`kernel-core/...`, `kernel-api/...`); `PROJECT.json` maps every
definition to its lines, and lists runs, mutants, findings, hazards and theorems.

## 1. The system

The kernel is a multi-tenant platform in Rust: an HTTP API (`kernel-api`), domain
logic (`kernel-core`), PostgreSQL and Redis access (`kernel-data`), an archiver process
(`kernel-archiver`), a registry of signed artifacts and sandboxed runtimes. All instances share one
PostgreSQL database and one Redis.

| Component | State it keeps | Operations | What is hard about it |
|---|---|---|---|
| Gap recovery, `kernel-core/src/event.rs` | expected sequence number, state, open gap, its timer | `observe_delivery`, `recover_gap`, `confirm_gap_replay` | late, repeated and reordered calls; the timer belongs to one missing number |
| Outbox and producer, `kernel-data/src/event/{repository,redis_producer}.rs` | per-key counters, outbox rows, stream entries | `create_event`, `publish` | concurrent transactions, unknown commits, a crash before the publish |
| Stream consumer, `kernel-data/src/event/redis_consumer.rs` | cache of ensured groups, start shard; in Redis the group and its pending list | `poll`, `claim_pending`, `ack`, `nack` | several network calls per operation, group removed, crash with pending entries |
| Idempotency, `kernel-api/src/middleware.rs` | one entry per scope key, waiters, one listener task per channel | middleware loop; `try_acquire`, `complete`, `release_inflight`, `cleanup` | leases that lapse, lost replies, cancelled requests, missed notifications |
| Quota, same file and `kernel-core/src/quota.rs` | token buckets and circuit breakers in Redis | `check_and_update_multi`, `check_and_update` | time from several clocks, expiring keys, four layers charged as one |
| Key manager, `kernel-core/src/auth/key_manager.rs` | rows of `flexi.key_record` | `rotate_keys`, `revoke_key`, `generate_tenant_token` | READ COMMITTED transactions of several instances, row locks, unique indexes |
| Tenant transactions, `kernel-data/src/connection.rs` and `authorize_tenant` | nonces, session context | `with_tenant_tx` | replays of a token, a token of another tenant, keys rotated while tokens are out |
| Kid revocation, `kernel-api/src/auth.rs` | static keyset, bounded overlay, saturation flag | start-up check of the keyset, listener task, token verification | pub/sub loses messages, full overlay, restart with another keyset |
| Archiver, `kernel-archiver/src/main.rs` | `archived_at` marks, objects in S3 | one cycle per tick, `ctrl_c` | crash or lost reply between put and mark, two archivers |
| Tenant repository, `kernel-data/src/repository.rs` | `entity_records`, `entity_histories` | `create_entity`, `get_entity`, `update_entity`, `delete_entity` | updates from a stale version, commits nobody heard of, the foreign key of the history |
| Registry, `kernel-registry/src/{storage,trust}.rs`, `kernel-core/src/supplychain.rs` | objects in a bucket, the trust root each process has loaded | `save_manifest`, `get_manifest`, `save_artifact`, `get_artifact` | keys that retire, expire and are revoked between save and read; others write to the bucket |
| Deno sandbox, `kernel-runtime/src/deno_runtime.rs` | permits; per call an isolate, flags and two watchdog threads | `execute` | callers that give up, a watchdog that fires while its script ends |
| Wasm sandbox, `kernel-runtime/src/wasm_runtime.rs` | the engine's epoch, the kept watchdog handle | `execute`, `drop` | one epoch for all calls of a sandbox |
| Sandbox network, `kernel-runtime/src/lib.rs` | the normalized allowlist | `check_url`, `resolve`, redirects, body limit | the DNS answers after the check, and may change its answer |

How they interact: a tenant token signed by the key manager opens a tenant
transaction; the transaction writes entities, history rows and events; the producer
puts events on a sharded stream; consumers of a group read them and drive one gap
tracker per ordering key, which falls back to the outbox; the archiver reads the
history in tenant transactions of its own. The quota and the idempotency middleware
stand in front of every write handler, the PASETO verification in front of both. The
registry and the sandboxes are libraries without a caller in the repository: a module's
manifest and artifact come from the registry, a sandbox runs them.

### Not modelled

* `RedisActionStore` (`kernel-api/src/middleware.rs`): one SET and one GET per call; what it
  gets wrong is in section 3. Of the in-memory one, `get` and the time to live of a record.
* The optional `MAXLEN` of `RedisProducer::publish` (`stream_maxlen`, off by default): with it
  Redis may remove entries that no consumer has read.
* RBAC: one query per request and set membership.
* Diagnostics: a report is one insert after one read of the consent policy,
  `update_policy` answers FORBIDDEN to everyone, and the sanitizer is a set of regular expressions.
  The diagnostic rows of the repository are single inserts and lookups.
* `verify_break_glass` with its audit hooks: no code calls it.
* Router, profile and start-up: wiring, and checks of the environment that end the
  process. Contexts and their witnesses are types.
* Row level security: SQL predicates that PostgreSQL evaluates per row.
* The in-memory quota store, which admits everything; CI scripts and linters.

## 2. Modules

| Module | Models | Built on |
|---|---|---|
| `GapTracker` | `GapTracker` under an arbitrary caller | |
| `EventPipeline` | writers, outbox, stream, consumer loop | EXTENDS `GapTracker`, uses its actions as they are |
| `RedisConsumer` | the consumer, shard by shard, over Redis groups | |
| `IdempotencyTypes` | entries of the stores and answers of the middleware | |
| `IdempotencyContract` | abstract: what the layer promises for one key | EXTENDS `IdempotencyTypes` |
| `Idempotency` | the middleware without its store | EXTENDS `IdempotencyTypes`, instantiates the contract (`executing` is mapped to the requests in the handler) |
| `IdempotencyRedis`, `IdempotencyMemory` | the two stores; the latter with the in-memory action store | EXTEND `Idempotency` |
| `KeyManager` | rotation and revocation for one key type | |
| `TenantAuth` | tokens and tenant transactions | EXTENDS `KeyManager` |
| `KidRevocation` | keysets, overlay, listener, verification | |
| `Archiver` | archive cycles for one tenant | |
| `EntityStore` | entities, versions and history of one tenant | |
| `Quota` | the four layers, `script_multi` and `script` | |
| `Registry` | registry processes, trust roots and one bucket | |
| `DenoSandbox`, `WasmSandbox` | the calls of `execute` with their watchdogs | |
| `SandboxFetch` | allowlist, resolver and a fetch with its redirects | |
| `EventPipelineProofs` | theorems of the tracker and the pipeline | EXTENDS `EventPipeline` |
| `HistoryProofs` | theorems of the archiver and of the entities | EXTENDS `Archiver`, `EntityStore` |
| `RedisConsumerProofs`, `IdempotencyContractProofs` | theorems | EXTEND their component |
| `IdempotencyRedisProofs` | the Redis store implements the contract | EXTENDS `IdempotencyRedis`, instantiates `IdempotencyContractProofs` |
| `MiddlewareProofs` | theorems of the in-memory store and of the quota | EXTENDS `IdempotencyMemory`, `Quota` |
| `AuthProofs` | theorems of keys, tokens and kids | EXTENDS `TenantAuth`, `KidRevocation` |
| `ModuleProofs` | theorems of the registry and the sandboxes | EXTENDS `Registry`, `DenoSandbox`, `WasmSandbox`, `SandboxFetch` |

`MC*` modules give constants values. Some check several components in one run: the
variable `part` is chosen in the initial state and never changes, a behaviour takes steps of
that part alone, and the fairness is that of the parts (`MCEventPipeline` with the tracker alone,
`MCTenantAuth` with the keys alone, `MCArchiver` with the entities, `MCMiddleware`,
`MCSandboxes`). Definitions named `X_Something` directly before a
definition `X` are mutants: the mistake the comment names, in place of `X`.

How state and actions correspond to the code:

* **GapTracker.** The variables are the fields of the struct; `missing_for` is a
  reference clock, the time the current `expected_seq` has been missing, counted
  independently of `gap_started_at`. Sequence numbers are `1..MaxSeq`, where `MaxSeq`
  stands for `u64::MAX`, so the overflow branches are reached. Each action is a branch of
  one of the three methods, and the three `ObserveDelivery`, `RecoverGap`,
  `ConfirmGapReplay` are their disjunctions over arbitrary arguments.
* **EventPipeline.** A writer takes the counter's row lock with the upsert and holds it
  until its transaction ends; commit publishes counter and outbox row together. Delivery
  is any published entry in any order and again after an ack. The loops that call
  `publish` and the tracker are not part of the repository; they follow the protocol
  documented on `ReliableConsumer` and `recover_gap` and are marked external.
* **RedisConsumer.** One action per Redis call. A call carries its shard position and
  the deliveries it has; every `?` on the way drops them. `CallFails` is a command that
  fails, now and then. `Undecodable` is a reply with an entry of `bad`, which
  `decode_stream_entry` refuses every time it is read or claimed; entries are good or bad
  when they are added. `StartId` is `nogroup_recovery_start_id`.
* **Idempotency.** `pc` is the await a request is at. `IdempotencyRedis` splits
  `try_acquire` at SET, GET, registration and the second GET, and has the listener task
  of each instance with its subscribe, message, leave and respawn steps. Every call can
  fail, with or without effect. `IdempotencyMemory` splits
  `try_acquire` where the code drops its lock; its handler is `write_test`, which records
  an action, its effect, and then answers 201 (`RecordAction`, `ReturnAction`). That answer can be
  stored: its body is far below `max_replay_body_size` (10 MiB unless configured otherwise).
* **KeyManager.** One action per SQL statement. A transaction sees committed rows and its
  own writes; a locking read waits for the row and re-evaluates its predicate on the new
  version (`StillIs`), as READ COMMITTED does; the partial unique indexes make a writer
  wait or fail. `Waits` is when a statement waits, for a row lock or an index entry, and the guard
  of every statement that can; a statement that does not wait has a step, whatever it finds.
* **TenantAuth.** `authorize_tenant` is one step at the start of the transaction; the
  nonce insert waits for an open transaction with the same nonce. `CheckTenant` compares
  the tenant in the token with that of the context, in a step of its own: until then the
  transaction holds the nonce.
* **KidRevocation.** An operator publishes revocations and changes the configured keyset
  (`Announce`, `Reconfigure`); a process reads the keyset when it starts, and does not
  start on an inconsistent one (`Start`, `ValidKeyMaterial`). One verification is followed
  through the process at a time, as they share nothing they write. It reads the saturation
  flag and the overlay in two steps. `told` is the history the property refers to: kids
  the process was told of.
* **Archiver.** Rows are numbered by `created_at` and come from `ChangeEntity` (history)
  and `LogAudit`; `Poison` rows can never be stored. The mark and the privileged audit
  entry are transactions on two connections (`Mark`, `LogPrivilegedAudit`).
* **EntityStore.** One action per statement that reads or writes a row: `Enter` is the
  SELECT ... FOR UPDATE, `WriteUpdate` and `DeleteRow` what follows it. `known` is what a
  client has last read and sends as its version; `CommitUnheard` is `CommitUnknown` with a
  commit that took effect. `Referenced` is the foreign key, ON DELETE NO ACTION. `HistoryReplays`
  says of each entry of the history that it applies to what the one before it left (`RowAfter`), and of the
  last one that it left the row.
* **Registry.** Each operation is split at its call to the object store (`SaveManifest` and
  `PutManifest`, `ReadManifest` and `ReturnManifest`). `Roots` are the contents of the trust
  root file in order of time, `trust_root` the one a process read when it started. A digest is the
  value it is computed from; `Spelling` is `normalize_value`, which makes 1.0 and 1
  one content. `ValidKey` is about empty and dotted segments; the control characters,
  backslashes and encoded slashes that `validate_key` also refuses are not in the model's names.
* **DenoSandbox.** `phase` is where the blocking task is, `caller` the call whose future
  is alive; the two watchdog threads raise their flag and terminate the isolate in two
  steps. The script is free: it may return, throw, wait or never end.
  The near-heap-limit callback returns the limit as it was, so V8 gets no room to
  unwind in; the model assumes that it unwinds nevertheless, where V8 may also abort the whole process.
* **WasmSandbox.** `deadline` is set before the compilation and `epoch` belongs to the
  engine; `StopWatchdog` and `Joined` are the two halves of `stop_watchdog`.
* **SandboxFetch.** `Resolve` takes any set of addresses for an answer, `Redirect` any URL.
  `Covers` is the meaning of an allowlist entry that `check_url` is compared with.
* **Quota.** Time is in ticks, `Second` of them to a second; `now` is the clock of a
  node, `clock` that of Redis. A script is one atomic step, as in Redis. `Singles` are the
  tenants and layers that a caller of `check_and_update` checks alone (the middleware
  checks all layers). `taken` is the history the limits refer to: the tokens taken from each
  bucket by the end of each tick.

## 3. Runs

All runs are in `PROJECT.json`; each passing property has a mutant that violates it.
The type invariants (`TypeOK`, `RegistryTypeOK`, ...) and the inductive invariants hold on the
same instances and are used by the proofs; the configurations list the properties that
say something about the code.

| Run | Shows | Bounds |
|---|---|---|
| `event_pipeline` | events applied in order, acks only after apply, a rebuild only for a purged row and after a whole timeout, no number skipped between restarts, every published event applied (or a rebuild asked for) | 2 writers, 3 events, 1 restart, timeout 1, any row purged; the tracker alone: 5 numbers (the last is `u64::MAX`), two ordering keys |
| `idempotency_redis` | the Redis store implements the contract; every request is answered | 3 requests, 2 bodies, 2 instances, 2 attempts, 1 lapse |
| `middleware` | the in-memory store keeps to the contract until a lease lapses; its answers are genuine even then; until a lapse one request only takes effect; every request is answered. Quota limits hold over every interval, layers are charged together, Retry-After suffices | 3 requests, 2 bodies, 2 attempts, 2 lapses; 2 tenants with overrides, one breaker also checked alone, 4 ticks (the life of a key), 1 lost reply |
| `tenant_auth` | one active key, no deadlock, no early rotation, revoked for good; a token verifies through its window, and is spent once and by its own tenant | keys: 1 rotator, 2 revokers, 7 keys, 4 ticks; tokens: 1 revocation at a time, 5 keys, 7 ticks, a key read for signing in the first 4 (later ones repeat the round of rotation, retirement and pruning), 2 sessions of the tenant, 1 of another |
| `archiver` | a marked row has its object; an archiver writes an object at most once; every row that can be stored is archived. The history of an entity replays to its row, and no update is lost | 2 archivers, 4 rows of two kinds, 1 poison row, batches of 2, 2 failures, 1 signal; 3 clients, 1 entity, 2 contents, 3 changes, versions up to 3 (`i32::MAX`) |
| `kid_revocation` | a kid the process was told of is rejected; what is received takes effect | 2 nodes, 4 kids of which the listener ignores one, overlay of 1, 1 lost subscription, 1 restart |
| `redis_consumer` | no entry is lost; every entry that decodes is processed, unless it stays pending beside one that does not | 2 shards, 2 consumers, 2 entries on one shard or on two, those of one shard good or bad, calls of 2, 1 fault, start id "0" |
| `registry` | what is returned is signed, by a key that is not revoked; what was saved can be read back; what is installed is what was signed | 2 processes, 3 trust roots (one revokes a key under the same version, the next has a new version and retires the other key), 7 drafts of which 4 are refused, 2 names that share a path, a tampered and a genuine foreign manifest, 3 ticks, 2 failures |
| `sandboxes` | isolates are bounded, a cut is named, a call is cut by its own limit only, `check_url` means what the allowlist says, every hop is safe; every call ends | Deno: 1 permit, 3 calls, limits 2 and 1, 1 fault; Wasm: 2 calls, limit 2; fetch: every subset of 6 entries, 11 URLs, 4 addresses, redirects up to 3 (10 in the code), bodies up to 2 |

The bounds are the smallest at which every branch of the code is taken (TLC's coverage
shows no action and no disjunct that never fires) and two of everything that can
race do race. Counters that only bound the state space (`MaxCrashes`, `MaxFailures`,
`MaxDrops`, `MaxErrors`, `MaxFaults`, `MaxLapses`) appear in the guards of the faults,
never of the code's own steps. Deadlock checking is off where the bounded
system really ends (all requests answered, all rows archived, all calls made).

In `middleware` the values of the configuration keep the relations of the defaults: a bucket
refills within the life of its key (`TtlAssumption`), and the breaker's back-off refills one
cost. The code checks neither. With a breaker that takes longer to refill than its back-off
and 30 seconds, the key of an opened breaker expires early and its bucket comes back full:
TLC refutes `WithinLimit` then.

### Disagreements between the code and its documents

Three runs check what a document or a test of the repository says, and TLC finds it
violated; `PROJECT.json` quotes the lines.

| Run | Said | Done |
|---|---|---|
| `idempotency_memory_lapse` | a retry is not executed again | `try_acquire` drops the lock and inserts unconditionally: after a lapse two requests run the handler |
| `quota_skew` | the system hard limit is never exceeded | a caller's older `now` moves `last_refill` back and an interval is refilled twice |
| `entity_delete` | an entity that its tenant deletes is gone | `delete_entity` inserts a history row that refers to the entity, so the foreign key refuses the DELETE: no entity can be deleted. (`DeleteRow` keeps the branch of an accepted deletion, which is therefore unreachable) |

The models also contain these behaviours, which contradict a comment, a log line or a
document and which the properties above are stated around:

* The last event of a key is never delivered when its publish is lost: nothing reads
  unpublished outbox rows (`PublishLost`; `docs/implementation_plan.md` promises
  at-least-once delivery). `PublishedIsApplied` therefore speaks of published events.
* Writes of a key go on while its consumer requires a rebuild (`CreateEvent` has no such
  guard; the plan says that they must stop).
* `poll` reads new entries only, so a rejected entry comes back through `claim_pending`
  alone (`PollShard`, `ClaimShard`; the comment of `nack` names the next poll too).
* An entry that does not decode is never acknowledged and fails every `claim_pending` that
  reaches it, as well as the calls that claimed something before it. XAUTOCLAIM resets the
  idle time of all it returned, so the entries next to it are claimed and dropped with it
  again and again, although the comment of `nack` says that `claim_pending` "will eventually
  re-process the message" (`Undecodable`; `EveryEntryProcessed` excepts entries that stay pending
  together with a bad one, and TLC refutes it without the exception, with no fault at all).
* With the start id `"$"` a group that is created again skips what is on the stream, as
  the comment of `ensure_consumer_groups` warns (`FreshGroup`). The runs and `AtLeastOnce` are
  about the default, `"0"`.
* `poll` and `claim_pending` advance one start counter over 64 shards; strictly
  alternating calls never block on every second shard (`EnterScan`).
* A response stored between the second GET of `register_waiter` and the subscription of
  the listener is announced to nobody, and the waiter sleeps until its timeout
  (`Recheck`, `Subscribe`).
* The poll of `start_kid_revocation_listener` re-reads the environment of its own process,
  which does not change: a node that missed a message converges only by a restart
  (`PollEnv`).
* `RedisActionStore::record` logs a failed SET and returns: the response then names an
  action that `GET /actions/{action_id}` does not know. (Not modelled.)
* A signal that arrives during an archive cycle is lost (`CtrlC`).
* As many rows that can never be stored as a batch is large stop the archiver for good:
  the fetch orders by `created_at` and starts with them every time (`Fetch`; the run has fewer
  poison rows than that).
* `get_manifest` does not compare the id and version it was asked for with those of what
  it read; a genuine manifest that another program copies to another path is returned there
  (`ReturnedIsSigned` says so). Ids and versions may both contain slashes, so two names can
  share one object.
* A trust root with a new version makes every stored manifest unreadable, whatever its
  keys (`SavedIsReadable` requires the same version).
* `compile_limiter` of the Wasm sandbox never makes a call wait, as `execute` borrows the
  sandbox mutably, and its permit is freed when the future is dropped while the
  compilation goes on (`CompileThreadEnds`).
* A WASI sleep is reached by neither the epoch nor a timeout (`HostCall`;
  `EveryGuestEnds` excepts it).
* An allowlist entry `host:port` parses as a URL whose scheme is the host, and allows
  nothing (`UrlPrefixRules`).

## 4. Fairness

* Pipeline: weak fairness for each step of the consumer loop (strong for the recovery,
  which competes with redeliveries), and for publishes that are under way. A
  restart happens finitely often. Redis redelivers pending entries as long as
  `claim_pending` is called.
* Idempotency: weak fairness for the steps of each request and for the listener; tokio
  runs every ready task and the wait has a timer. Nothing is assumed about notifications.
* Consumer: some process keeps calling `poll` and some process `claim_pending`; calls
  return, deliveries are answered, and the idle time of a pending entry passes.
* Archiver: the interval keeps ticking and calls return; failures are finitely many.
* Kid revocation: the listener task runs and its connection is re-established.
* Sandboxes: threads are scheduled and time passes; V8 honours a termination, wasmtime looks
  at the epoch, reqwest keeps its timeout, a compilation ends. Strong fairness for the
  steps of a call, since a script that goes in and out of a fetch enables and disables
  them; a call has finitely many of them. Nothing is assumed of scripts, guests and servers.

## 5. Proofs

The modules named `*Proofs` are checked by TLAPS. Their theorems hold for every value of the
constants that satisfies the named assumptions: any number of processes, requests, keys, events
and faults. Bounds that only keep TLC's state space finite are arbitrary numbers here. A theorem about
a property that a run checks names that property in its statement. (`RunningHoldsLease` is proved of the
Redis store; the run that states it, `idempotency_memory_lapse`, shows that the in-memory store does not have it after a lapse.)

### Events

* **`TrackerCoherent`, `NoPrematureRebuild`, `SequenceNeverSkips`.** The inductive
  invariant is `IInv`, the conjunction of `TypeOK`, `GapCoherent` and `TimerBehindClock`.
  `GapCoherent` alone is not enough for the timeout property: only because the timer of
  the open gap never runs ahead of `missing_for` does a timer that has run out
  mean that this very number has been missing for the whole timeout. The proof has a lemma
  per method and a step per branch; the action properties follow from `IInv` and the
  actions.
* **`ExactlyOnceInOrder`, `AckAfterApply`, `RebuildMeansPurged`, `PipelineSequenced`,
  `PipelineRebuildTimely`.** `PipelineInv` adds to `IInv` what relates the outbox to the counter
  (`OutboxInv`: one writer at a time holds the next number, and every number up to the
  committed counter has its row or had it until retention) and the application to the tracker
  (`LogFollows`: the log is at most two events behind the expected number and at most one ahead of
  it, depending on the delivery and the replay in hand). That last part is what makes
  the guard of the apply site (`Applied`) sufficient in the window between a tracker that
  has moved on and an application that has not. The tracker's step lemmas are used as they are, since
  every step of the pipeline is a step of the tracker or leaves it alone, a restart apart.
* **`NoHistoryLost`, `WriteOnce`.** The first needs that the plan of a cycle names stored rows only
  (`PlanStored`), whichever archiver stored them. The second is a count: for each row, the writes
  so far and the archivers between their `head_object` and their `put_object` together never exceed the
  archivers (`WriteBudget`), and nobody was in between before the first write.
* **`NoUpdateLost`.** `EntityInv` says of every transaction (`TxnInv`) that its history rows lead from the committed
  row to its draft (`RowsLead`), that what its client knows is a past or the present of the row it sees
  (`KnowsPast`), and that between its two statements an update holds the row that its client knows
  (`UpdateHolds`). `IsPast` compares rows by version: the same version means the same contents, which is why the version check
  stands for a comparison of contents. `LocksApart` is what the row lock gives: only the holder adds to the history
  of an entity. Each entry is related to the one before it, so no fold over the history and no induction is needed.
* **`AtLeastOnce`.** Its hypothesis is the start id `"0"`. `NothingLost` is inductive with the types; the work is in the
  numbers: an XREADGROUP takes a run of entries without a hole (`Smallest`), so that the new last
  id leaves no entry behind, and a claim or a group that is created again does not
  move it past one.

### Idempotency and quota

* **`LeaseIsExclusive`, `AnswersAreGenuine`.** The inductive invariant `ContractInv` adds
  to the two properties that the entry was written by a request that held the lease with
  that request's hash (`EntryFromOwner`), and that only such requests run the handler or
  lapse (`HoldersAreOwners`). Without the first a replay could come from anywhere.
* **`RedisImplementsContract`, `RedisLeaseIsExclusive`, `RedisAnswersGenuine`.** Every step of the
  Redis store is a step of the contract under the mapping `executing <- Executing`, or a stutter.
  `RedisInv` is the contract's invariant, carried over by the lemmas of `IdempotencyContractProofs`,
  and `PcFits`: where a request is in the code tells whether it has held the lease and whether it
  is answered. The two invariants follow from the refinement.
* **`MemoryImplementsContract`, `MemoryAnswersGenuine`, `EffectOnce`.** `MemoryInv` has
  the same `PcFits`, that the entry belongs to a request that held the lease (`EntryOwned`), and that before a lapse
  nobody is in a branch that removes an entry (`NothingLapsed`) and a request that has taken effect holds the
  lease or has stored its response, even when its future was dropped (`EffectHeld`): the exclusion of the contract
  is not enough, as a holder that gave the lease back after its effect would let the next one in. The refinement and `EffectOnce` hold until a lapse only; the
  run `idempotency_memory_lapse` shows why.
* **`ChargedAllOrNone`.** Inductive as it stands, with the domains.
* **`LimitsHold`.** Its hypotheses are `ClocksAgree` (`quota_skew` shows that without it there is no limit)
  and `OneSystemLimit` (no tenant overrides the system's layer, as in the default configuration; two tenants with different
  limits would share one bucket). `Accounts` is the invariant of one bucket: over every
  interval up to now, what was taken and what is left (`Level`) together are at most the capacity and the refill of the interval.
  Without what is left it would not be inductive: a charge is paid for by the level. The second half says that a key
  expires only when its bucket would be full, by `TtlAssumption` and, for a charged breaker, because the
  script rounds the expiry up (`CeilCovers`); hence an expired bucket loses nothing when it comes back full.
  `QuotaSteps` reduces the actions to three kinds (charge, refuse, tick), each with a lemma for one bucket (`AccountsCharge`,
  `AccountsOpen`, `AccountsTick`).
* **`RetrySuffices`.** Its hypotheses are `ClocksAgree` and `RetryFits`: one request's cost fits the bucket, and a breaker's back-off and
  the system's longest Retry-After refill it. The defaults (costs of 1 and 5 against 10 tokens a second and more) are far within; the
  code checks none of it. `RetryInv`: from the advised time on the layer passes at every later time,
  not only now, and an open breaker holds the cost of a request when it closes, so that a second refusal, which only names the time left, is right as well.

### Keys, tokens and kids

* **`OneKeySigns`, `RevocationLasts`, `RotationIsDue`, `NoWaitingCircle`.** `KeyInv` says of every open transaction
  what its statement has locked and drafted (`Stage`), that every draft is an allowed successor of the
  committed row (`Allowed`: revoked stays revoked, active is retired only when due by the time the
  transaction goes by), and that a row put into an index is the only one the transaction sees there
  (`SoleDraft`). `Apart` is the isolation the database gives: no two transactions hold a row or
  touch the same entry of an index. Only because of it may a commit be judged by the committing
  transaction alone. `EnoughFree` counts unused kids, so that the model's supply does not run
  out within a transaction. A lemma for each kind of step (read, write, last write, rollback, commit)
  carries the invariant; the actions are instances. `NoWaitingCircle` follows from `Stage` and `Apart`: a transaction
  that holds a row and still waits is a rotation, or a revocation that replaces the active key, and
  touches the index entry of the active key (`WaitingHolder`); by `Apart` there is one at most, so what it waits
  for is held by a transaction that does not wait. The other order of locks, a revocation of the next key, is harmless
  because it asks for nothing more.
* **`TokensLeaveKeysAlone`, `RotationSparesTokens`.** The tokens are a stutter of the key manager.
  `KeyKept`: until the window of a token has passed, its key is active, revoked, or was retired by
  a transaction that was open when the key was read or began later. With `WindowAssumption` (two transactions and a token's
  window are shorter than the life of a retired key) neither the check on `retired_at` nor the
  pruning can reach it.
* **`TokenSpentOnce`.** `SpentInv` adds that a nonce is held by one session at most and
  is not spent yet, and that a scoped session is of the token's tenant.
* **`RevocationEnforced`.** `OverlayHolds`: until a node is saturated, every kid it was told of is in its environment
  or its overlay, which never exceeds its capacity. `RequestHeld`: a verification of such a kid, once past
  the saturation flag, will find it in the overlay, which cannot lose it.

### Registry and sandboxes

* **`ManifestsAreSigned`, `ArtifactsAreSigned`, `RevocationHolds`, `SavedStaysReadable`.**
  The inductive invariant `RegistryInv` adds to `ReturnedIsSigned` and `InstalledIsSigned` that
  an object lies at the path of its name unless another program put it there
  (`StoredAtItsPath`), that what a process returned it returned under the trust root it
  still has, with a key this root lets it use (`ReturnedUnderItsRoot`), and the types:
  the trust root is fixed between start and stop, which is why a check made
  in one step still means something in the next. Revocation follows from it and
  `RevocationAssumption` (a revoked key stays revoked in later roots). `SavedStaysReadable` needs
  a second invariant, `SavedIsWellSigned`: what is stored or about to be stored is complete and
  signed over its own digest, whenever it was verified.
* **`IsolatesStayBounded`, `LimitsAreNamed`.** `DenoInv` counts permits and isolates together
  (`PermitsAccount`), and keeps for each call that a raised flag has its reason (`FlagsHaveReason`)
  and that the outcome fits the flags (`OutcomeFits`).
* **`NoBorrowedTimeout`.** `WasmInv`: one watchdog at most is alive (`OneDog`) and it moves the
  epoch only when its own call has used up its time (`FiresInTime`).
* **`AllowlistIsExact`, `NoHopLeavesTheAllowlist`.** The first is a fact about `check_url` for every
  allowlist; its lemma `PathsAgree` shows that the test of the character after the
  prefix is the containment of paths. The second needs `HopChecked`: what is resolved and connected
  was checked for this very hop.

### Assumptions

All are named ASSUMEs, which TLC evaluates on the checked instances. They say that sets of processes, calls
and kids are finite (`ArchiversAssumption`, `ProcessAssumption`, `CallsAssumption`,
`WasmCallsAssumption`, `KidsAssumption`), that `None`, `NoRow` and `Unset` are not among the values (`NoneAssumption`,
`WorkAssumption`, `TokenAssumption`, `NoRowAssumption`, `UnsetAssumption`), what a parsed URL, a keyset, a manifest and a trust root are
(`UrlAssumption`, `KeysetsAssumption`, `ManifestAssumption`, `ForeignAssumption`, `SpellingAssumption`,
`RootsAssumption`), that single checks are for layers there are (`SinglesAssumption`), that the start id is one of two and undecodable entries are
entries (`StartAssumption`, `PoisonAssumption`), that the configured limits are positive numbers
(`LimitAssumption`; overrides are arbitrary numbers, `layer_config` sorts them out), and that bounds and times are numbers. Three are about the
deployment: `WindowAssumption` (the code's 30 seconds and 48 hours satisfy it for transactions that end within 23 hours),
`RevocationAssumption` and `TtlAssumption` (section 3). `ClocksAgree`, `OneSystemLimit` and `RetryFits` are hypotheses of their theorems only;
the instance of `middleware` satisfies them.

### Only model-checked

Every invariant and every action property of the passing runs has its theorem. The liveness properties
(`PublishedIsApplied`, `EveryRequestAnswered`, `EveryRecordArchived`, `ReceivedTakesEffect`, `EveryEntryProcessed`,
`EveryScriptEnds`, `EveryGuestEnds`) stay with TLC: fairness and `ENABLED` are outside of the prover. So does the
remark that a statement of the key manager that does not wait has a step (TLC finds `Waits` and the negation of `ENABLED` equal on the
states of `tenant_auth`).

## 6. Plan

Done: event delivery, idempotency with its in-memory action store, keys and tokens, kid
revocation, archiver, consumer, quota, entities and their history, registry and trust,
the sandboxes and their network access; the theorems of section 5.

Next:

1. `RedisActionStore` next to the Redis idempotency store.
2. The deletion of an entity, once the schema admits one (`entity_delete`).
3. A quota script that takes the time from Redis: `LimitsHold` then needs no `ClocksAgree`, as `Offsets` is `{0}`.
