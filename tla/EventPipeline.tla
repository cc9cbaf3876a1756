---------------------------- MODULE EventPipeline ----------------------------
(***************************************************************************)
(* The event system for one ordering key, end to end: transactions that    *)
(* create events (EventRepository::create_event inside with_tenant_tx),    *)
(* their publication (RedisProducer::publish), at-least-once delivery      *)
(* (RedisConsumer, seen through the ReliableConsumer trait) and a consumer *)
(* that drives a GapTracker.                                               *)
(*                                                                         *)
(* The loop that connects publish to a commit, and the loop that feeds the *)
(* tracker, belong to the callers of these crates: they follow the         *)
(* "Out-of-order Protocol" the trait documents and the notes of            *)
(* recover_gap, and are marked external.                                   *)
(***************************************************************************)
EXTENDS GapTracker, FiniteSets, Sequences

CONSTANTS
    Writers,      \* concurrent transactions that create events for the key
    MaxEvents,    \* bound: events created
    MaxCrashes    \* bound: restarts of the consumer

ASSUME EventsAssumption == MaxEvents \in Nat /\ MaxEvents < MaxSeq
ASSUME CrashAssumption == MaxCrashes \in Nat

\* The delivery, or the ReplayApply, that the consumer carries out.
Work == [seq : 1..MaxEvents, applied : BOOLEAN]
Replay == [gap : GapObservation, seq : 1..MaxEvents, applied : BOOLEAN]

ASSUME WorkAssumption == None \notin Work \cup Replay

VARIABLES
    last_seq,     \* the committed row of flexi.entity_seq / causality_seq
    outbox,       \* sequence numbers of the committed outbox rows
    writer,       \* writer w: its phase and the sequence number it holds
    purged,       \* history: sequence numbers of the rows retention removed
    published,    \* sequence numbers with an entry on the stream
    acked,        \* sequence numbers the consumer has acknowledged
    buffer,       \* deliveries set aside behind the open gap
    work,         \* the delivery resolved as Apply and not yet acknowledged
    replay,       \* the ReplayApply the consumer is carrying out
    log,          \* what the application has applied, in order
    crashes

outboxVars == <<last_seq, outbox, purged, writer, published>>
consumerVars == <<acked, buffer, work, replay, log, crashes>>
pipelineVars == <<vars, outboxVars, consumerVars>>

Idle == [phase |-> "idle", seq |-> 0]
Env(s) == [key |-> OrderingKey, seq |-> s]

-----------------------------------------------------------------------------
(***************************************************************************)
(* Writers.                                                                *)
(***************************************************************************)
\* next_entity_seq / next_causality_seq: INSERT ... ON CONFLICT DO UPDATE
\* takes the row lock of the counter until the transaction ends.
CounterLocked == \E w \in Writers : writer[w].phase = "tx"

CreateEvent(w) ==
    /\ writer[w] = Idle
    /\ ~CounterLocked
    /\ last_seq < MaxEvents
    /\ writer' = [writer EXCEPT ![w] = [phase |-> "tx", seq |-> last_seq + 1]]
    /\ UNCHANGED <<last_seq, outbox, purged, published, consumerVars, vars>>

\* The counter and the outbox row become visible together.
Commit(w) ==
    /\ last_seq' = writer[w].seq
    /\ outbox' = outbox \cup {writer[w].seq}

CommitTx(w) ==
    /\ writer[w].phase = "tx"
    /\ Commit(w)
    /\ writer' = [writer EXCEPT ![w].phase = "committed"]
    /\ UNCHANGED <<purged, published, consumerVars, vars>>

\* CommitUnknown: the commit happened but the caller got an error.
CommitUnknown(w) ==
    /\ writer[w].phase = "tx"
    /\ Commit(w)
    /\ writer' = [writer EXCEPT ![w] = Idle]
    /\ UNCHANGED <<purged, published, consumerVars, vars>>

\* Mutant: the counter is outside the transaction, as a database sequence is.
RollbackTx_BurnsNumber(w) ==
    /\ writer[w].phase = "tx"
    /\ last_seq' = writer[w].seq
    /\ writer' = [writer EXCEPT ![w] = Idle]
    /\ UNCHANGED <<outbox, purged, published, consumerVars, vars>>

\* The closure failed, the connection was lost or the process died.
RollbackTx(w) ==
    /\ writer[w].phase = "tx"
    /\ writer' = [writer EXCEPT ![w] = Idle]
    /\ UNCHANGED <<last_seq, outbox, purged, published, consumerVars, vars>>

\* XADD; a timed out publish may have added the entry all the same, and the
\* caller may try again.
Publish(w) ==
    /\ writer[w].phase = "committed"
    /\ published' = published \cup {writer[w].seq}
    /\ \/ writer' = [writer EXCEPT ![w] = Idle]
       \/ UNCHANGED writer
    /\ UNCHANGED <<last_seq, outbox, purged, consumerVars, vars>>

\* The writer gives up, or dies between its commit and its publish.
PublishLost(w) ==
    /\ writer[w].phase = "committed"
    /\ writer' = [writer EXCEPT ![w] = Idle]
    /\ UNCHANGED <<last_seq, outbox, purged, published, consumerVars, vars>>

\* Retention: a row leaves the outbox.
PurgeOutbox(s) ==
    /\ s \in outbox
    /\ outbox' = outbox \ {s}
    /\ purged' = purged \cup {s}
    /\ UNCHANGED <<last_seq, writer, published, consumerVars, vars>>

-----------------------------------------------------------------------------
(***************************************************************************)
(* The consumer.  It works on one delivery at a time.  An entry may be     *)
(* delivered in any order (claim_pending) and again after its ack (a       *)
(* publish that was repeated, a group recreated at "0").                   *)
(***************************************************************************)
\* Mutant: a delivery the tracker rejects is acknowledged.
RejectDelivery_Acks(s) ==
    /\ ObserveRejected(Env(s))
    /\ acked' = acked \cup {s}
    /\ UNCHANGED <<work, buffer>>

\* nack leaves the entry pending.
RejectDelivery(s) ==
    /\ ObserveRejected(Env(s))
    /\ UNCHANGED <<acked, work, buffer>>

Receive(s) ==
    /\ work = None
    /\ \/ /\ ObserveApply(Env(s))
          /\ work' = [seq |-> s, applied |-> FALSE]
          /\ buffer' = buffer \ {s}
          /\ UNCHANGED acked
       \/ /\ ObserveDuplicate(Env(s))
          /\ acked' = acked \cup {s}
          /\ buffer' = buffer \ {s}
          /\ UNCHANGED work
       \/ /\ ObserveGapDetected(Env(s)) \/ ObserveDeferred(Env(s))
          /\ buffer' = buffer \cup {s}
          /\ UNCHANGED <<acked, work>>
       \/ RejectDelivery(s)
    /\ UNCHANGED <<replay, log, crashes, outboxVars>>

Deliver(s) == s \in published \ buffer /\ Receive(s)

\* A buffered delivery goes back to observe_delivery once no gap is open.
Refeed(s) == s \in buffer /\ active_gap = None /\ Receive(s)

\* The apply site is idempotent: an event that was applied is not applied again.
Applied(s) == \E i \in DOMAIN log : log[i] = s
ApplyOnce(s) == log' = IF Applied(s) THEN log ELSE Append(log, s)

ApplyDelivery ==
    /\ work # None /\ ~work.applied
    /\ ApplyOnce(work.seq)
    /\ work' = [work EXCEPT !.applied = TRUE]
    /\ UNCHANGED <<acked, buffer, replay, crashes, outboxVars, vars>>

AckDelivery ==
    /\ work # None /\ work.applied
    /\ acked' = acked \cup {work.seq}
    /\ work' = None
    /\ UNCHANGED <<buffer, replay, log, crashes, outboxVars, vars>>

\* recover_gap with a lookup in the outbox; ReplayApply hands the event over.
\* The loop carries a ReplayApply out before it calls recover_gap again.
Recover ==
    /\ work = None /\ replay = None
    /\ GapDue
    /\ LET s  == active_gap.expected_seq
           ev == IF s \in outbox THEN Env(s) ELSE None
       IN  \/ /\ RecoverReplay(ev)
              /\ replay' = [gap |-> active_gap, seq |-> s, applied |-> FALSE]
           \/ /\ RecoverRebuild(ev)
              /\ replay' = None
    /\ UNCHANGED <<acked, buffer, work, log, crashes, outboxVars>>

ApplyReplay ==
    /\ work = None
    /\ replay # None /\ ~replay.applied
    /\ ApplyOnce(replay.seq)
    /\ replay' = [replay EXCEPT !.applied = TRUE]
    /\ UNCHANGED <<acked, buffer, work, crashes, outboxVars, vars>>

ConfirmReplay ==
    /\ work = None
    /\ replay # None /\ replay.applied
    /\ ConfirmGapReplay(replay.gap, Env(replay.seq))
    /\ replay' = None
    /\ UNCHANGED <<acked, buffer, work, log, crashes, outboxVars>>

\* The process restarts: only what was applied and acknowledged survives, and
\* a new tracker is created behind the last applied event.
Restart ==
    /\ crashes < MaxCrashes
    /\ crashes' = crashes + 1
    /\ expected_seq' = Len(log) + 1
    /\ state' = "Normal"
    /\ gap_started_at' = None
    /\ active_gap' = None
    /\ missing_for' = 0
    /\ buffer' = {}
    /\ work' = None
    /\ replay' = None
    /\ UNCHANGED <<acked, log, outboxVars>>

Wait == Tick /\ UNCHANGED <<outboxVars, consumerVars>>

-----------------------------------------------------------------------------
PipelineInit ==
    /\ expected_seq = 1
    /\ state = "Normal"
    /\ gap_started_at = None
    /\ active_gap = None
    /\ missing_for = 0
    /\ last_seq = 0
    /\ outbox = {}
    /\ purged = {}
    /\ writer = [w \in Writers |-> Idle]
    /\ published = {}
    /\ acked = {}
    /\ buffer = {}
    /\ work = None
    /\ replay = None
    /\ log = <<>>
    /\ crashes = 0

WriterNext ==
    \/ \E w \in Writers :
          \/ CreateEvent(w) \/ CommitTx(w) \/ CommitUnknown(w) \/ RollbackTx(w)
          \/ Publish(w) \/ PublishLost(w)
    \/ \E s \in outbox : PurgeOutbox(s)

ConsumerNext ==
    \/ \E s \in published : Deliver(s)
    \/ \E s \in buffer : Refeed(s)
    \/ ApplyDelivery
    \/ AckDelivery
    \/ Recover
    \/ ApplyReplay
    \/ ConfirmReplay

PipelineNext == WriterNext \/ ConsumerNext \/ Wait \/ Restart

PipelineSpec == PipelineInit /\ [][PipelineNext]_pipelineVars

(***************************************************************************)
(* The consumer keeps polling and claiming, carries out what the tracker   *)
(* tells it and calls recover_gap; time passes.  A writer that has         *)
(* committed publishes, or is lost.                                        *)
(***************************************************************************)
ConsumerFairness ==
    /\ \A s \in 1..MaxEvents :
          /\ WF_pipelineVars(s \in published \ acked /\ Deliver(s))
          /\ WF_pipelineVars(s \in buffer /\ Refeed(s))
    /\ WF_pipelineVars(ApplyDelivery)
    /\ WF_pipelineVars(AckDelivery)
    /\ SF_pipelineVars(Recover)
    /\ WF_pipelineVars(ApplyReplay)
    /\ WF_pipelineVars(ConfirmReplay)
    /\ WF_pipelineVars(Wait)

WriterFairness == \A w \in Writers : WF_pipelineVars(Publish(w) \/ PublishLost(w))

FairPipelineSpec == PipelineSpec /\ ConsumerFairness /\ WriterFairness

-----------------------------------------------------------------------------
\* The types of the pipeline's variables.
PipelineTypeOK ==
    /\ TypeOK
    /\ last_seq \in 0..MaxEvents
    /\ outbox \subseteq 1..MaxEvents
    /\ purged \subseteq Seqs
    /\ writer \in [Writers -> [phase : {"idle", "tx", "committed"}, seq : 0..MaxEvents]]
    /\ published \subseteq 1..MaxEvents
    /\ acked \subseteq 1..MaxEvents
    /\ buffer \subseteq 1..MaxEvents
    /\ work \in Work \cup {None}
    /\ replay \in Replay \cup {None}
    /\ log \in Seq(1..MaxEvents)
    /\ crashes \in 0..MaxCrashes

(***************************************************************************)
(* Whatever the order and the multiplicity of the deliveries, the replays  *)
(* and the restarts, the application has applied events 1..n in order and  *)
(* each of them once.                                                      *)
(***************************************************************************)
AppliedInOrder == log = [i \in 1..Len(log) |-> i]

(***************************************************************************)
(* An acknowledged entry was applied: ack never outruns the application,   *)
(* so a crash never loses an event.                                        *)
(***************************************************************************)
AckedWasApplied == acked \subseteq 1..Len(log)

(***************************************************************************)
(* Recovery gives up only on an event that retention removed from the      *)
(* outbox: sequence numbers are handed out under the counter's row lock    *)
(* and return to it on rollback, so every hole behind a published event    *)
(* has, or had, its outbox row.                                            *)
(***************************************************************************)
RebuildOnlyAfterPurge == state = "RebuildRequired" => expected_seq \in purged

(***************************************************************************)
(* Under any caller, and between the restarts of the consumer, the tracker *)
(* neither skips nor repeats a sequence number, and it never comes back    *)
(* from RebuildRequired.                                                   *)
(***************************************************************************)
SequencedBetweenRestarts == [][UNCHANGED crashes => StepInSequence]_pipelineVars

(***************************************************************************)
(* Every published event is applied in the end, although any predecessor   *)
(* of it may never have been published (its writer died after its commit), *)
(* unless the consumer asks for a rebuild.                                 *)
(***************************************************************************)
PublishedIsApplied ==
    \A s \in 1..MaxEvents :
        s \in published ~> (Applied(s) \/ state = "RebuildRequired")
=============================================================================
