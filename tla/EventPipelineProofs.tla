------------------------ MODULE EventPipelineProofs ------------------------
(***************************************************************************)
(* The events, from the outbox to the application.  The tracker is         *)
(* correct for every ordering key, every MaxSeq and every gap timeout,     *)
(* whatever its caller does.  For any number of writers, events, restarts  *)
(* and deliveries the events are applied in order and once, an             *)
(* acknowledged event was applied, and recovery gives up only on an event  *)
(* that retention removed.                                                 *)
(***************************************************************************)
EXTENDS EventPipeline, TLAPS

-----------------------------------------------------------------------------
(***************************************************************************)
(* The gap tracker.                                                        *)
(***************************************************************************)
USE KeyAssumption, MaxSeqAssumption, TimeoutAssumption, NoneAssumption

(***************************************************************************)
(* What progress_gap_recovery returns while a gap is open: it never leaves *)
(* the two states of an open gap when the outbox still has the event, and  *)
(* it ends a recovery in Normal.                                           *)
(***************************************************************************)
LEMMA ProgressWhileOpen ==
    /\ progress_gap_recovery("GapDetected", TRUE) = "Recovering"
    /\ progress_gap_recovery("Recovering", TRUE) = "Recovering"
    /\ progress_gap_recovery("Recovering", FALSE) = "Normal"
BY DEF progress_gap_recovery

\* The tracker starts coherent.
LEMMA InitIInv == Init => IInv
BY DEF Init, IInv, TypeOK, GapCoherent, TimerBehindClock, GapRecoveryState, Seqs

(***************************************************************************)
(* Moving an endpoint of an open gap gives a gap observation again.        *)
(***************************************************************************)
LEMMA NarrowedGap ==
    ASSUME NEW g \in GapObservation, NEW n \in Seqs
    PROVE  /\ [g EXCEPT !.expected_seq = n] \in GapObservation
           /\ [g EXCEPT !.expected_seq = n].expected_seq = n
           /\ [g EXCEPT !.expected_seq = n].actual_seq = g.actual_seq
           /\ [g EXCEPT !.expected_seq = n].ordering_key = g.ordering_key
           /\ [g EXCEPT !.actual_seq = n] \in GapObservation
           /\ [g EXCEPT !.actual_seq = n].expected_seq = g.expected_seq
           /\ [g EXCEPT !.actual_seq = n].actual_seq = n
           /\ [g EXCEPT !.actual_seq = n].ordering_key = g.ordering_key
BY DEF GapObservation

\* Every call keeps the tracker coherent and its timer behind the clock.
LEMMA NextIInv == IInv /\ [Next]_vars => IInv'
<1> SUFFICES ASSUME IInv, [Next]_vars PROVE IInv'
  OBVIOUS
<1> USE DEF IInv, TypeOK, GapCoherent, TimerBehindClock, GapRecoveryState
<1>1. ASSUME NEW d \in Envelope, ObserveApply(d) PROVE IInv'
  <2>1. CASE StillOpen(expected_seq + 1)
    <3>1. active_gap \in GapObservation /\ expected_seq + 1 \in Seqs
      BY <1>1, <2>1 DEF ObserveApply, StillOpen, Seqs
    <3>2. active_gap' = [active_gap EXCEPT !.expected_seq = expected_seq + 1]
          /\ gap_started_at' = 0 /\ missing_for' = 0
          /\ expected_seq' = expected_seq + 1
      BY <1>1, <2>1 DEF ObserveApply, NarrowGap
    <3>3. state' = "Recovering"
      BY <1>1, <2>1, ProgressWhileOpen DEF ObserveApply, StillOpen
    <3>4. active_gap' \in GapObservation /\ active_gap' # None
      BY <3>1, <3>2, NarrowedGap
    <3>5. /\ active_gap'.ordering_key = OrderingKey
          /\ active_gap'.expected_seq = expected_seq'
          /\ expected_seq' < active_gap'.actual_seq
      BY <2>1, <3>1, <3>2, NarrowedGap DEF StillOpen
    <3> QED BY <3>1, <3>2, <3>3, <3>4, <3>5
  <2>2. CASE ~StillOpen(expected_seq + 1)
    <3>1. expected_seq' \in Seqs
      BY <1>1 DEF ObserveApply, Seqs
    <3>2. /\ missing_for' = 0
          /\ state' = "Normal" /\ active_gap' = None /\ gap_started_at' = None
      BY <1>1, <2>2 DEF ObserveApply, CloseGap
    <3> QED BY <3>1, <3>2
  <2> QED BY <2>1, <2>2
<1>2. ASSUME NEW d \in Envelope, ObserveGapDetected(d) PROVE IInv'
  <2>1. d.seq \in Seqs /\ expected_seq < d.seq
    BY <1>2 DEF ObserveGapDetected, Rejects, Envelope, Seqs
  <2>2. gap_started_at = None
    BY <1>2 DEF ObserveGapDetected
  <2>3. active_gap' \in GapObservation
    BY <1>2, <2>1 DEF ObserveGapDetected, GapObservation
  <2> QED BY <1>2, <2>1, <2>2, <2>3 DEF ObserveGapDetected
<1>3. ASSUME NEW d \in Envelope, ObserveDeferred(d) PROVE IInv'
  <2>1. d.seq \in Seqs /\ expected_seq < d.seq /\ active_gap \in GapObservation
    BY <1>3 DEF ObserveDeferred, Rejects, Envelope, Seqs
  <2>2. /\ active_gap' \in GapObservation
        /\ active_gap'.ordering_key = active_gap.ordering_key
        /\ active_gap'.expected_seq = active_gap.expected_seq
        /\ expected_seq < active_gap'.actual_seq
    BY <1>3, <2>1, NarrowedGap DEF ObserveDeferred
  <2> QED BY <1>3, <2>1, <2>2 DEF ObserveDeferred
<1>4. ASSUME NEW ev \in Envelope \cup {None}, RecoverReplay(ev) PROVE IInv'
  <2>1. state' = "Recovering" /\ gap_started_at' = 0
    BY <1>4, ProgressWhileOpen DEF RecoverReplay, GapDue
  <2>2. active_gap # None /\ UNCHANGED <<expected_seq, active_gap, missing_for>>
    BY <1>4 DEF RecoverReplay, GapDue
  <2>3. 0 # None /\ missing_for >= 0
    OBVIOUS
  <2> QED BY <2>1, <2>2, <2>3
<1>5. ASSUME NEW ev \in Envelope \cup {None}, RecoverRebuild(ev) PROVE IInv'
  BY <1>5 DEF RecoverRebuild, CloseGap
<1>6. ASSUME NEW gap \in GapObservation, NEW ev \in Envelope, ConfirmAdvance(gap, ev)
      PROVE  IInv'
  <2>1. CASE StillOpen(expected_seq + 1)
    <3>1. active_gap \in GapObservation /\ expected_seq + 1 \in Seqs
      BY <1>6, <2>1 DEF ConfirmAdvance, StillOpen, Seqs
    <3>2. active_gap' = [active_gap EXCEPT !.expected_seq = expected_seq + 1]
          /\ gap_started_at' = 0 /\ missing_for' = 0
          /\ expected_seq' = expected_seq + 1
      BY <1>6, <2>1 DEF ConfirmAdvance, NarrowGap
    <3>3. state' = "Recovering"
      BY <1>6, <2>1, ProgressWhileOpen DEF ConfirmAdvance, StillOpen
    <3>4. active_gap' \in GapObservation /\ active_gap' # None
      BY <3>1, <3>2, NarrowedGap
    <3>5. /\ active_gap'.ordering_key = OrderingKey
          /\ active_gap'.expected_seq = expected_seq'
          /\ expected_seq' < active_gap'.actual_seq
      BY <2>1, <3>1, <3>2, NarrowedGap DEF StillOpen
    <3> QED BY <3>1, <3>2, <3>3, <3>4, <3>5
  <2>2. CASE ~StillOpen(expected_seq + 1)
    <3>1. expected_seq' \in Seqs
      BY <1>6 DEF ConfirmAdvance, Seqs
    <3>2. /\ missing_for' = 0
          /\ state' = "Normal" /\ active_gap' = None /\ gap_started_at' = None
      BY <1>6, <2>2, ProgressWhileOpen DEF ConfirmAdvance, CloseGap
    <3> QED BY <3>1, <3>2
  <2> QED BY <2>1, <2>2
<1>7. CASE Tick
  BY <1>7 DEF Tick, Later
<1>8. CASE UNCHANGED vars
  BY <1>8 DEF vars
<1> QED
  BY <1>1, <1>2, <1>3, <1>4, <1>5, <1>6, <1>7, <1>8
     DEF Next, ObserveDelivery, RecoverGap, ConfirmGapReplay, ObserveRejected,
         ObserveDuplicate, RecoverNothing, ConfirmStale, ConfirmRejected

(***************************************************************************)
(* Whatever the caller does, the tracker's fields keep their types and     *)
(* agree with each other: a gap is open exactly while the state says so.   *)
(***************************************************************************)
THEOREM TrackerCoherent == Spec => [](TypeOK /\ GapCoherent)
<1>1. IInv => TypeOK /\ GapCoherent
  BY DEF IInv
<1> QED BY InitIInv, NextIInv, <1>1, PTL DEF Spec

\* The step of the tracker that asks for a rebuild.
LEMMA RebuildStep ==
    ASSUME IInv, [Next]_vars, state # "RebuildRequired", state' = "RebuildRequired"
    PROVE  missing_for = GapTimeout
<1> USE DEF IInv, TypeOK, GapCoherent, TimerBehindClock, GapRecoveryState
<1>1. ASSUME NEW d \in Envelope, ObserveDelivery(d) PROVE FALSE
  <2>1. CASE ObserveApply(d)
    BY <2>1, ProgressWhileOpen DEF ObserveApply, StillOpen
  <2> QED
    BY <1>1, <2>1 DEF ObserveDelivery, ObserveRejected, ObserveDuplicate,
       ObserveGapDetected, ObserveDeferred, vars
<1>2. ASSUME NEW ev \in Envelope \cup {None}, RecoverGap(ev)
      PROVE  missing_for = GapTimeout
  <2>1. CASE RecoverReplay(ev)
    BY <2>1, ProgressWhileOpen DEF RecoverReplay, GapDue
  <2>2. CASE RecoverRebuild(ev)
    BY <2>2 DEF RecoverRebuild, GapDue
  <2> QED BY <1>2, <2>1, <2>2 DEF RecoverGap, RecoverNothing, vars
<1>3. ASSUME NEW gap \in GapObservation, NEW ev \in Envelope,
             ConfirmGapReplay(gap, ev)
      PROVE  FALSE
  <2>1. CASE ConfirmAdvance(gap, ev)
    BY <2>1, ProgressWhileOpen DEF ConfirmAdvance, ConfirmsActiveGap, StillOpen
  <2> QED BY <1>3, <2>1 DEF ConfirmGapReplay, ConfirmStale, ConfirmRejected, vars
<1> QED BY <1>1, <1>2, <1>3 DEF Next, Tick, vars

(***************************************************************************)
(* recover_gap asks for a rebuild only when the very sequence number it    *)
(* gives up on has been missing for the whole gap timeout.                 *)
(***************************************************************************)
THEOREM NoPrematureRebuild == Spec => RebuildOnlyAfterTimeout
<1>1. IInv /\ [Next]_vars =>
         (state # "RebuildRequired" /\ state' = "RebuildRequired" => missing_for = GapTimeout)
  BY RebuildStep
<1> QED BY InitIInv, NextIInv, <1>1, PTL DEF Spec, RebuildOnlyAfterTimeout

\* A step of the tracker, whoever calls it.
LEMMA SequenceStep ==
    ASSUME IInv, [Next]_vars
    PROVE  StepInSequence
<1> USE MaxSeqAssumption DEF IInv, TypeOK, GapCoherent, StepInSequence, Seqs
<1>1. ASSUME NEW d \in Envelope, ObserveDelivery(d)
      PROVE  StepInSequence
  <2>1. CASE ObserveApply(d)
    <3>1. expected_seq < MaxSeq /\ expected_seq' = expected_seq + 1 /\ state # "RebuildRequired"
      BY <2>1 DEF ObserveApply, Rejects
    <3> QED BY <3>1
  <2>2. CASE expected_seq' = expected_seq /\ (state = "RebuildRequired" => UNCHANGED trackerVars)
    BY <2>2
  <2> QED BY <1>1, <2>1, <2>2 DEF ObserveDelivery, ObserveRejected, ObserveDuplicate,
     ObserveGapDetected, ObserveDeferred, Rejects, vars, trackerVars
<1>2. ASSUME NEW ev \in Envelope \cup {None}, RecoverGap(ev)
      PROVE  StepInSequence
  BY <1>2 DEF RecoverGap, RecoverNothing, RecoverReplay, RecoverRebuild, GapDue,
     vars, trackerVars
<1>3. ASSUME NEW gap \in GapObservation, NEW ev \in Envelope,
             ConfirmGapReplay(gap, ev)
      PROVE  StepInSequence
  <2>1. CASE ConfirmAdvance(gap, ev)
    <3>1. expected_seq < MaxSeq /\ expected_seq' = expected_seq + 1 /\ active_gap # None
      BY <2>1 DEF ConfirmAdvance, ConfirmsActiveGap
    <3> QED BY <3>1
  <2>2. CASE UNCHANGED vars
    BY <2>2 DEF vars, trackerVars
  <2> QED BY <1>3, <2>1, <2>2 DEF ConfirmGapReplay, ConfirmStale, ConfirmRejected
<1>4. CASE Tick
  BY <1>4 DEF Tick
<1> QED BY <1>1, <1>2, <1>3, <1>4 DEF Next, vars, trackerVars

(***************************************************************************)
(* No call skips or repeats a sequence number, and RebuildRequired is      *)
(* absorbing.                                                              *)
(***************************************************************************)
THEOREM SequenceNeverSkips == Spec => NeverSkips
<1>1. IInv /\ [Next]_vars => StepInSequence
  BY SequenceStep
<1> QED BY InitIInv, NextIInv, <1>1, PTL DEF Spec, NeverSkips

USE EventsAssumption, CrashAssumption, WorkAssumption

-----------------------------------------------------------------------------
(***************************************************************************)
(* The inductive invariant: the tracker's, one about the outbox and one    *)
(* that relates the tracker to what the application has applied.           *)
(***************************************************************************)
\* One transaction at a time holds the next sequence number; a committed number
\* has, or had, its outbox row, and only committed numbers are published.
OutboxInv ==
    /\ \A w \in Writers : writer[w].phase = "tx" => writer[w].seq = last_seq + 1
    /\ \A v, w \in Writers : writer[v].phase = "tx" /\ writer[w].phase = "tx" => v = w
    /\ \A w \in Writers : writer[w].phase = "committed" => writer[w].seq \in 1..last_seq
    /\ 1..last_seq \subseteq outbox \cup purged
    /\ published \subseteq 1..last_seq

\* The application is at most two events behind the tracker and at most one
\* ahead of it (a replay that is applied and not confirmed); it is two behind only
\* while the delivery the tracker has let pass is not applied yet.
LogFollows ==
    /\ Len(log) + 2 >= expected_seq /\ Len(log) <= expected_seq
    /\ work = None => Len(log) + 1 >= expected_seq
    /\ work # None => work.seq + 1 = expected_seq
                      /\ (work.applied => Len(log) + 1 >= expected_seq)
    /\ replay # None => replay.seq <= expected_seq
                        /\ (replay.applied => replay.seq <= Len(log))

\* What the tracker has seen beyond a gap was published.
SeenWasPublished ==
    /\ buffer \subseteq published
    /\ active_gap # None => active_gap.actual_seq <= last_seq

ConsumerInv ==
    LogFollows /\ SeenWasPublished /\ AppliedInOrder /\ AckedWasApplied /\ RebuildOnlyAfterPurge

PipelineInv == IInv /\ PipelineTypeOK /\ OutboxInv /\ expected_seq >= 1 /\ ConsumerInv

-----------------------------------------------------------------------------
(***************************************************************************)
(* The apply site.                                                         *)
(***************************************************************************)
\* While the log is 1..n, an event is applied when its number is at most n.
LEMMA AppliedIsInLog ==
    ASSUME log \in Seq(1..MaxEvents), AppliedInOrder, NEW s \in 1..MaxEvents
    PROVE  Applied(s) <=> s <= Len(log)
<1>1. Len(log) \in Nat /\ DOMAIN log = 1..Len(log)
  OBVIOUS
<1>2. \A i \in 1..Len(log) : log[i] = i
  BY DEF AppliedInOrder
<1> QED BY <1>1, <1>2 DEF Applied

\* ApplyOnce of the next event, or of one that was applied, keeps the order.
LEMMA ApplyOnceInOrder ==
    ASSUME log \in Seq(1..MaxEvents), AppliedInOrder, NEW s \in 1..MaxEvents,
           s <= Len(log) + 1, ApplyOnce(s)
    PROVE  /\ log' \in Seq(1..MaxEvents)
           /\ AppliedInOrder'
           /\ Len(log') = IF s = Len(log) + 1 THEN Len(log) + 1 ELSE Len(log)
<1>1. Len(log) \in Nat
  OBVIOUS
<1>2. CASE s <= Len(log)
  <2>1. log' = log
    BY <1>2, AppliedIsInLog DEF ApplyOnce
  <2>2. AppliedInOrder'
    BY <2>1 DEF AppliedInOrder
  <2>3. s # Len(log) + 1
    BY <1>1, <1>2
  <2> QED BY <2>1, <2>2, <2>3
<1>3. CASE s = Len(log) + 1
  <2>1. log' = Append(log, s)
    BY <1>1, <1>3, AppliedIsInLog DEF ApplyOnce
  <2>2. log' \in Seq(1..MaxEvents) /\ Len(log') = Len(log) + 1
    BY <2>1
  <2>3. \A i \in 1..Len(log') : log'[i] = i
    <3> TAKE i \in 1..Len(log')
    <3>1. CASE i = Len(log) + 1
      BY <1>3, <2>1, <3>1
    <3>2. CASE i \in 1..Len(log)
      <4>1. log'[i] = log[i]
        BY <2>1, <3>2
      <4> QED BY <3>2, <4>1 DEF AppliedInOrder
    <3> QED BY <1>1, <2>2, <3>1, <3>2
  <2>4. log' = [i \in 1..Len(log') |-> log'[i]]
    BY <2>2
  <2>5. AppliedInOrder'
    BY <2>3, <2>4 DEF AppliedInOrder
  <2> QED BY <1>3, <2>2, <2>5
<1> QED BY <1>1, <1>2, <1>3

-----------------------------------------------------------------------------
(***************************************************************************)
(* To the tracker, the pipeline is one of its callers.                     *)
(***************************************************************************)
LEMMA EnvelopeOfEvent ==
    ASSUME NEW s \in 1..MaxEvents
    PROVE  Env(s) \in Envelope /\ Env(s).key = OrderingKey /\ Env(s).seq = s /\ s \in Seqs
BY DEF Env, Envelope, Seqs

LEMMA TrackerIsCalled ==
    ASSUME PipelineTypeOK, [PipelineNext]_pipelineVars
    PROVE  [Next]_vars \/ Restart
<1>1. ASSUME WriterNext PROVE UNCHANGED vars
  BY <1>1 DEF WriterNext, CreateEvent, CommitTx, CommitUnknown, RollbackTx, Publish, PublishLost,
     PurgeOutbox
<1>2. ASSUME NEW s \in 1..MaxEvents, Receive(s) PROVE Next
  <2>1. ObserveDelivery(Env(s))
    BY <1>2 DEF Receive, RejectDelivery, ObserveDelivery
  <2> QED BY <2>1, EnvelopeOfEvent DEF Next
<1>3. ASSUME ConsumerNext PROVE [Next]_vars
  <2>1. CASE \E s \in published : Deliver(s)
    BY <1>2, <2>1 DEF Deliver, PipelineTypeOK
  <2>2. CASE \E s \in buffer : Refeed(s)
    BY <1>2, <2>2 DEF Refeed, PipelineTypeOK
  <2>3. CASE ApplyDelivery \/ AckDelivery \/ ApplyReplay
    BY <2>3 DEF ApplyDelivery, AckDelivery, ApplyReplay
  <2>4. CASE Recover
    <3> DEFINE s == active_gap.expected_seq
               ev == IF s \in outbox THEN Env(s) ELSE None
    <3>1. ev \in Envelope \cup {None}
      BY EnvelopeOfEvent DEF PipelineTypeOK
    <3>2. RecoverGap(ev)
      BY <2>4 DEF Recover, RecoverGap
    <3> QED BY <3>1, <3>2 DEF Next
  <2>5. CASE ConfirmReplay
    <3>1. replay.gap \in GapObservation /\ replay.seq \in 1..MaxEvents
      BY <2>5 DEF ConfirmReplay, PipelineTypeOK, Replay
    <3> QED BY <2>5, <3>1, EnvelopeOfEvent DEF ConfirmReplay, Next
  <2> QED BY <1>3, <2>1, <2>2, <2>3, <2>4, <2>5 DEF ConsumerNext
<1>4. ASSUME Wait PROVE Next
  BY <1>4 DEF Wait, Next
<1> QED BY <1>1, <1>3, <1>4 DEF PipelineNext, pipelineVars

-----------------------------------------------------------------------------
(***************************************************************************)
(* Writers and retention.                                                  *)
(***************************************************************************)
\* The types of what the writers and retention work on.
OutboxTypes ==
    /\ last_seq \in 0..MaxEvents
    /\ outbox \subseteq 1..MaxEvents
    /\ purged \subseteq Seqs
    /\ writer \in [Writers -> [phase : {"idle", "tx", "committed"}, seq : 0..MaxEvents]]
    /\ published \subseteq 1..MaxEvents

\* The types of what the consumer works on.
ConsumerTypes ==
    /\ acked \subseteq 1..MaxEvents
    /\ buffer \subseteq 1..MaxEvents
    /\ work \in Work \cup {None}
    /\ replay \in Replay \cup {None}
    /\ log \in Seq(1..MaxEvents)
    /\ crashes \in 0..MaxCrashes

LEMMA TypesSplit == PipelineTypeOK <=> TypeOK /\ OutboxTypes /\ ConsumerTypes
BY DEF PipelineTypeOK, OutboxTypes, ConsumerTypes

\* What the consumer relies on is kept while numbers are only added.
LEMMA ConsumerKept ==
    ASSUME PipelineInv, UNCHANGED <<vars, consumerVars>>, OutboxTypes',
           last_seq <= last_seq', published \subseteq published', purged \subseteq purged',
           OutboxInv'
    PROVE  PipelineInv'
<1> USE DEF PipelineInv, vars, consumerVars
<1>1. IInv' /\ TypeOK'
  BY DEF IInv, TypeOK, GapCoherent, TimerBehindClock
<1>2. ConsumerTypes'
  BY TypesSplit DEF ConsumerTypes
<1>3. LogFollows'
  BY DEF ConsumerInv, LogFollows
<1>4. active_gap # None => active_gap.actual_seq \in Nat
  BY DEF IInv, TypeOK, GapObservation, Seqs
<1>5. SeenWasPublished'
  BY <1>4, TypesSplit DEF ConsumerInv, SeenWasPublished, OutboxTypes
<1>6. AppliedInOrder' /\ AckedWasApplied' /\ RebuildOnlyAfterPurge'
  BY DEF ConsumerInv, AppliedInOrder, AckedWasApplied, RebuildOnlyAfterPurge
<1>7. PipelineTypeOK'
  BY <1>1, <1>2 DEF PipelineTypeOK, OutboxTypes, ConsumerTypes
<1> QED BY <1>1, <1>3, <1>5, <1>6, <1>7 DEF ConsumerInv

LEMMA CommitInv ==
    ASSUME OutboxTypes, OutboxInv, NEW w \in Writers, writer[w].phase = "tx", Commit(w),
           NEW x \in [phase : {"idle", "committed"}, seq : 0..MaxEvents],
           x.phase = "committed" => x.seq = writer[w].seq,
           writer' = [writer EXCEPT ![w] = x], UNCHANGED <<purged, published>>
    PROVE  OutboxTypes' /\ OutboxInv' /\ last_seq <= last_seq'
<1> USE DEF OutboxTypes, OutboxInv, Commit
<1>1. writer[w].seq = last_seq + 1 /\ writer[w].seq \in 0..MaxEvents
  OBVIOUS
<1>2. last_seq' = last_seq + 1 /\ outbox' = outbox \cup {last_seq + 1}
  BY <1>1
<1>3. OutboxTypes'
  BY <1>1, <1>2
<1>4. \A v \in Writers : writer'[v].phase # "tx"
  OBVIOUS
<1>5. \A v \in Writers : writer'[v].phase = "committed" => writer'[v].seq \in 1..last_seq'
  BY <1>1, <1>2
<1>6. 1..last_seq' \subseteq outbox' \cup purged'
  BY <1>1, <1>2
<1>7. published' \subseteq 1..last_seq'
  BY <1>1, <1>2
<1> QED BY <1>2, <1>3, <1>4, <1>5, <1>6, <1>7

LEMMA WriterNextInv == ASSUME PipelineInv, WriterNext PROVE PipelineInv'
<1>0. OutboxTypes /\ OutboxInv
  BY TypesSplit DEF PipelineInv
<1>1. ASSUME NEW w \in Writers, CreateEvent(w) PROVE PipelineInv'
  <2> DEFINE x == [phase |-> "tx", seq |-> last_seq + 1]
  <2>1. writer' = [writer EXCEPT ![w] = x] /\ UNCHANGED <<last_seq, outbox, purged, published, consumerVars, vars>>
    BY <1>1 DEF CreateEvent
  <2>2. x \in [phase : {"idle", "tx", "committed"}, seq : 0..MaxEvents]
    BY <1>0, <1>1 DEF CreateEvent, OutboxTypes
  <2>3. \A v \in Writers : writer[v].phase # "tx"
    BY <1>1 DEF CreateEvent, CounterLocked
  <2>4. OutboxTypes'
    BY <1>0, <2>1, <2>2 DEF OutboxTypes
  <2>5. OutboxInv'
    BY <1>0, <2>1, <2>3 DEF OutboxInv, OutboxTypes
  <2>6. last_seq <= last_seq'
    BY <1>0, <2>1 DEF OutboxTypes
  <2> QED BY <2>1, <2>4, <2>5, <2>6, ConsumerKept
<1>2. ASSUME NEW w \in Writers, CommitTx(w) PROVE PipelineInv'
  <2>1. [writer[w] EXCEPT !.phase = "committed"] \in [phase : {"idle", "committed"}, seq : 0..MaxEvents]
    BY <1>0 DEF OutboxTypes
  <2>2. [writer[w] EXCEPT !.phase = "committed"].seq = writer[w].seq
    BY <1>0 DEF OutboxTypes
  <2>3. writer' = [writer EXCEPT ![w] = [writer[w] EXCEPT !.phase = "committed"]]
    BY <1>2 DEF CommitTx
  <2>4. OutboxTypes' /\ OutboxInv' /\ last_seq <= last_seq'
    BY <1>0, <1>2, <2>1, <2>2, <2>3, CommitInv DEF CommitTx
  <2> QED BY <1>2, <2>4, ConsumerKept DEF CommitTx
<1>3. ASSUME NEW w \in Writers, CommitUnknown(w) PROVE PipelineInv'
  <2>1. Idle \in [phase : {"idle", "committed"}, seq : 0..MaxEvents] /\ Idle.phase # "committed"
    BY DEF Idle
  <2>2. OutboxTypes' /\ OutboxInv' /\ last_seq <= last_seq'
    BY <1>0, <1>3, <2>1, CommitInv DEF CommitUnknown
  <2> QED BY <1>3, <2>2, ConsumerKept DEF CommitUnknown
<1>4. ASSUME NEW w \in Writers, RollbackTx(w) \/ PublishLost(w) PROVE PipelineInv'
  <2>1. writer' = [writer EXCEPT ![w] = Idle] /\ UNCHANGED <<last_seq, outbox, purged, published, consumerVars, vars>>
    BY <1>4 DEF RollbackTx, PublishLost
  <2>2. OutboxTypes' /\ OutboxInv' /\ last_seq <= last_seq'
    BY <1>0, <2>1 DEF OutboxTypes, OutboxInv, Idle
  <2> QED BY <2>1, <2>2, ConsumerKept
<1>5. ASSUME NEW w \in Writers, Publish(w) PROVE PipelineInv'
  <2>1. writer[w].seq \in 1..last_seq /\ published' = published \cup {writer[w].seq}
    BY <1>0, <1>5 DEF Publish, OutboxInv
  <2>2. writer' = [writer EXCEPT ![w] = Idle] \/ writer' = writer
    BY <1>5 DEF Publish
  <2>3. UNCHANGED <<last_seq, outbox, purged, consumerVars, vars>>
    BY <1>5 DEF Publish
  <2>4. published' \subseteq 1..last_seq /\ published' \subseteq 1..MaxEvents /\ last_seq <= last_seq'
    <3>1. last_seq \in 0..MaxEvents /\ last_seq' = last_seq /\ published \subseteq 1..last_seq
      BY <1>0, <2>3 DEF OutboxInv, OutboxTypes
    <3>2. published' \subseteq 1..last_seq
      BY <2>1, <3>1, Zenon
    <3>3. 1..last_seq \subseteq 1..MaxEvents /\ last_seq <= last_seq'
      BY <3>1
    <3> QED BY <3>2, <3>3, Zenon
  <2>5. OutboxTypes' /\ OutboxInv'
    <3>1. CASE writer' = [writer EXCEPT ![w] = Idle]
      BY <1>0, <2>3, <2>4, <3>1 DEF OutboxInv, OutboxTypes, Idle
    <3>2. CASE writer' = writer
      BY <1>0, <2>3, <2>4, <3>2 DEF OutboxInv, OutboxTypes
    <3> QED BY <2>2, <3>1, <3>2
  <2> QED BY <2>1, <2>3, <2>4, <2>5, ConsumerKept
<1>6. ASSUME NEW s \in outbox, PurgeOutbox(s) PROVE PipelineInv'
  <2>1. OutboxTypes' /\ OutboxInv' /\ last_seq <= last_seq'
    BY <1>0, <1>6 DEF PurgeOutbox, OutboxTypes, OutboxInv, Seqs
  <2> QED BY <1>6, <2>1, ConsumerKept DEF PurgeOutbox
<1> QED BY <1>1, <1>2, <1>3, <1>4, <1>5, <1>6 DEF WriterNext

-----------------------------------------------------------------------------
(***************************************************************************)
(* The consumer.                                                           *)
(***************************************************************************)
LEMMA OutboxKept ==
    ASSUME PipelineInv, UNCHANGED outboxVars, IInv', ConsumerTypes', expected_seq' >= 1, ConsumerInv'
    PROVE  PipelineInv'
<1>1. PipelineTypeOK'
  BY TypesSplit DEF PipelineInv, PipelineTypeOK, OutboxTypes, ConsumerTypes, outboxVars, IInv
<1>2. OutboxInv'
  BY DEF PipelineInv, OutboxInv, outboxVars
<1> QED BY <1>1, <1>2 DEF PipelineInv

\* The facts about the present state the steps of the consumer use.
LEMMA PipelineFacts ==
    ASSUME PipelineInv
    PROVE  /\ IInv /\ TypeOK /\ ConsumerTypes /\ ConsumerInv /\ OutboxInv
           /\ expected_seq \in Nat /\ expected_seq >= 1 /\ Len(log) \in Nat
           /\ last_seq \in Nat /\ last_seq <= MaxEvents
BY TypesSplit DEF PipelineInv, OutboxTypes, ConsumerTypes, IInv, TypeOK, Seqs

\* The tracker lets a delivery pass or confirms a replay: an open gap keeps its
\* upper end, and no rebuild is required.
LEMMA GapNarrows ==
    ASSUME IInv, expected_seq + 1 \in Seqs,
           \/ StillOpen(expected_seq + 1) /\ NarrowGap(expected_seq + 1)
           \/ CloseGap
    PROVE  active_gap' # None => active_gap # None /\ active_gap'.actual_seq = active_gap.actual_seq
<1>1. CASE CloseGap
  BY <1>1 DEF CloseGap
<1>2. CASE StillOpen(expected_seq + 1) /\ NarrowGap(expected_seq + 1)
  <2>1. active_gap \in GapObservation
    BY <1>2 DEF StillOpen, IInv, TypeOK
  <2>2. active_gap' = [active_gap EXCEPT !.expected_seq = expected_seq + 1]
    BY <1>2 DEF NarrowGap
  <2> QED BY <2>1, <2>2, NarrowedGap
<1> QED BY <1>1, <1>2

LEMMA ReceiveInv ==
    ASSUME PipelineInv, NEW s \in published, Receive(s)
    PROVE  PipelineInv'
<1> USE PipelineFacts
<1>1. s \in 1..last_seq /\ s \in 1..MaxEvents
  BY DEF OutboxInv
<1>2. Env(s) \in Envelope /\ Env(s).key = OrderingKey /\ Env(s).seq = s /\ s \in Seqs
  BY <1>1, EnvelopeOfEvent
<1>3. IInv'
  <2>1. ObserveDelivery(Env(s))
    BY DEF Receive, RejectDelivery, ObserveDelivery
  <2> QED BY <1>2, <2>1, NextIInv DEF Next
<1>4. UNCHANGED <<replay, log, crashes, outboxVars>> /\ work = None
  BY DEF Receive
<1>5. UNCHANGED <<last_seq, purged, published>>
  BY <1>4 DEF outboxVars
<1>6. CASE /\ ObserveApply(Env(s)) /\ work' = [seq |-> s, applied |-> FALSE]
           /\ buffer' = buffer \ {s} /\ UNCHANGED acked
  <2>1. s = expected_seq /\ expected_seq' = expected_seq + 1 /\ expected_seq < MaxSeq
    BY <1>2, <1>6 DEF ObserveApply
  <2>2. work' \in Work /\ work'.seq = s /\ ~work'.applied
    BY <1>1, <1>6 DEF Work
  <2>3. ConsumerTypes'
    BY <1>4, <1>6, <2>2 DEF ConsumerTypes
  <2>4. LogFollows'
    <3>1. Len(log) + 1 >= expected_seq /\ Len(log) <= expected_seq
      BY <1>4 DEF ConsumerInv, LogFollows
    <3>2. work' # None
      BY <2>2
    <3>3. replay # None => replay.seq \in Nat /\ replay.seq <= expected_seq
                           /\ (replay.applied => replay.seq <= Len(log))
      BY DEF ConsumerInv, LogFollows, ConsumerTypes, Replay
    <3> QED BY <1>4, <2>1, <2>2, <3>1, <3>2, <3>3 DEF LogFollows
  <2>5. active_gap' # None => active_gap # None /\ active_gap'.actual_seq = active_gap.actual_seq
    <3>1. expected_seq + 1 \in Seqs
      BY <2>1 DEF Seqs
    <3> QED BY <1>6, <3>1, GapNarrows DEF ObserveApply
  <2>6. SeenWasPublished'
    BY <1>5, <1>6, <2>5 DEF ConsumerInv, SeenWasPublished
  <2>7. state' # "RebuildRequired"
    BY <1>6, ProgressWhileOpen DEF ObserveApply, Rejects, StillOpen, IInv, GapCoherent
  <2>8. AppliedInOrder' /\ AckedWasApplied' /\ RebuildOnlyAfterPurge'
    BY <1>4, <1>6, <2>7 DEF ConsumerInv, AppliedInOrder, AckedWasApplied, RebuildOnlyAfterPurge
  <2>9. ConsumerInv'
    BY <2>4, <2>6, <2>8 DEF ConsumerInv
  <2> QED BY <1>3, <1>4, <2>1, <2>3, <2>9, OutboxKept
<1>7. CASE /\ ObserveDuplicate(Env(s)) /\ acked' = acked \cup {s}
           /\ buffer' = buffer \ {s} /\ UNCHANGED work
  <2>1. s < expected_seq /\ UNCHANGED vars
    BY <1>2, <1>7 DEF ObserveDuplicate
  <2>2. s \in 1..Len(log)
    BY <1>1, <1>4, <2>1 DEF ConsumerInv, LogFollows
  <2>3. ConsumerTypes'
    BY <1>1, <1>4, <1>7 DEF ConsumerTypes
  <2>4. AckedWasApplied'
    BY <1>4, <1>7, <2>2, Zenon DEF ConsumerInv, AckedWasApplied
  <2>5. LogFollows' /\ SeenWasPublished' /\ AppliedInOrder' /\ RebuildOnlyAfterPurge'
    BY <1>4, <1>5, <1>7, <2>1 DEF vars, ConsumerInv, LogFollows, SeenWasPublished, AppliedInOrder,
       RebuildOnlyAfterPurge
  <2> QED BY <1>3, <1>4, <2>1, <2>3, <2>4, <2>5, OutboxKept DEF ConsumerInv, vars
<1>8. CASE /\ ObserveGapDetected(Env(s)) \/ ObserveDeferred(Env(s))
           /\ buffer' = buffer \cup {s} /\ UNCHANGED <<acked, work>>
  <2>1. expected_seq' = expected_seq
    BY <1>8 DEF ObserveGapDetected, ObserveDeferred
  <2>2. state' # "RebuildRequired"
    BY <1>8 DEF ObserveGapDetected, ObserveDeferred, Rejects
  <2>3. active_gap' # None => active_gap'.actual_seq = s
                              \/ (active_gap # None /\ active_gap'.actual_seq = active_gap.actual_seq)
    <3>1. CASE ObserveGapDetected(Env(s))
      BY <1>2, <3>1 DEF ObserveGapDetected
    <3>2. CASE ObserveDeferred(Env(s))
      <4>1. active_gap \in GapObservation
        BY <3>2 DEF ObserveDeferred, IInv, TypeOK
      <4> QED BY <1>2, <3>2, <4>1, NarrowedGap DEF ObserveDeferred
    <3> QED BY <1>8, <3>1, <3>2
  <2>4. ConsumerTypes'
    BY <1>1, <1>4, <1>8 DEF ConsumerTypes
  <2>5. SeenWasPublished'
    BY <1>1, <1>5, <1>8, <2>3 DEF ConsumerInv, SeenWasPublished
  <2>6. LogFollows'
    BY <1>4, <1>8, <2>1 DEF ConsumerInv, LogFollows
  <2>7. AppliedInOrder' /\ AckedWasApplied' /\ RebuildOnlyAfterPurge'
    BY <1>4, <1>8, <2>2 DEF ConsumerInv, AppliedInOrder, AckedWasApplied, RebuildOnlyAfterPurge
  <2> QED BY <1>3, <1>4, <2>1, <2>4, <2>5, <2>6, <2>7, OutboxKept DEF ConsumerInv
<1>9. CASE RejectDelivery(s)
  <2>1. UNCHANGED <<vars, acked, work, buffer>>
    BY <1>9 DEF RejectDelivery, ObserveRejected
  <2>2. ConsumerTypes'
    BY <1>4, <2>1 DEF ConsumerTypes
  <2>3. ConsumerInv'
    BY <1>4, <1>5, <2>1 DEF vars, ConsumerInv, LogFollows, SeenWasPublished, AppliedInOrder,
       AckedWasApplied, RebuildOnlyAfterPurge
  <2> QED BY <1>3, <1>4, <2>1, <2>2, <2>3, OutboxKept DEF vars
<1> QED BY <1>6, <1>7, <1>8, <1>9 DEF Receive

LEMMA ApplyDeliveryInv ==
    ASSUME PipelineInv, ApplyDelivery
    PROVE  PipelineInv'
<1> USE PipelineFacts
<1>1. work \in Work /\ work.seq \in 1..MaxEvents /\ work.seq + 1 = expected_seq
  BY DEF ApplyDelivery, ConsumerTypes, ConsumerInv, LogFollows, Work
<1>2. UNCHANGED <<acked, buffer, replay, crashes, outboxVars, vars>> /\ ApplyOnce(work.seq)
  BY DEF ApplyDelivery
<1>3. work.seq <= Len(log) + 1
  BY <1>1 DEF ConsumerInv, LogFollows
<1>4. /\ log' \in Seq(1..MaxEvents) /\ AppliedInOrder'
      /\ Len(log') = IF work.seq = Len(log) + 1 THEN Len(log) + 1 ELSE Len(log)
  BY <1>1, <1>2, <1>3, ApplyOnceInOrder DEF ConsumerTypes, ConsumerInv
<1>5. work' \in Work /\ work'.seq = work.seq /\ work' # None
  BY <1>1 DEF ApplyDelivery, Work
<1>6. Len(log') \in Nat /\ Len(log') >= Len(log) /\ Len(log') <= expected_seq
      /\ Len(log') + 1 >= expected_seq
  BY <1>1, <1>3, <1>4 DEF ConsumerInv, LogFollows
<1>7. IInv'
  BY <1>2, NextIInv
<1>8. ConsumerTypes'
  BY <1>2, <1>4, <1>5 DEF ConsumerTypes
<1>9. LogFollows'
  <2>1. replay # None => replay.seq \in Nat /\ replay.seq <= expected_seq
                         /\ (replay.applied => replay.seq <= Len(log))
    BY DEF ConsumerInv, LogFollows, ConsumerTypes, Replay
  <2> QED BY <1>1, <1>2, <1>5, <1>6, <2>1 DEF LogFollows, vars
<1>10. AckedWasApplied'
  BY <1>2, <1>6 DEF ConsumerInv, AckedWasApplied
<1>11. SeenWasPublished' /\ RebuildOnlyAfterPurge'
  BY <1>2 DEF vars, outboxVars, ConsumerInv, SeenWasPublished, RebuildOnlyAfterPurge
<1> QED BY <1>2, <1>4, <1>7, <1>8, <1>9, <1>10, <1>11, OutboxKept DEF ConsumerInv, vars

LEMMA AckDeliveryInv ==
    ASSUME PipelineInv, AckDelivery
    PROVE  PipelineInv'
<1> USE PipelineFacts
<1>1. work \in Work /\ work.seq \in 1..Len(log) /\ work.seq \in 1..MaxEvents
      /\ Len(log) + 1 >= expected_seq
  BY DEF AckDelivery, ConsumerTypes, ConsumerInv, LogFollows, Work
<1>2. /\ UNCHANGED <<buffer, replay, log, crashes, outboxVars, vars>>
      /\ acked' = acked \cup {work.seq} /\ work' = None
  BY DEF AckDelivery
<1>3. IInv'
  BY <1>2, NextIInv
<1>4. ConsumerTypes'
  BY <1>1, <1>2 DEF ConsumerTypes
<1>5. AckedWasApplied'
  BY <1>1, <1>2, Zenon DEF ConsumerInv, AckedWasApplied
<1>6. LogFollows' /\ SeenWasPublished' /\ AppliedInOrder' /\ RebuildOnlyAfterPurge'
  BY <1>1, <1>2 DEF vars, outboxVars, ConsumerInv, LogFollows, SeenWasPublished, AppliedInOrder,
     RebuildOnlyAfterPurge
<1> QED BY <1>2, <1>3, <1>4, <1>5, <1>6, OutboxKept DEF ConsumerInv, vars

\* A gap that is due starts at an event below one that was published: it is in the
\* outbox, or was purged.
LEMMA RecoverInv ==
    ASSUME PipelineInv, Recover
    PROVE  PipelineInv'
<1> USE PipelineFacts
<1> DEFINE s == active_gap.expected_seq
           ev == IF s \in outbox THEN Env(s) ELSE None
<1>1. /\ active_gap \in GapObservation /\ s = expected_seq /\ expected_seq < active_gap.actual_seq
      /\ active_gap.ordering_key = OrderingKey /\ active_gap.actual_seq <= last_seq
  BY DEF Recover, GapDue, IInv, TypeOK, GapCoherent, ConsumerInv, SeenWasPublished
<1>2. s \in 1..last_seq /\ s \in 1..MaxEvents
  BY <1>1 DEF GapObservation, Seqs
<1>3. s \in outbox \cup purged
  BY <1>2 DEF OutboxInv
<1>4. Env(s) \in Envelope /\ Env(s).key = OrderingKey /\ Env(s).seq = s
  BY <1>2, EnvelopeOfEvent
<1>5. UNCHANGED <<acked, buffer, work, log, crashes, outboxVars>> /\ work = None
  BY DEF Recover
<1>6. ev \in Envelope \cup {None} /\ RecoverGap(ev)
  BY <1>4 DEF Recover, RecoverGap
<1>7. IInv'
  BY <1>6, NextIInv DEF Next
<1>8. expected_seq' = expected_seq /\ Len(log) + 1 >= expected_seq /\ Len(log) <= expected_seq
  BY <1>5 DEF Recover, RecoverReplay, RecoverRebuild, ConsumerInv, LogFollows
<1>9. AppliedInOrder' /\ AckedWasApplied'
  BY <1>5 DEF ConsumerInv, AppliedInOrder, AckedWasApplied
<1>10. CASE RecoverReplay(ev) /\ replay' = [gap |-> active_gap, seq |-> s, applied |-> FALSE]
  <2>1. replay' \in Replay /\ replay'.seq = s /\ ~replay'.applied
    BY <1>1, <1>2, <1>10 DEF Replay
  <2>2. ConsumerTypes'
    BY <1>5, <2>1 DEF ConsumerTypes
  <2>3. LogFollows'
    BY <1>1, <1>5, <1>8, <2>1 DEF LogFollows
  <2>4. state' # "RebuildRequired" /\ active_gap' = active_gap
    BY <1>10, ProgressWhileOpen DEF RecoverReplay, GapDue, IInv, GapCoherent
  <2>5. SeenWasPublished' /\ RebuildOnlyAfterPurge'
    BY <1>5, <2>4 DEF outboxVars, ConsumerInv, SeenWasPublished, RebuildOnlyAfterPurge
  <2> QED BY <1>5, <1>7, <1>8, <1>9, <2>2, <2>3, <2>5, OutboxKept DEF ConsumerInv
<1>11. CASE RecoverRebuild(ev) /\ replay' = None
  <2>1. s \in purged
    <3>1. s \in outbox => Matches(ev)
      BY <1>1, <1>4 DEF Matches
    <3> QED BY <1>3, <1>11, <3>1 DEF RecoverRebuild
  <2>2. ConsumerTypes'
    BY <1>5, <1>11 DEF ConsumerTypes
  <2>3. LogFollows'
    BY <1>5, <1>8, <1>11 DEF LogFollows
  <2>4. SeenWasPublished'
    BY <1>5, <1>11 DEF RecoverRebuild, CloseGap, outboxVars, ConsumerInv, SeenWasPublished
  <2>5. RebuildOnlyAfterPurge'
    BY <1>1, <1>5, <1>8, <2>1 DEF outboxVars, RebuildOnlyAfterPurge
  <2> QED BY <1>5, <1>7, <1>8, <1>9, <2>2, <2>3, <2>4, <2>5, OutboxKept DEF ConsumerInv
<1> QED BY <1>10, <1>11 DEF Recover

LEMMA ApplyReplayInv ==
    ASSUME PipelineInv, ApplyReplay
    PROVE  PipelineInv'
<1> USE PipelineFacts
<1>1. /\ replay \in Replay /\ replay.seq \in 1..MaxEvents /\ replay.seq <= expected_seq
      /\ Len(log) + 1 >= expected_seq /\ Len(log) <= expected_seq
  BY DEF ApplyReplay, ConsumerTypes, ConsumerInv, LogFollows, Replay
<1>2. UNCHANGED <<acked, buffer, work, crashes, outboxVars, vars>> /\ ApplyOnce(replay.seq) /\ work = None
  BY DEF ApplyReplay
<1>3. replay.seq <= Len(log) + 1
  BY <1>1
<1>4. /\ log' \in Seq(1..MaxEvents) /\ AppliedInOrder'
      /\ Len(log') = IF replay.seq = Len(log) + 1 THEN Len(log) + 1 ELSE Len(log)
  BY <1>1, <1>2, <1>3, ApplyOnceInOrder DEF ConsumerTypes, ConsumerInv
<1>5. replay' \in Replay /\ replay'.seq = replay.seq /\ replay' # None
  BY <1>1 DEF ApplyReplay, Replay
<1>6. Len(log') \in Nat /\ Len(log') >= Len(log) /\ Len(log') <= expected_seq /\ replay.seq <= Len(log')
  BY <1>1, <1>3, <1>4
<1>7. IInv'
  BY <1>2, NextIInv
<1>8. ConsumerTypes'
  BY <1>2, <1>4, <1>5 DEF ConsumerTypes
<1>9. LogFollows'
  BY <1>1, <1>2, <1>5, <1>6 DEF LogFollows, vars
<1>10. AckedWasApplied'
  BY <1>2, <1>6 DEF ConsumerInv, AckedWasApplied
<1>11. SeenWasPublished' /\ RebuildOnlyAfterPurge'
  BY <1>2 DEF vars, outboxVars, ConsumerInv, SeenWasPublished, RebuildOnlyAfterPurge
<1> QED BY <1>2, <1>4, <1>7, <1>8, <1>9, <1>10, <1>11, OutboxKept DEF ConsumerInv, vars

LEMMA ConfirmReplayInv ==
    ASSUME PipelineInv, ConfirmReplay
    PROVE  PipelineInv'
<1> USE PipelineFacts
<1> DEFINE ev == Env(replay.seq)
<1>1. /\ replay \in Replay /\ replay.gap \in GapObservation /\ replay.seq \in 1..MaxEvents
      /\ replay.seq <= Len(log) /\ Len(log) + 1 >= expected_seq /\ Len(log) <= expected_seq
  BY DEF ConfirmReplay, ConsumerTypes, ConsumerInv, LogFollows, Replay
<1>2. ev \in Envelope /\ ev.seq = replay.seq
  BY <1>1, EnvelopeOfEvent
<1>3. /\ UNCHANGED <<acked, buffer, work, log, crashes, outboxVars>> /\ work = None /\ replay' = None
      /\ ConfirmGapReplay(replay.gap, ev)
  BY DEF ConfirmReplay
<1>4. IInv'
  BY <1>1, <1>2, <1>3, NextIInv DEF Next
<1>5. ConsumerTypes'
  BY <1>3 DEF ConsumerTypes
<1>6. AppliedInOrder' /\ AckedWasApplied'
  BY <1>3 DEF ConsumerInv, AppliedInOrder, AckedWasApplied
<1>7. CASE ConfirmAdvance(replay.gap, ev)
  <2>1. expected_seq <= replay.seq /\ expected_seq < MaxSeq /\ expected_seq' = expected_seq + 1
        /\ active_gap # None
    BY <1>2, <1>7 DEF ConfirmAdvance, ConfirmsActiveGap
  <2>2. LogFollows'
    BY <1>1, <1>3, <2>1 DEF LogFollows
  <2>3. active_gap' # None => active_gap # None /\ active_gap'.actual_seq = active_gap.actual_seq
    <3>1. expected_seq + 1 \in Seqs
      BY <2>1 DEF Seqs
    <3> QED BY <1>7, <3>1, GapNarrows DEF ConfirmAdvance
  <2>4. state' # "RebuildRequired"
    BY <1>7, <2>1, ProgressWhileOpen DEF ConfirmAdvance, IInv, GapCoherent
  <2>5. SeenWasPublished' /\ RebuildOnlyAfterPurge'
    BY <1>3, <2>3, <2>4 DEF outboxVars, ConsumerInv, SeenWasPublished, RebuildOnlyAfterPurge
  <2> QED BY <1>3, <1>4, <1>5, <1>6, <2>1, <2>2, <2>5, OutboxKept DEF ConsumerInv
<1>8. CASE UNCHANGED vars
  <2>1. LogFollows' /\ SeenWasPublished' /\ RebuildOnlyAfterPurge'
    BY <1>1, <1>3, <1>8 DEF vars, outboxVars, ConsumerInv, LogFollows, SeenWasPublished,
       RebuildOnlyAfterPurge
  <2> QED BY <1>3, <1>4, <1>5, <1>6, <1>8, <2>1, OutboxKept DEF ConsumerInv, vars
<1> QED BY <1>3, <1>7, <1>8 DEF ConfirmGapReplay, ConfirmStale, ConfirmRejected

LEMMA RestartInv ==
    ASSUME PipelineInv, Restart
    PROVE  PipelineInv'
<1> USE PipelineFacts
<1>1. Len(log) <= MaxEvents
  <2>1. Len(log) >= 1 => Len(log) \in 1..MaxEvents
    <3>1. Len(log) >= 1 => log[Len(log)] = Len(log)
      BY DEF ConsumerInv, AppliedInOrder
    <3>2. Len(log) >= 1 => log[Len(log)] \in 1..MaxEvents
      BY DEF ConsumerTypes
    <3> QED BY <3>1, <3>2
  <2> QED BY <2>1
<1>2. expected_seq' \in Seqs /\ expected_seq' = Len(log) + 1
  BY <1>1 DEF Restart, Seqs
<1>3. IInv'
  BY <1>2 DEF Restart, IInv, TypeOK, GapCoherent, TimerBehindClock, GapRecoveryState
<1>4. ConsumerTypes'
  BY DEF Restart, ConsumerTypes
<1>5. LogFollows'
  BY <1>2 DEF Restart, LogFollows
<1>6. SeenWasPublished' /\ RebuildOnlyAfterPurge'
  BY DEF Restart, SeenWasPublished, RebuildOnlyAfterPurge
<1>7. AppliedInOrder' /\ AckedWasApplied'
  BY DEF Restart, ConsumerInv, AppliedInOrder, AckedWasApplied
<1> QED BY <1>2, <1>3, <1>4, <1>5, <1>6, <1>7, OutboxKept DEF Restart, ConsumerInv

LEMMA WaitInv ==
    ASSUME PipelineInv, Wait
    PROVE  PipelineInv'
<1> USE PipelineFacts
<1>1. IInv'
  BY NextIInv DEF Wait, Next
<1>2. UNCHANGED <<outboxVars, consumerVars, expected_seq, state, active_gap>>
  BY DEF Wait, Tick
<1>3. ConsumerTypes'
  BY <1>2 DEF ConsumerTypes, consumerVars
<1>4. ConsumerInv'
  BY <1>2 DEF outboxVars, consumerVars, ConsumerInv, LogFollows, SeenWasPublished, AppliedInOrder,
     AckedWasApplied, RebuildOnlyAfterPurge
<1> QED BY <1>1, <1>2, <1>3, <1>4, OutboxKept

-----------------------------------------------------------------------------
LEMMA PipelineInitInv == PipelineInit => PipelineInv
<1> SUFFICES ASSUME PipelineInit PROVE PipelineInv
  OBVIOUS
<1>1. IInv /\ TypeOK
  BY DEF PipelineInit, IInv, TypeOK, GapCoherent, TimerBehindClock, GapRecoveryState, Seqs
<1>2. PipelineTypeOK
  BY <1>1 DEF PipelineInit, PipelineTypeOK, Idle
<1>3. OutboxInv
  BY DEF PipelineInit, OutboxInv, Idle
<1>4. ConsumerInv
  BY DEF PipelineInit, ConsumerInv, LogFollows, SeenWasPublished, AppliedInOrder, AckedWasApplied,
     RebuildOnlyAfterPurge
<1> QED BY <1>1, <1>2, <1>3, <1>4 DEF PipelineInit, PipelineInv

LEMMA PipelineNextInv == PipelineInv /\ [PipelineNext]_pipelineVars => PipelineInv'
<1> SUFFICES ASSUME PipelineInv, [PipelineNext]_pipelineVars PROVE PipelineInv'
  OBVIOUS
<1>1. CASE \E s \in published : Deliver(s)
  BY <1>1, ReceiveInv DEF Deliver
<1>2. CASE \E s \in buffer : Refeed(s)
  BY <1>2, ReceiveInv DEF Refeed, PipelineInv, ConsumerInv, SeenWasPublished
<1>3. CASE UNCHANGED pipelineVars
  <2>1. OutboxTypes' /\ OutboxInv' /\ last_seq <= last_seq'
    BY <1>3, TypesSplit DEF PipelineInv, OutboxTypes, OutboxInv, pipelineVars, outboxVars
  <2> QED BY <1>3, <2>1, ConsumerKept DEF pipelineVars, outboxVars
<1> QED BY <1>1, <1>2, <1>3, WriterNextInv, ApplyDeliveryInv, AckDeliveryInv, RecoverInv,
       ApplyReplayInv, ConfirmReplayInv, RestartInv, WaitInv DEF PipelineNext, ConsumerNext

(***************************************************************************)
(* The application applies events 1..n in order, each once, whatever the   *)
(* order and multiplicity of deliveries, replays and restarts.             *)
(***************************************************************************)
THEOREM ExactlyOnceInOrder == PipelineSpec => []AppliedInOrder
<1>1. PipelineInv => AppliedInOrder
  BY DEF PipelineInv, ConsumerInv
<1> QED BY PipelineInitInv, PipelineNextInv, <1>1, PTL DEF PipelineSpec

(***************************************************************************)
(* An acknowledged event was applied: a crash loses none.                  *)
(***************************************************************************)
THEOREM AckAfterApply == PipelineSpec => []AckedWasApplied
<1>1. PipelineInv => AckedWasApplied
  BY DEF PipelineInv, ConsumerInv
<1> QED BY PipelineInitInv, PipelineNextInv, <1>1, PTL DEF PipelineSpec

(***************************************************************************)
(* Recovery asks for a rebuild only when retention removed the very event  *)
(* that is missing.                                                        *)
(***************************************************************************)
THEOREM RebuildMeansPurged == PipelineSpec => []RebuildOnlyAfterPurge
<1>1. PipelineInv => RebuildOnlyAfterPurge
  BY DEF PipelineInv, ConsumerInv
<1> QED BY PipelineInitInv, PipelineNextInv, <1>1, PTL DEF PipelineSpec

(***************************************************************************)
(* Between the restarts of the consumer the tracker takes the steps of     *)
(* GapTracker only, so it neither skips nor repeats a number nor leaves    *)
(* RebuildRequired.                                                        *)
(***************************************************************************)
THEOREM PipelineSequenced == PipelineSpec => SequencedBetweenRestarts
<1>1. PipelineInv /\ [PipelineNext]_pipelineVars => (UNCHANGED crashes => StepInSequence)
  <2> SUFFICES ASSUME PipelineInv, [PipelineNext]_pipelineVars, UNCHANGED crashes
               PROVE  StepInSequence
    OBVIOUS
  <2>1. PipelineTypeOK /\ IInv /\ crashes \in Nat
    BY DEF PipelineInv, PipelineTypeOK
  <2>2. ~Restart
    BY <2>1 DEF Restart
  <2> QED BY <2>1, <2>2, TrackerIsCalled, SequenceStep
<1> QED BY PipelineInitInv, PipelineNextInv, <1>1, PTL DEF PipelineSpec, SequencedBetweenRestarts

(***************************************************************************)
(* Under the protocol of the pipeline too, a rebuild is asked for only     *)
(* when the missing number has been missing for the whole timeout.         *)
(***************************************************************************)
THEOREM PipelineRebuildTimely == PipelineSpec => RebuildOnlyAfterTimeout
<1>1. PipelineInv /\ [PipelineNext]_pipelineVars =>
         [state # "RebuildRequired" /\ state' = "RebuildRequired" => missing_for = GapTimeout]_vars
  <2> SUFFICES ASSUME PipelineInv, [PipelineNext]_pipelineVars,
                      state # "RebuildRequired", state' = "RebuildRequired"
               PROVE  missing_for = GapTimeout
    OBVIOUS
  <2>1. PipelineTypeOK /\ IInv
    BY DEF PipelineInv
  <2>2. ~Restart
    BY DEF Restart
  <2> QED BY <2>1, <2>2, TrackerIsCalled, RebuildStep
<1> QED BY PipelineInitInv, PipelineNextInv, <1>1, PTL DEF PipelineSpec, RebuildOnlyAfterTimeout
=============================================================================
