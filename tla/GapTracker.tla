----------------------------- MODULE GapTracker -----------------------------
(***************************************************************************)
(* GapTracker of kernel-core/src/event.rs: the per-ordering-key finite     *)
(* state machine that decides for each delivery whether it is applied,     *)
(* dropped as a duplicate or held back behind a gap, and that recovers a   *)
(* gap from the outbox once the gap timeout has passed.                    *)
(*                                                                         *)
(* The specification puts the tracker under an ARBITRARY caller: any       *)
(* delivery, any outcome of the outbox lookup and any confirmation may     *)
(* come at any time.  EventPipeline puts it under the caller protocol.     *)
(*                                                                         *)
(* An Option is a value or None.  gap_started_at is an Instant in the      *)
(* code and is only ever compared with `now`, so the model keeps the time  *)
(* that has elapsed since it, saturating at GapTimeout.                    *)
(***************************************************************************)
EXTENDS Integers

CONSTANTS
    OrderingKeys,   \* the tenant scoped ordering keys that occur
    OrderingKey,    \* the key this tracker was created for
    MaxSeq,         \* u64::MAX
    GapTimeout,     \* the gap_timeout passed to recover_gap, in ticks
    None            \* Option::None

VARIABLES
    expected_seq,   \* the next sequence number to apply
    state,          \* GapRecoveryState
    gap_started_at, \* ticks since the stored Instant, or None
    active_gap,     \* the open GapObservation, or None
    missing_for     \* reference clock: ticks since expected_seq became missing

trackerVars == <<expected_seq, state, gap_started_at, active_gap>>
vars == <<expected_seq, state, gap_started_at, active_gap, missing_for>>

Seqs == 0..MaxSeq
GapRecoveryState == {"Normal", "GapDetected", "Recovering", "RebuildRequired"}
GapObservation ==
    [ordering_key : OrderingKeys, expected_seq : Seqs, actual_seq : Seqs]
\* What the tracker reads of an EventEnvelope: its key and its sequence.
Envelope == [key : OrderingKeys, seq : Seqs \cup {None}]

ASSUME KeyAssumption == OrderingKey \in OrderingKeys
ASSUME MaxSeqAssumption == MaxSeq \in Nat
ASSUME TimeoutAssumption == GapTimeout \in Nat \ {0}
ASSUME NoneAssumption == None \notin Nat /\ None \notin GapObservation \cup Envelope

(***************************************************************************)
(* progress_gap_recovery                                                   *)
(***************************************************************************)
progress_gap_recovery(s, outbox_has_missing_seq) ==
    CASE s = "Normal"          -> IF outbox_has_missing_seq THEN "GapDetected"
                                                            ELSE "Normal"
      [] s = "GapDetected"     -> IF outbox_has_missing_seq THEN "Recovering"
                                                            ELSE "RebuildRequired"
      [] s = "Recovering"      -> IF outbox_has_missing_seq THEN "Recovering"
                                                            ELSE "Normal"
      [] s = "RebuildRequired" -> "RebuildRequired"

(***************************************************************************)
(* Steps shared by observe_delivery and confirm_gap_replay.                *)
(***************************************************************************)
\* The gap is still open once expected_seq has advanced to n.
StillOpen(n) == active_gap # None /\ n < active_gap.actual_seq

\* Mutants: the timer of the gap is not restarted, or is cleared.
NarrowGap_SameTimer(n) ==
    /\ UNCHANGED gap_started_at
    /\ active_gap' = [active_gap EXCEPT !.expected_seq = n]
NarrowGap_ClearsTimer(n) ==
    /\ gap_started_at' = None
    /\ active_gap' = [active_gap EXCEPT !.expected_seq = n]

\* The gap survives the advance of expected_seq to n: restart its timer.
NarrowGap(n) ==
    /\ gap_started_at' = 0
    /\ active_gap' = [active_gap EXCEPT !.expected_seq = n]

CloseGap ==
    /\ gap_started_at' = None
    /\ active_gap' = None

(***************************************************************************)
(* observe_delivery                                                        *)
(***************************************************************************)
\* Mutant: deliveries are observed again after a rebuild became necessary.
Rejects_NotAbsorbing(d) == d.seq = None \/ d.key # OrderingKey

Rejects(d) ==
    \/ state = "RebuildRequired"
    \/ d.seq = None
    \/ d.key # OrderingKey

\* Every Err return: the tracker is left as it was.
ObserveRejected(d) ==
    /\ Rejects(d) \/ (d.seq = expected_seq /\ expected_seq = MaxSeq)
    /\ UNCHANGED vars

ObserveDuplicate(d) ==
    /\ ~Rejects(d)
    /\ d.seq < expected_seq
    /\ UNCHANGED vars

ObserveApply(d) ==
    /\ ~Rejects(d)
    /\ d.seq = expected_seq
    /\ expected_seq < MaxSeq
    /\ expected_seq' = expected_seq + 1
    /\ \/ /\ StillOpen(expected_seq + 1)
          /\ state' = IF state # "Normal" THEN progress_gap_recovery(state, TRUE)
                                          ELSE state
          /\ NarrowGap(expected_seq + 1)
       \/ /\ ~StillOpen(expected_seq + 1)
          /\ state' = "Normal"
          /\ CloseGap
    /\ missing_for' = 0

\* A gap opens.  get_or_insert keeps a gap_started_at that is already set.
ObserveGapDetected(d) ==
    /\ ~Rejects(d)
    /\ d.seq > expected_seq
    /\ active_gap = None
    /\ state' = "GapDetected"
    /\ gap_started_at' = IF gap_started_at = None THEN 0 ELSE gap_started_at
    /\ active_gap' = [ordering_key |-> OrderingKey,
                      expected_seq |-> expected_seq, actual_seq |-> d.seq]
    /\ missing_for' = 0
    /\ UNCHANGED expected_seq

\* A further delivery beyond the open gap raises its upper end.
ObserveDeferred(d) ==
    /\ ~Rejects(d)
    /\ d.seq > expected_seq
    /\ active_gap # None
    /\ active_gap' = IF d.seq > active_gap.actual_seq
                     THEN [active_gap EXCEPT !.actual_seq = d.seq]
                     ELSE active_gap
    /\ UNCHANGED <<expected_seq, state, gap_started_at, missing_for>>

ObserveDelivery(d) ==
    \/ ObserveRejected(d)
    \/ ObserveDuplicate(d)
    \/ ObserveApply(d)
    \/ ObserveGapDetected(d)
    \/ ObserveDeferred(d)

(***************************************************************************)
(* recover_gap.  The tracker is borrowed mutably over the awaited lookup,  *)
(* so no other call interleaves with it.                                   *)
(***************************************************************************)
GapDue ==
    /\ gap_started_at # None
    /\ active_gap # None
    /\ gap_started_at >= GapTimeout

\* Ok(None), AwaitingTimeout, and the Err of a lookup that failed.
RecoverNothing == UNCHANGED vars

\* ev is the envelope lookup_missing returned.
Matches(ev) ==
    ev # None /\ ev.key = active_gap.ordering_key /\ ev.seq = active_gap.expected_seq

RecoverReplay(ev) ==
    /\ GapDue
    /\ Matches(ev)
    /\ state' = progress_gap_recovery(state, TRUE)
    /\ gap_started_at' = 0
    /\ UNCHANGED <<expected_seq, active_gap, missing_for>>

\* Mutant: an event that is not in the outbox is skipped.
RecoverRebuild_Skips(ev) ==
    /\ GapDue
    /\ ~Matches(ev)
    /\ expected_seq' = active_gap.actual_seq
    /\ state' = "Normal"
    /\ CloseGap
    /\ missing_for' = 0

\* Nothing was found, or something else than what was asked for.
RecoverRebuild(ev) ==
    /\ GapDue
    /\ ~Matches(ev)
    /\ state' = "RebuildRequired"
    /\ CloseGap
    /\ UNCHANGED <<expected_seq, missing_for>>

RecoverGap(ev) == RecoverNothing \/ RecoverReplay(ev) \/ RecoverRebuild(ev)

(***************************************************************************)
(* confirm_gap_replay                                                      *)
(***************************************************************************)
ConfirmWellFormed(gap, ev) ==
    /\ ev.key = OrderingKey
    /\ gap.ordering_key = OrderingKey
    /\ ev.seq # None
    /\ ev.seq = gap.expected_seq

\* Ok without effect: the sequence has advanced past the replayed event.
ConfirmStale(gap, ev) ==
    /\ ConfirmWellFormed(gap, ev)
    /\ ev.seq < expected_seq
    /\ UNCHANGED vars

ConfirmsActiveGap(gap, ev) ==
    /\ ConfirmWellFormed(gap, ev)
    /\ ev.seq >= expected_seq
    /\ active_gap # None
    /\ active_gap.ordering_key = gap.ordering_key
    /\ active_gap.expected_seq = gap.expected_seq

ConfirmAdvance(gap, ev) ==
    /\ ConfirmsActiveGap(gap, ev)
    /\ expected_seq < MaxSeq
    /\ expected_seq' = expected_seq + 1
    /\ \/ /\ StillOpen(expected_seq + 1)
          /\ state' = progress_gap_recovery(state, TRUE)
          /\ NarrowGap(expected_seq + 1)
       \/ /\ ~StillOpen(expected_seq + 1)
          /\ state' = progress_gap_recovery("Recovering", FALSE)
          /\ CloseGap
    /\ missing_for' = 0

\* Every Err return.
ConfirmRejected(gap, ev) ==
    /\ ~(/\ ConfirmWellFormed(gap, ev)
         /\ ev.seq < expected_seq \/
            (ConfirmsActiveGap(gap, ev) /\ expected_seq < MaxSeq))
    /\ UNCHANGED vars

ConfirmGapReplay(gap, ev) ==
    ConfirmStale(gap, ev) \/ ConfirmAdvance(gap, ev) \/ ConfirmRejected(gap, ev)

(***************************************************************************)
(* Time, and the specification.                                            *)
(***************************************************************************)
\* One more tick of a clock that only matters up to GapTimeout, if it runs.
Later(t) == IF t # None /\ t < GapTimeout THEN t + 1 ELSE t

Tick ==
    /\ active_gap # None
    /\ gap_started_at' = Later(gap_started_at)
    /\ missing_for' = Later(missing_for)
    /\ UNCHANGED <<expected_seq, state, active_gap>>

\* GapTracker::new(ordering_key, expected_seq)
Init ==
    /\ expected_seq \in Seqs
    /\ state = "Normal"
    /\ gap_started_at = None
    /\ active_gap = None
    /\ missing_for = 0

Next ==
    \/ \E d \in Envelope : ObserveDelivery(d)
    \/ \E ev \in Envelope \cup {None} : RecoverGap(ev)
    \/ \E gap \in GapObservation, ev \in Envelope : ConfirmGapReplay(gap, ev)
    \/ Tick

Spec == Init /\ [][Next]_vars

-----------------------------------------------------------------------------
\* Every field of the tracker has its declared type.
TypeOK ==
    /\ expected_seq \in Seqs
    /\ state \in GapRecoveryState
    /\ gap_started_at \in (0..GapTimeout) \cup {None}
    /\ active_gap \in GapObservation \cup {None}
    /\ missing_for \in 0..GapTimeout

(***************************************************************************)
(* The three fields that describe a gap agree after every call: a gap is   *)
(* open exactly while the state is GapDetected or Recovering and the timer *)
(* runs, it starts at expected_seq and ends beyond it.  The comment in     *)
(* observe_delivery ("self.state cannot logically be Normal here") and the *)
(* debug_assert of progress_gap_recovery rely on it.                       *)
(***************************************************************************)
GapCoherent ==
    /\ (active_gap # None) <=> (state \in {"GapDetected", "Recovering"})
    /\ (active_gap # None) <=> (gap_started_at # None)
    /\ active_gap # None =>
          /\ active_gap.ordering_key = OrderingKey
          /\ active_gap.expected_seq = expected_seq
          /\ expected_seq < active_gap.actual_seq

(***************************************************************************)
(* recover_gap gives up on a sequence number only after THAT number has    *)
(* been missing for the whole timeout, however many of its predecessors    *)
(* arrived or were replayed meanwhile (the timer is restarted on every     *)
(* advance of expected_seq).                                               *)
(***************************************************************************)
RebuildOnlyAfterTimeout ==
    [][state # "RebuildRequired" /\ state' = "RebuildRequired"
          => missing_for = GapTimeout]_vars

(***************************************************************************)
(* No call makes the tracker skip or repeat a sequence number or step past *)
(* the largest one, and once a rebuild is required no call resumes the key *)
(* ("RebuildRequired is an absorbing state").                              *)
(***************************************************************************)
StepInSequence ==
    /\ expected_seq' \in {expected_seq, expected_seq + 1} \cap Seqs
    /\ state = "RebuildRequired" => UNCHANGED trackerVars

NeverSkips == [][StepInSequence]_vars

\* The timer of the open gap never runs ahead of the reference clock.
TimerBehindClock == active_gap # None => gap_started_at <= missing_for

\* The inductive invariant.
IInv == TypeOK /\ GapCoherent /\ TimerBehindClock
=============================================================================
