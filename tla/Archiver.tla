------------------------------ MODULE Archiver ------------------------------
(***************************************************************************)
(* kernel-archiver for one tenant: a cycle fetches the oldest unarchived   *)
(* rows of each kind, makes sure that each has its object in S3, marks the *)
(* rows it succeeded for in one transaction and writes a privileged audit  *)
(* entry over another connection.  Every external call can fail, a call    *)
(* that fails may have taken effect, and the process can die at any point. *)
(***************************************************************************)
EXTENDS Naturals, FiniteSets, Sequences, SequencesExt

CONSTANTS
    Archivers,      \* archiver processes (the README deploys one)
    MaxRecords,     \* bound: rows created
    HistoryRecords, \* the rows that are entity histories; the others are logs
    Poison,         \* rows whose upload always fails
    BatchSize,      \* ARCHIVER_BATCH_SIZE
    MaxFailures,    \* bound: failures and crashes
    MaxSignals      \* bound: shutdown signals

Records == 1..MaxRecords

ASSUME RecordsAssumption == MaxRecords \in Nat /\ HistoryRecords \subseteq Records
ASSUME ArchiversAssumption == IsFiniteSet(Archivers)
ASSUME PoisonAssumption == Poison \subseteq Records
ASSUME BatchAssumption == BatchSize \in Nat \ {0}
ASSUME BoundsAssumption == MaxFailures \in Nat /\ MaxSignals \in Nat

VARIABLES
    created,        \* rows 1..created exist; created_at grows with the number
    archived,       \* rows with archived_at set (committed)
    objects,        \* rows with an object in S3
    puts,           \* how often the object of each row was written
    pc,             \* the step of each archiver's cycle
    todo,           \* rows of the batch still to archive, in order
    archived_ids,   \* the MarkPlan so far
    audited,        \* rows covered by a privileged audit entry
    failures,
    signals

s3Vars == <<objects, puts>>
cycleVars == <<pc, todo, archived_ids>>
archiverVars == <<created, archived, s3Vars, cycleVars, audited, failures, signals>>

Goto(a, l) == pc' = [pc EXCEPT ![a] = l]
Failure == failures < MaxFailures /\ failures' = failures + 1

-----------------------------------------------------------------------------
Create ==
    /\ created < MaxRecords
    /\ created' = created + 1
    /\ UNCHANGED <<archived, s3Vars, cycleVars, audited, failures, signals>>

\* create_entity or update_entity commits a history row (see EntityStore).
ChangeEntity == Create /\ created' \in HistoryRecords

\* log_audit commits an audit row.
LogAudit == Create /\ created' \notin HistoryRecords

\* find_unarchived_*: ORDER BY created_at LIMIT batch_size.
Oldest(S) == {r \in S : Cardinality({q \in S : q < r}) < BatchSize}
Unarchived == {r \in 1..created : r \notin archived}
Batch ==
    SetToSortSeq(Oldest(Unarchived \cap HistoryRecords), <)
      \o SetToSortSeq(Oldest(Unarchived \ HistoryRecords), <)

\* interval.tick(): rotate keys, get a token, fetch in a transaction.  When one
\* of these fails the cycle ends before it has changed anything.
Fetch(a) ==
    /\ pc[a] = "select"
    /\ Goto(a, "head")
    /\ todo' = [todo EXCEPT ![a] = Batch]
    /\ archived_ids' = [archived_ids EXCEPT ![a] = {}]
    /\ UNCHANGED <<created, archived, s3Vars, audited, failures, signals>>

(***************************************************************************)
(* archive_items                                                           *)
(***************************************************************************)
Item(a) == Head(todo[a])

\* Mutants: a failed item is counted; a failed item ends the batch.
Advance_CountsFailed(a, done) ==
    /\ todo' = [todo EXCEPT ![a] = Tail(@)]
    /\ archived_ids' = [archived_ids EXCEPT ![a] = @ \cup {Item(a)}]
Advance_StopsAtFailed(a, done) ==
    /\ todo' = [todo EXCEPT ![a] = IF done THEN Tail(@) ELSE <<>>]
    /\ archived_ids' = [archived_ids EXCEPT ![a] = IF done THEN @ \cup {Item(a)} ELSE @]

Advance(a, done) ==
    /\ todo' = [todo EXCEPT ![a] = Tail(@)]
    /\ archived_ids' = [archived_ids EXCEPT ![a] = IF done THEN @ \cup {Item(a)} ELSE @]

\* Mutant: the object is written whether or not it exists.
HeadObject_Blind(a) ==
    /\ pc[a] = "head" /\ todo[a] # <<>>
    /\ Goto(a, "put")
    /\ UNCHANGED <<created, archived, s3Vars, todo, archived_ids, audited, failures, signals>>

\* s3_object_exists
HeadObject(a) ==
    /\ pc[a] = "head" /\ todo[a] # <<>>
    /\ \/ /\ Item(a) \in objects
          /\ Advance(a, TRUE)
          /\ UNCHANGED pc
       \/ /\ Item(a) \notin objects
          /\ Goto(a, "put")
          /\ UNCHANGED <<todo, archived_ids>>
    /\ UNCHANGED <<created, archived, s3Vars, audited, failures, signals>>

HeadFails(a) ==
    /\ pc[a] = "head" /\ todo[a] # <<>>
    /\ Failure
    /\ Advance(a, FALSE)
    /\ UNCHANGED <<created, archived, s3Vars, pc, audited, signals>>

\* put_archive_object
Store(r) ==
    /\ objects' = objects \cup {r}
    /\ puts' = [puts EXCEPT ![r] = @ + 1]

PutObject(a) ==
    /\ pc[a] = "put"
    /\ Item(a) \notin Poison
    /\ Store(Item(a))
    /\ Advance(a, TRUE)
    /\ Goto(a, "head")
    /\ UNCHANGED <<created, archived, audited, failures, signals>>

PutFails(a) ==
    /\ pc[a] = "put"
    /\ \/ Item(a) \in Poison /\ UNCHANGED <<failures, s3Vars>>
       \/ Failure /\ UNCHANGED s3Vars
       \/ Failure /\ Item(a) \notin Poison /\ Store(Item(a))
    /\ Advance(a, FALSE)
    /\ Goto(a, "head")
    /\ UNCHANGED <<created, archived, audited, signals>>

\* The batch is done; with an empty MarkPlan the cycle ends here.
EndBatch(a) ==
    /\ pc[a] = "head" /\ todo[a] = <<>>
    /\ Goto(a, IF archived_ids[a] = {} THEN "select" ELSE "mark")
    /\ UNCHANGED <<created, archived, s3Vars, todo, archived_ids, audited, failures, signals>>

(***************************************************************************)
(* The mark transaction and the audit entry.                               *)
(***************************************************************************)
\* The two updates of the transaction; they touch unarchived rows only.
HistoriesMarked(a) == archived_ids[a] \cap HistoryRecords
LogsMarked(a) == archived_ids[a] \ HistoryRecords
Marked(a) == archived \cup HistoriesMarked(a) \cup LogsMarked(a)

\* generate_token_with_recovery returned None, after a rotation it tried.
NoMarkToken(a) ==
    /\ pc[a] = "mark"
    /\ Failure
    /\ Goto(a, "select")
    /\ UNCHANGED <<created, archived, s3Vars, todo, archived_ids, audited, signals>>

Mark(a) ==
    /\ pc[a] = "mark"
    /\ archived' = Marked(a)
    /\ Goto(a, "audit")
    /\ UNCHANGED <<created, s3Vars, todo, archived_ids, audited, failures, signals>>

\* A rollback, or a commit whose reply was lost.
MarkFails(a) ==
    /\ pc[a] = "mark"
    /\ Failure
    /\ archived' \in {archived, Marked(a)}
    /\ Goto(a, "select")
    /\ UNCHANGED <<created, s3Vars, todo, archived_ids, audited, signals>>

\* with_tx on the connection of the kernel context: a transaction of its own.
LogPrivilegedAudit(a) ==
    /\ pc[a] = "audit"
    /\ Goto(a, "select")
    /\ audited' = audited \cup archived_ids[a]
    /\ UNCHANGED <<created, archived, s3Vars, todo, archived_ids, failures, signals>>

\* The error is logged; the rows stay marked and are not audited again.
AuditFails(a) ==
    /\ pc[a] = "audit"
    /\ Failure
    /\ Goto(a, "select")
    /\ UNCHANGED <<created, archived, s3Vars, todo, archived_ids, audited, signals>>

(***************************************************************************)
(* The main loop around the cycles.                                        *)
(***************************************************************************)
Crash(a) ==
    /\ pc[a] \in {"head", "put", "mark", "audit"}
    /\ Failure
    /\ Goto(a, "select")
    /\ todo' = [todo EXCEPT ![a] = <<>>]
    /\ archived_ids' = [archived_ids EXCEPT ![a] = {}]
    /\ \/ UNCHANGED s3Vars
       \/ pc[a] = "put" /\ Item(a) \notin Poison /\ Store(Item(a))
    /\ UNCHANGED <<created, archived, audited, signals>>

\* A signal completes the ctrl_c future that exists in select!; while a cycle
\* runs there is none (it was dropped when the tick branch was chosen).
CtrlC(a) ==
    /\ signals < MaxSignals
    /\ signals' = signals + 1
    /\ \/ pc[a] = "select" /\ Goto(a, "stopped")
       \/ pc[a] # "select" /\ UNCHANGED pc
    /\ UNCHANGED <<created, archived, s3Vars, todo, archived_ids, audited, failures>>

ArchiverInit ==
    /\ created = 0
    /\ archived = {}
    /\ objects = {}
    /\ puts = [r \in Records |-> 0]
    /\ pc = [a \in Archivers |-> "select"]
    /\ todo = [a \in Archivers |-> <<>>]
    /\ archived_ids = [a \in Archivers |-> {}]
    /\ audited = {}
    /\ failures = 0
    /\ signals = 0

Cycle(a) ==
    \/ Fetch(a) \/ HeadObject(a) \/ HeadFails(a) \/ PutObject(a) \/ PutFails(a)
    \/ EndBatch(a) \/ NoMarkToken(a) \/ Mark(a) \/ MarkFails(a)
    \/ LogPrivilegedAudit(a) \/ AuditFails(a)

ArchiverNext ==
    \/ ChangeEntity \/ LogAudit
    \/ \E a \in Archivers : Cycle(a) \/ Crash(a) \/ CtrlC(a)

ArchiverSpec == ArchiverInit /\ [][ArchiverNext]_archiverVars

\* The interval keeps ticking and the calls of a cycle return; the failures
\* are finitely many.
ArchiverFairness == \A a \in Archivers : WF_archiverVars(Cycle(a))
FairArchiverSpec == ArchiverSpec /\ ArchiverFairness

-----------------------------------------------------------------------------
\* The types of the archiver's variables; a batch has its size.
ArchiverTypeOK ==
    /\ created \in 0..MaxRecords
    /\ archived \subseteq Records
    /\ objects \subseteq Records
    /\ puts \in [Records -> Nat]
    /\ pc \in [Archivers -> {"select", "head", "put", "mark", "audit", "stopped"}]
    /\ todo \in [Archivers -> Seq(Records)]
    /\ \A a \in Archivers, kind \in {HistoryRecords, Records \ HistoryRecords} :
          Len(SelectSeq(todo[a], LAMBDA r : r \in kind)) <= BatchSize
    /\ archived_ids \in [Archivers -> SUBSET Records]
    /\ audited \subseteq Records
    /\ failures \in 0..MaxFailures
    /\ signals \in 0..MaxSignals

(***************************************************************************)
(* A row is marked archived only when its object is in S3, whatever call   *)
(* failed, was repeated or was cut short by a crash: no history is lost    *)
(* when marked rows are removed from the database.  The privileged audit   *)
(* trail never claims a row that is not marked.                            *)
(***************************************************************************)
ArchivedIsStored == audited \subseteq archived /\ archived \subseteq objects

(***************************************************************************)
(* Each archiver writes an object at most once (write once, read many),    *)
(* even when an upload that was reported as failed had taken effect or the *)
(* process died between upload and mark; a second write needs a second     *)
(* archiver between its own head and put, so the one archiver of a         *)
(* deployment writes every object once.                                    *)
(***************************************************************************)
WrittenOncePerArchiver == \A r \in Records : puts[r] <= Cardinality(Archivers)

(***************************************************************************)
(* Every row that can be uploaded is archived in the end, past rows whose  *)
(* upload keeps failing, as long as those do not fill a whole batch and    *)
(* one archiver keeps running.                                             *)
(***************************************************************************)
EveryRecordArchived ==
    \A r \in Records \ Poison : r <= created ~> r \in archived
=============================================================================
