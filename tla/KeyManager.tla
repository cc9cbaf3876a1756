----------------------------- MODULE KeyManager -----------------------------
(***************************************************************************)
(* KeyManager of kernel-core/src/auth/key_manager.rs for one key type:     *)
(* rotate_key_type and revoke_key run as transactions of several instances *)
(* against flexi.key_record.                                               *)
(*                                                                         *)
(* The statements of a transaction interleave with those of the others as  *)
(* PostgreSQL's READ COMMITTED lets them: SELECT ... FOR UPDATE picks its  *)
(* row from what is committed, waits for the row lock, and reads the row   *)
(* again once it holds the lock; a write that meets a unique index waits   *)
(* for an open transaction that touches the same index entry and fails if  *)
(* a committed row is in the way.                                          *)
(***************************************************************************)
EXTENDS Integers, FiniteSets, Functions, TLC

CONSTANTS
    Rotators,       \* instances that call rotate_keys
    Revokers,       \* instances that call revoke_key
    MaxKeys,        \* bound: keys ever created
    MaxNow,         \* bound: the clock
    RotationPeriod, \* 30 days
    RetireWindow,   \* 48 hours
    TxnTime,        \* bound: how long a transaction stays open
    None

ASSUME KeyAssumption == MaxKeys \in Nat /\ MaxNow \in Nat /\ TxnTime \in Nat
ASSUME PeriodAssumption == RotationPeriod \in Nat \ {0} /\ RetireWindow \in Nat \ {0}
ASSUME ProcessAssumption ==
    IsFiniteSet(Rotators) /\ IsFiniteSet(Revokers) /\ Rotators \cap Revokers = {}

Kids == 1..MaxKeys
Processes == Rotators \cup Revokers
Row ==
    [state : {"Next"}, activated_at : {None}, retired_at : {None}]
      \cup [state : {"Active"}, activated_at : Nat, retired_at : {None}]
      \cup [state : {"Retired"}, activated_at : Nat, retired_at : Nat]
      \cup [state : {"Revoked"}, activated_at : Nat \cup {None}, retired_at : Nat \cup {None}]

ASSUME NoneAssumption == None \notin Nat /\ None \notin Row

VARIABLES
    now,            \* Utc::now()
    rows,           \* committed rows of key_record, by kid
    spent,          \* kids of rows that were pruned
    pc,             \* the statement each process is at
    found,          \* the row its last SELECT picked, or None
    began,          \* when its transaction began; once it has read the clock, that time
    locks,          \* the rows it has locked or inserted
    draft           \* the contents it has given to those rows

txnVars == <<pc, found, began, locks, draft>>
keyVars == <<now, rows, spent, txnVars>>

NoRows == [k \in Kids |-> None]
Open(p) == pc[p] # "idle"
Others(p) == Processes \ {p}

\* The table as transaction p sees it.
View(p) == [k \in Kids |-> IF k \in locks[p] THEN draft[p][k] ELSE rows[k]]
HasState(row, s) == row # None /\ row.state = s

\* SELECT ... WHERE state = s: at most one row, by the unique indexes.
Pick(p, s) ==
    LET hits == {k \in Kids : HasState(View(p)[k], s)}
    IN  IF hits = {} THEN None ELSE CHOOSE k \in hits : TRUE

\* FOR UPDATE: the row lock is free, and the row still qualifies.
CanLock(p, k) == k = None \/ \A q \in Others(p) : k \notin locks[q]
\* Mutant: the row is not read again once its lock is held.
StillIs_Stale(p, k, s) == k # None
StillIs(p, k, s) == k # None /\ HasState(View(p)[k], s)

\* New contents of one row, and of two rows.
Only(k, r) == [j \in {k} |-> r]
Both(k, r, m, s) == [j \in {k, m} |-> IF j = k THEN r ELSE s]

\* Transaction p holds the rows of f and gives them these contents.
Write(p, f) ==
    /\ locks' = [locks EXCEPT ![p] = @ \cup DOMAIN f]
    /\ draft' = [draft EXCEPT ![p] = [k \in Kids |-> IF k \in DOMAIN f THEN f[k] ELSE @[k]]]

ActiveRow == [state |-> "Active", activated_at |-> now, retired_at |-> None]
NextRow == [state |-> "Next", activated_at |-> None, retired_at |-> None]

\* create_key: fresh kids, the smallest first.
Free == {k \in Kids : rows[k] = None /\ k \notin spent /\ \A q \in Processes : k \notin locks[q]}
Fresh == CHOOSE k \in Free : \A j \in Free : k <= j
Fresh2 == CHOOSE k \in Free \ {Fresh} : \A j \in Free \ {Fresh} : k <= j

\* The partial unique indexes on state = 'active' and state = 'next', met by
\* the writes f: is another open transaction in the way, or a committed row?
Indexed == {"Active", "Next"}
Written(f) == {s \in Indexed : \E k \in DOMAIN f : f[k].state = s}
MustWait(p, f) ==
    \E q \in Others(p), s \in Written(f) : \E k \in locks[q] :
        HasState(rows[k], s) \/ HasState(draft[q][k], s)
Violates(p, f) ==
    \E s \in Written(f) : \E k \in Kids \ DOMAIN f : HasState(View(p)[k], s)

\* Promote Next, or create an Active key; then create the new Next.
Promotion(p, k) ==
    IF StillIs(p, k, "Next")
    THEN Both(k, [rows[k] EXCEPT !.state = "Active", !.activated_at = began[p]], Fresh, NextRow)
    ELSE Both(Fresh, ActiveRow, Fresh2, NextRow)

\* The rows that the statement p is at puts into, or keeps in, an index.
Puts(p) ==
    LET k == found[p]
    IN  CASE pc[p] = "active" /\ ~StillIs(p, k, "Active") -> Both(Fresh, ActiveRow, Fresh2, NextRow)
          [] pc[p] \in {"next_due", "promote"} -> Promotion(p, k)
          [] pc[p] = "next_fresh" -> IF StillIs(p, k, "Next") THEN Only(k, rows[k]) ELSE Only(Fresh, NextRow)
          [] pc[p] = "replacement" /\ StillIs(p, k, "Active") -> Only(k, rows[k])
          [] OTHER -> <<>>

\* Mutant: retired keys are deleted at once.
Prunable_AllRetired(p) == {k \in Kids : HasState(View(p)[k], "Retired")}

\* Retired keys that left the window.
Prunable(p) ==
    {k \in Kids : HasState(View(p)[k], "Retired") /\ View(p)[k].retired_at < began[p] - RetireWindow}

\* The statement p is at waits: for the lock of the row it selects, of a row
\* it deletes, or for a transaction that touches the same index entry.
Locking == {"active", "next_due", "next_fresh", "revoke", "replacement", "promote"}
Waits(p) ==
    \/ pc[p] \in Locking /\ ~CanLock(p, found[p])
    \/ MustWait(p, Puts(p))
    \/ pc[p] = "commit" /\ p \in Rotators /\ \E k \in Prunable(p) : ~CanLock(p, k)

\* The transaction ends without effect.
Rollback(p) ==
    /\ pc' = [pc EXCEPT ![p] = "idle"]
    /\ found' = [found EXCEPT ![p] = None]
    /\ locks' = [locks EXCEPT ![p] = {}]
    /\ draft' = [draft EXCEPT ![p] = NoRows]
    /\ began' = [began EXCEPT ![p] = 0]

\* Transaction p works with the clock it reads now.
ReadClock(p) == began' = [began EXCEPT ![p] = now]

\* The writes f, then the statement l, in a transaction that goes by the time
\* t; a unique violation aborts.
WriteThen(p, f, l, t) ==
    \/ /\ ~Violates(p, f)
       /\ Write(p, f)
       /\ pc' = [pc EXCEPT ![p] = l]
       /\ found' = [found EXCEPT ![p] = None]
       /\ began' = [began EXCEPT ![p] = t]
    \/ Violates(p, f) /\ Rollback(p)

\* The next SELECT ... FOR UPDATE of state s begins; its result is used at l.
Select(p, s, l) ==
    /\ found' = [found EXCEPT ![p] = Pick(p, s)]
    /\ pc' = [pc EXCEPT ![p] = l]

Begin(p) ==
    /\ ~Open(p)
    /\ Cardinality(Free) >= 2 * (1 + Cardinality({q \in Processes : Open(q)}))
    /\ began' = [began EXCEPT ![p] = now]

-----------------------------------------------------------------------------
(***************************************************************************)
(* rotate_key_type                                                         *)
(***************************************************************************)
\* The advisory lock is taken, then the active key is selected.
RotateBegin(p) ==
    /\ Begin(p)
    /\ \A q \in Rotators : ~Open(q)
    /\ Select(p, "Active", "active")
    /\ UNCHANGED <<now, rows, spent, locks, draft>>

\* Mutant: the period is one unit short.
Due_Early(k) == now >= rows[k].activated_at + RotationPeriod - 1
Due(k) == now >= rows[k].activated_at + RotationPeriod

RotateActive(p) ==
    /\ pc[p] = "active" /\ ~Waits(p)
    /\ LET k == found[p]
       IN  \/ /\ ~StillIs(p, k, "Active")
              /\ WriteThen(p, Puts(p), "commit", now)
           \/ /\ StillIs(p, k, "Active") /\ Due(k)
              /\ Write(p, Only(k, [rows[k] EXCEPT !.state = "Retired", !.retired_at = now]))
              /\ Select(p, "Next", "next_due")
              /\ ReadClock(p)
           \/ /\ StillIs(p, k, "Active") /\ ~Due(k)
              /\ Write(p, Only(k, rows[k]))
              /\ Select(p, "Next", "next_fresh")
              /\ ReadClock(p)
    /\ UNCHANGED <<now, rows, spent>>

RotatePromote(p) ==
    /\ pc[p] = "next_due" /\ ~Waits(p)
    /\ WriteThen(p, Puts(p), "commit", began[p])
    /\ UNCHANGED <<now, rows, spent>>

RotateEnsureNext(p) ==
    /\ pc[p] = "next_fresh" /\ ~Waits(p)
    /\ WriteThen(p, Puts(p), "commit", began[p])
    /\ UNCHANGED <<now, rows, spent>>

\* DELETE of the prunable rows, and COMMIT.
RotateCommit(p) ==
    /\ pc[p] = "commit" /\ p \in Rotators /\ ~Waits(p)
    /\ rows' = [k \in Kids |-> IF k \in Prunable(p) THEN None ELSE View(p)[k]]
    /\ spent' = spent \cup Prunable(p)
    /\ Rollback(p)
    /\ UNCHANGED now

-----------------------------------------------------------------------------
(***************************************************************************)
(* revoke_key                                                              *)
(***************************************************************************)
RevokeBegin(p, k) ==
    /\ Begin(p)
    /\ rows[k] # None
    /\ pc' = [pc EXCEPT ![p] = "revoke"]
    /\ found' = [found EXCEPT ![p] = k]
    /\ UNCHANGED <<now, rows, spent, locks, draft>>

\* Mutants: a revoked key is never, and always, replaced.
NeedsReplacement_Never(k) == FALSE
NeedsReplacement_Always(k) == TRUE

NeedsReplacement(k) == rows[k].state = "Active"

\* The key is locked, read again and revoked; KeyNotFound if it was pruned.
Revoke(p) ==
    /\ pc[p] = "revoke" /\ ~Waits(p)
    /\ LET k == found[p]
       IN  \/ rows[k] = None /\ Rollback(p)
           \/ /\ rows[k] # None
              /\ Write(p, Only(k, [rows[k] EXCEPT !.state = "Revoked"]))
              /\ pc' = [pc EXCEPT ![p] = IF NeedsReplacement(k) THEN "was_active" ELSE "commit"]
              /\ ReadClock(p)
              /\ UNCHANGED found
    /\ UNCHANGED <<now, rows, spent>>

\* The search for an active replacement begins.
RevokeSelectActive(p) ==
    /\ pc[p] = "was_active"
    /\ Select(p, "Active", "replacement")
    /\ UNCHANGED <<now, rows, spent, began, locks, draft>>

RevokeReplacement(p) ==
    /\ pc[p] = "replacement" /\ ~Waits(p)
    /\ IF StillIs(p, found[p], "Active")
       THEN WriteThen(p, Puts(p), "commit", began[p])
       ELSE Select(p, "Next", "promote") /\ UNCHANGED <<began, locks, draft>>
    /\ UNCHANGED <<now, rows, spent>>

RevokePromote(p) ==
    /\ pc[p] = "promote" /\ ~Waits(p)
    /\ WriteThen(p, Puts(p), "commit", began[p])
    /\ UNCHANGED <<now, rows, spent>>

RevokeCommit(p) ==
    /\ pc[p] = "commit" /\ p \in Revokers
    /\ rows' = View(p)
    /\ Rollback(p)
    /\ UNCHANGED <<now, spent>>

-----------------------------------------------------------------------------
\* A lost connection, a crash, or a deadlock PostgreSQL resolves.
Abort(p) ==
    /\ Open(p)
    /\ Rollback(p)
    /\ UNCHANGED <<now, rows, spent>>

Tick ==
    /\ now < MaxNow
    /\ \A p \in Processes : Open(p) => now < began[p] + TxnTime
    /\ now' = now + 1
    /\ UNCHANGED <<rows, spent, txnVars>>

KeyInit ==
    /\ now = 0
    /\ rows = NoRows
    /\ spent = {}
    /\ pc = [p \in Processes |-> "idle"]
    /\ found = [p \in Processes |-> None]
    /\ began = [p \in Processes |-> 0]
    /\ locks = [p \in Processes |-> {}]
    /\ draft = [p \in Processes |-> NoRows]

RotateNext(p) ==
    \/ RotateBegin(p) \/ RotateActive(p) \/ RotatePromote(p)
    \/ RotateEnsureNext(p) \/ RotateCommit(p)

RevokeNext(p) ==
    \/ \E k \in Kids : RevokeBegin(p, k)
    \/ Revoke(p) \/ RevokeSelectActive(p) \/ RevokeReplacement(p)
    \/ RevokePromote(p) \/ RevokeCommit(p)

KeyNext ==
    \/ \E p \in Rotators : RotateNext(p)
    \/ \E p \in Revokers : RevokeNext(p)
    \/ \E p \in Processes : Abort(p)
    \/ Tick

KeySpec == KeyInit /\ [][KeyNext]_keyVars

-----------------------------------------------------------------------------
\* The types of the table and of the transactions.
KeyTypeOK ==
    /\ now \in 0..MaxNow
    /\ rows \in [Kids -> Row \cup {None}]
    /\ spent \subseteq Kids
    /\ pc \in [Processes -> {"idle", "active", "next_due", "next_fresh", "commit", "revoke",
                             "was_active", "replacement", "promote"}]
    /\ found \in [Processes -> Kids \cup {None}]
    /\ began \in [Processes -> 0..MaxNow]
    /\ locks \in [Processes -> SUBSET Kids]
    /\ draft \in [Processes -> [Kids -> Row \cup {None}]]

InState(s) == {k \in Kids : HasState(rows[k], s)}

(***************************************************************************)
(* From the first rotation on there is always exactly one active key to    *)
(* sign with, and at most one next key, however rotations, revocations and *)
(* rollbacks interleave.                                                   *)
(***************************************************************************)
OneActiveKey ==
    /\ rows # NoRows => Cardinality(InState("Active")) = 1
    /\ Cardinality(InState("Next")) <= 1

(***************************************************************************)
(* Rotation retires a key only when it has been active for the rotation    *)
(* period, although several instances rotate: none acts on what it read    *)
(* before another one rotated.                                             *)
(***************************************************************************)
NoEarlyRotation ==
    [][\A k \in Kids :
          HasState(rows[k], "Active") /\ HasState(rows'[k], "Retired")
              => now >= rows[k].activated_at + RotationPeriod]_keyVars

(***************************************************************************)
(* A revoked key is never used again: no transaction that read it before   *)
(* the revocation puts it back into use.                                   *)
(***************************************************************************)
RevokedForGood ==
    [][\A k \in Kids :
          HasState(rows[k], "Revoked") => HasState(rows'[k], "Revoked")]_keyVars

(***************************************************************************)
(* The transactions never wait for each other in a circle: as long as one  *)
(* is open, one of them can take its statement without a lock or an index  *)
(* entry of another.                                                       *)
(***************************************************************************)
NoDeadlock ==
    (\E p \in Processes : Open(p)) => \E p \in Processes : Open(p) /\ ~Waits(p)
=============================================================================
